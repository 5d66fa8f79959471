------------------------------ MODULE BrokerPane ------------------------------
(***************************************************************************)
(* The MQTT pane and what it reaches its broker through: the loopback      *)
(* forwards of a tab (RemoteForwards and open_forward in                   *)
(* crates/wassh/src/app/session.rs), the pane                              *)
(* (crates/wassh-plugins/src/mqtt.rs) and the thread of its MQTT client    *)
(* (crates/wassh-mqtt/src/client.rs).  FORWARD_KEY is the only key the     *)
(* code uses, so the maps of RemoteForwards hold at most one entry.        *)
(* Topics and messages are left out.                                       *)
(***************************************************************************)
EXTENDS TabBackend, Sequences

CONSTANTS Brokers,    \* host and port in the settings of the host
          Forwards    \* forwards that may exist; one that failed is reused

ASSUME BrokerPaneAssumption == Forwards \subseteq Nat \ {0}

VARIABLES connected,  \* the tab shows Connected
          broker,     \* the broker of the settings
          fhome, ftarget, fstate,  \* of each: its transport, broker and task
          fpending,   \* forwards not yet collected
          address,    \* the forward whose address is stored, or 0
          ferror,     \* whether an error is stored
          requested,  \* MqttAnalyser::forward_requested
          status,     \* MqttAnalyser::status
          session,    \* the forward its client dialled, or 0 without a client
          client,     \* where the thread of that client is
          events      \* what the thread sent and the pane has not read

forwardVars == <<fhome, ftarget, fstate, fpending, address, ferror>>
paneVars    == <<requested, status, session, client, events>>
brokerVars  == <<linkVars, connected, broker, forwardVars, paneVars>>

Statuses == {"Idle", "Unavailable", "Connecting", "Connected", "Disconnected", "Failed"}

BrokerTypeOK ==
  /\ LinkTypeOK
  /\ connected \in BOOLEAN /\ broker \in Brokers
  /\ fhome \in [Forwards -> Links] /\ ftarget \in [Forwards -> Brokers]
  /\ fstate \in [Forwards -> {"none", "binding", "bound", "failed", "dead"}]
  /\ fpending \subseteq Forwards
  /\ address \in Forwards \cup {0} /\ ferror \in BOOLEAN
  /\ requested \in BOOLEAN /\ status \in Statuses
  /\ session \in Forwards \cup {0}
  /\ client \in {"none", "dialing", "greeting", "open", "closing", "ended"}
  /\ events \in Seq({"Connected", "Error", "Closed"})

BrokerInit ==
  /\ LinkInit
  /\ connected = FALSE
  /\ broker \in Brokers
  /\ fhome = [f \in Forwards |-> 1]
  /\ ftarget = [f \in Forwards |-> broker]
  /\ fstate = [f \in Forwards |-> "none"]
  /\ fpending = {} /\ address = 0 /\ ferror = FALSE
  /\ requested = FALSE /\ status = "Idle"
  /\ session = 0 /\ client = "none" /\ events = << >>

-----------------------------------------------------------------------------
(* The tab: its transport, and the status the pane is told.                *)

TabChanges ==
  /\ LinkStep
  /\ connected' = (connected /\ LinkDies)
  /\ UNCHANGED <<broker, forwardVars, paneVars>>

TabNotices ==
  /\ connected # alive
  /\ connected' = alive
  /\ UNCHANGED <<linkVars, broker, forwardVars, paneVars>>

EditBroker ==
  /\ broker' \in Brokers \ {broker}
  /\ UNCHANGED <<linkVars, connected, forwardVars, paneVars>>

-----------------------------------------------------------------------------
(* The forward, and the answers of its task.                               *)

ForwardEnds(f) ==
  /\ fstate[f] = "binding"
  /\ \/ Serves(fhome[f]) /\ fstate' = [fstate EXCEPT ![f] = "bound"]
     \/ Serves(fhome[f]) /\ fstate' = [fstate EXCEPT ![f] = "failed"]
     \/ ~Serves(fhome[f]) /\ fstate' = [fstate EXCEPT ![f] = "dead"]
  /\ UNCHANGED <<linkVars, connected, broker, fhome, ftarget, fpending,
                 address, ferror, paneVars>>

(* Slip: a sender that was dropped is no answer.                           *)
ForwardsTold == {f \in fpending : fstate[f] \in {"bound", "failed"}}

ForwardsAnswered == {f \in fpending : fstate[f] # "binding"}

ForwardsOpened == {f \in ForwardsAnswered : fstate[f] = "bound"}

(* The pending set never holds two, so the order of the answers is moot.   *)
AddressLeft == IF ForwardsOpened # {} THEN CHOOSE f \in ForwardsOpened : TRUE ELSE address

ErrorLeft == IF ForwardsAnswered = {} THEN ferror ELSE ForwardsOpened = {}

PollForwards ==
  /\ ForwardsAnswered # {}
  /\ fpending' = fpending \ ForwardsAnswered
  /\ address' = AddressLeft
  /\ ferror' = ErrorLeft
  /\ UNCHANGED <<linkVars, connected, broker, fhome, ftarget, fstate, paneVars>>

Free == {f \in Forwards \ fpending : fstate[f] # "bound"}

AskForward(f) ==
  /\ fhome' = [fhome EXCEPT ![f] = link]
  /\ ftarget' = [ftarget EXCEPT ![f] = broker]
  /\ fstate' = [fstate EXCEPT ![f] = "binding"]
  /\ fpending' = (fpending \ ForwardsAnswered) \cup {f}

AskNothing == fpending' = fpending \ ForwardsAnswered /\ UNCHANGED <<fhome, ftarget, fstate>>

(* open_forward: asked once per key.  An address, once there, is never     *)
(* forgotten.                                                              *)
OpenForward ==
  /\ address' = AddressLeft
  /\ IF AddressLeft # 0 \/ fpending \ ForwardsAnswered # {}
     THEN ferror' = ErrorLeft /\ AskNothing
     ELSE /\ ferror' = (backend # "ssh")
          /\ IF backend = "ssh" THEN \E f \in Free : AskForward(f) ELSE AskNothing

-----------------------------------------------------------------------------
(* A frame of the pane: show.                                              *)

(* connect: the forward first, then the client.                            *)
Connect ==
  /\ connected /\ session = 0
  /\ status \in {"Idle", "Connecting", "Unavailable"}
  /\ IF ~requested /\ address = 0 THEN OpenForward ELSE UNCHANGED forwardVars
  /\ \/ /\ ferror'
        /\ requested' = FALSE /\ status' = "Failed"
        /\ UNCHANGED <<session, client, events>>
     \/ /\ ~ferror'
        /\ requested' = (requested \/ address = 0)
        /\ status' = "Connecting"
        /\ session' = address'
        /\ client' = IF address' = 0 THEN client ELSE "dialing"
        /\ UNCHANGED events
  /\ UNCHANGED <<linkVars, connected, broker>>

Unavailable ==
  /\ ~connected /\ session = 0
  /\ status # "Unavailable" /\ status' = "Unavailable"
  /\ UNCHANGED <<linkVars, connected, broker, forwardVars, requested, session,
                 client, events>>

StatusOf(event) ==
  CASE event = "Connected" -> "Connected"
    [] event = "Error"     -> "Failed"
    [] event = "Closed"    -> "Disconnected"

(* drain_events: the loop runs on after an event that drops the client, so *)
(* the last event names the status.                                        *)
Drain ==
  /\ session # 0 /\ events # << >>
  /\ status' = StatusOf(events[Len(events)])
  /\ events' = << >>
  /\ IF \E i \in DOMAIN events : events[i] \in {"Error", "Closed"}
     THEN session' = 0 /\ client' = "none"
     ELSE UNCHANGED <<session, client>>
  /\ UNCHANGED <<linkVars, connected, broker, forwardVars, requested>>

Show == Connect \/ Unavailable \/ Drain

(* The Reconnect button of the header.                                     *)
ClickReconnect ==
  /\ status \in {"Disconnected", "Failed"}
  /\ requested' = FALSE
  /\ status' = "Connecting"
  /\ session' = 0 /\ client' = "none" /\ events' = << >>
  /\ UNCHANGED <<linkVars, connected, broker, forwardVars>>

-----------------------------------------------------------------------------
(* The thread of the client.                                               *)

ClientMoves(from, to, sent) ==
  /\ client \in from
  /\ client' = to
  /\ events' = events \o sent
  /\ UNCHANGED <<linkVars, connected, broker, forwardVars, requested, status, session>>

(* The listener is gone with the runtime it was bound in.                  *)
ClientDials ==
  \/ Serves(fhome[session]) /\ ClientMoves({"dialing"}, "greeting", << >>)
  \/ ClientMoves({"dialing"}, "ended", <<"Error">>)

BrokerAccepts == ClientMoves({"greeting"}, "open", <<"Connected">>)

(* A refusal, a bad packet or a failed read or ping: an Error, and Closed. *)
ClientFails == ClientMoves({"greeting", "open"}, "closing", <<"Error">>)

(* Slip: the thread returns without its last event.                        *)
EndsSilently == ClientMoves({"closing", "greeting", "open"}, "ended", << >>)

(* The second event of a failure, or the end of the stream.                *)
ClientCloses == ClientMoves({"closing", "greeting", "open"}, "ended", <<"Closed">>)

(* A publish that cannot be written is an Error, and the loop goes on; the *)
(* pane publishes as soon as it has a client, accepted or not.             *)
PublishFails == Len(events) < 2 /\ ClientMoves({"greeting", "open"}, client, <<"Error">>)

ClientStep == ClientDials \/ BrokerAccepts \/ ClientFails \/ ClientCloses \/ PublishFails

BrokerNext ==
  \/ TabChanges \/ TabNotices \/ EditBroker
  \/ \E f \in Forwards : ForwardEnds(f)
  \/ PollForwards
  \/ Show \/ ClickReconnect
  \/ session # 0 /\ ClientStep

BrokerSpec == BrokerInit /\ [][BrokerNext]_brokerVars

-----------------------------------------------------------------------------
(* Properties.                                                             *)

(* A client that has ended has told so, and the pane reads it: it never    *)
(* goes on showing a connection that is over.                              *)
PaneHearsTheEnd ==
  session # 0 /\ client = "ended" => events # << >> /\ events[Len(events)] # "Connected"

(* A forward the pane waits for that a transport which is up has not bound.*)
ForwardServed == \E f \in fpending : fstate[f] = "binding" /\ Serves(fhome[f])

(* The pane does not wait for a forward forever, unless the transport is up*)
(* and does not get to it: a task that died, a tab that went down and an   *)
(* error it forgot to read do not keep it waiting.                         *)
ForwardWaitEnds ==
  (status = "Connecting" /\ session = 0)
    ~> (status # "Connecting" \/ session # 0 \/ []ForwardServed)

(* "Start over: drop the client, forget the forward and reconnect"         *)
(* (mqtt.rs:913): a client dials a forward of the transport that is up.    *)
DialsCurrentForward ==
  [][session = 0 /\ session' # 0 => fhome[session'] = link]_brokerVars
=============================================================================
