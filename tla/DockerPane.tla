------------------------------- MODULE DockerPane -------------------------------
(***************************************************************************)
(* The Docker Manager pane: DockerManager in                               *)
(* crates/wassh-plugins/src/docker.rs, over the commands of the tab.  What *)
(* a command prints is told apart by the container it was asked for; a     *)
(* container runs an image of its own.  Every frame draws the pane, and    *)
(* drawing it polls: the polls of a frame read and change different things *)
(* and are actions of their own here.                                      *)
(*                                                                         *)
(* The statistics go the way of the logs.  The lists, the engine, one-off  *)
(* changes and the retry under sudo ask under labels of their own and are  *)
(* left out; of the list is kept that it may lack a container.             *)
(***************************************************************************)
EXTENDS TabCommands, Sequences, FiniteSets

CONSTANT Boxes    \* containers of the host

DockerLabels == {"action", "logs", "inspect", "pull", "uinspect", "update"}

ASSUME DockerPaneAssumption == DockerLabels \subseteq Labels

VARIABLES aim,        \* history: the container of each command
          unread,     \* labels whose attempts are not handled yet
          selected,   \* DockerManager::selected, or NoBox
          detail,     \* the command whose output is DockerManager::detail, or 0
          logsFor,    \* DockerManager::logs_for, or NoBox
          logs,       \* the command whose output is DockerManager::logs, or 0
          confirm,    \* DockerManager::confirm
          acting,     \* DockerManager::pending
          updating,   \* DockerManager::updating
          stale,      \* DockerManager::stale
          pullQueue,  \* DockerManager::pull_queue
          replaced    \* history: an update was queued over one under way

dockerVars == <<aim, unread, selected, detail, logsFor, logs, confirm, acting,
                updating, stale, pullQueue, replaced>>

NoBox == "none"

ASSUME BoxAssumption == NoBox \notin Boxes /\ IsFiniteSet(Boxes)

Updates == [box : Boxes, inspecting : BOOLEAN]

DockerTypeOK ==
  /\ aim \in [Asks -> Boxes \cup {NoBox}]
  /\ unread \subseteq DockerLabels
  /\ selected \in Boxes \cup {NoBox} /\ logsFor \in Boxes \cup {NoBox}
  /\ confirm \in Boxes \cup {NoBox} /\ acting \in Boxes \cup {NoBox}
  /\ detail \in {0} \cup Asks /\ logs \in {0} \cup Asks
  /\ updating \in Seq(Updates) /\ stale \subseteq Boxes /\ pullQueue \in Seq(Boxes)
  /\ replaced \in BOOLEAN

DockerInit ==
  /\ aim = [a \in Asks |-> NoBox]
  /\ unread = {}
  /\ selected = NoBox /\ detail = 0 /\ logsFor = NoBox /\ logs = 0
  /\ confirm = NoBox /\ acting = NoBox
  /\ updating = << >> /\ stale = {} /\ pullQueue = << >>
  /\ replaced = FALSE

-----------------------------------------------------------------------------
(* run and take.                                                           *)

Running(k) == \E a \in pending : key[a] = k

Aimed(box) == IF backend = "ssh" THEN [aim EXCEPT ![asked + 1] = box] ELSE aim

(* Once per request: nothing while the label is in use, or when its last   *)
(* answer was handled.                                                     *)
Takes(k) == k \in unread /\ ~Running(k) /\ results[k].kind # "none"

(* What is printed may still be an error of docker's.                      *)
Outcomes(k) == IF results[k].kind = "output" THEN BOOLEAN ELSE {FALSE}

Run(k, box) ==
  /\ StartCommand(k)
  /\ aim' = Aimed(box)
  /\ unread' = unread \cup {k}

Handled(k) ==
  /\ Takes(k)
  /\ unread' = unread \ {k}
  /\ UNCHANGED <<commandVars, aim>>

-----------------------------------------------------------------------------
(* One container: details, logs and actions.                               *)

Select(box) ==
  /\ Run("inspect", box)
  /\ selected' = box /\ detail' = 0 /\ logsFor' = NoBox
  /\ UNCHANGED <<logs, confirm, acting, updating, stale, pullQueue, replaced>>

PollInspect ==
  /\ Handled("inspect")
  /\ \E ok \in Outcomes("inspect") :
       detail' \in IF ok THEN {0, results["inspect"].ask} ELSE {detail}
  /\ UNCHANGED <<selected, logsFor, logs, confirm, acting, updating, stale, pullQueue,
                 replaced>>

CloseDetail ==
  /\ detail # 0
  /\ detail' = 0 /\ selected' = NoBox
  /\ UNCHANGED <<commandVars, aim, unread, logsFor, logs, confirm, acting, updating,
                 stale, pullQueue, replaced>>

ShowLogs(box) ==
  /\ logsFor' = box /\ logs' = 0
  /\ UNCHANGED <<commandVars, aim, unread, selected, detail, confirm, acting, updating,
                 stale, pullQueue, replaced>>

CloseLogs ==
  /\ logsFor # NoBox
  /\ logsFor' = NoBox
  /\ UNCHANGED <<commandVars, aim, unread, selected, detail, logs, confirm, acting,
                 updating, stale, pullQueue, replaced>>

(* request_logs, as long as there is nothing to show.                      *)
RequestLogs ==
  /\ logsFor # NoBox /\ ~Running("logs") /\ logs = 0
  /\ Run("logs", logsFor)
  /\ UNCHANGED <<selected, detail, logsFor, logs, confirm, acting, updating, stale,
                 pullQueue, replaced>>

PollLogs ==
  /\ Handled("logs")
  /\ \E ok \in Outcomes("logs") :
       logs' \in IF ok THEN {0, results["logs"].ask} ELSE {logs}
  /\ UNCHANGED <<selected, detail, logsFor, confirm, acting, updating, stale, pullQueue,
                 replaced>>

(* poll_lists, when the container that is selected is gone.                *)
SelectedIsGone ==
  /\ selected # NoBox
  /\ selected' = NoBox /\ detail' = 0 /\ logsFor' = NoBox
  /\ UNCHANGED <<commandVars, aim, unread, logs, confirm, acting, updating, stale,
                 pullQueue, replaced>>

StartAction(box) ==
  /\ Run("action", box)
  /\ acting' = box
  /\ UNCHANGED <<selected, detail, logsFor, logs, updating, stale, pullQueue, replaced>>

(* A button of a row, as long as no action is under way.                   *)
Act(box) ==
  /\ acting = NoBox
  /\ StartAction(box) /\ UNCHANGED confirm

AskFirst(box) ==
  /\ acting = NoBox
  /\ confirm' = box
  /\ UNCHANGED <<commandVars, aim, unread, selected, detail, logsFor, logs, acting,
                 updating, stale, pullQueue, replaced>>

Confirm ==
  /\ confirm # NoBox
  /\ confirm' = NoBox
  /\ StartAction(confirm)

Decline ==
  /\ confirm # NoBox
  /\ confirm' = NoBox
  /\ UNCHANGED <<commandVars, aim, unread, selected, detail, logsFor, logs, acting,
                 updating, stale, pullQueue, replaced>>

(* A container that was removed is not selected any longer.                *)
PollAction ==
  /\ Handled("action")
  /\ acting' = NoBox
  /\ \/ UNCHANGED <<selected, detail>>
     \/ /\ TRUE \in Outcomes("action") /\ acting # NoBox /\ selected = acting
        /\ selected' = NoBox /\ detail' = 0
  /\ UNCHANGED <<logsFor, logs, confirm, updating, stale, pullQueue, replaced>>

-----------------------------------------------------------------------------
(* Pulls: an image at a time, and who runs an image that moved is stale.   *)

Orders(boxes) ==
  {order \in [1..Cardinality(boxes) -> boxes] : {order[i] : i \in DOMAIN order} = boxes}

(* Check updates, over the images of what runs; Pull, over any image.      *)
CheckUpdates ==
  /\ pullQueue = << >>
  /\ \E some \in SUBSET Boxes : pullQueue' \in Orders(some)
  /\ UNCHANGED <<commandVars, aim, unread, selected, detail, logsFor, logs, confirm,
                 acting, updating, stale, replaced>>

PullImage(box) ==
  /\ pullQueue' = <<box>>
  /\ UNCHANGED <<commandVars, aim, unread, selected, detail, logsFor, logs, confirm,
                 acting, updating, stale, replaced>>

(* The queue and the stale containers after the answer to a pull, which is *)
(* taken for that of the first image of the queue.                         *)
AfterPull ==
  IF ~Takes("pull") THEN {<<pullQueue, stale>>}
  ELSE {<< <<>>, stale>> : ok \in Outcomes("pull") \cap {FALSE}} \cup
       (IF TRUE \notin Outcomes("pull") THEN {}
        ELSE IF pullQueue = << >> THEN {<<pullQueue, stale>>}
        ELSE {<<Tail(pullQueue), moved>> : moved \in {stale, stale \cup {Head(pullQueue)}}})

(* poll_pull: the answer, and the next image.                              *)
PollPull ==
  /\ \E after \in AfterPull :
       /\ pullQueue' = after[1] /\ stale' = after[2]
       /\ IF after[1] = << >> \/ Running("pull")
          THEN unread' = {k \in unread : k = "pull" => ~Takes(k)} /\ UNCHANGED <<commandVars, aim>>
          ELSE Run("pull", Head(after[1]))
  /\ UNCHANGED <<selected, detail, logsFor, logs, confirm, acting, updating, replaced>>

-----------------------------------------------------------------------------
(* Updates: a container is inspected, and a script that recreates it is    *)
(* run; then the next one.                                                 *)

UpdateLabels == {"uinspect", "update"}

(* queue_updates: Update of a stale row, or Update all.                    *)
QueueUpdates(boxes) ==
  /\ boxes # << >>
  /\ updating' = [i \in DOMAIN boxes |-> [box |-> boxes[i], inspecting |-> FALSE]]
  /\ replaced' = (unread \cap UpdateLabels # {})
  /\ UNCHANGED <<commandVars, aim, unread, selected, detail, logsFor, logs, confirm,
                 acting, stale, pullQueue>>

UpdateRow(box) == box \in stale /\ QueueUpdates(<<box>>)

UpdateAll ==
  /\ updating = << >>
  /\ \E boxes \in Orders(stale) : QueueUpdates(boxes)

(* Slip: the last container of the queue is taken for the one that is done.*)
AfterUpdatePopped ==
  IF ~Takes("update") \/ updating = << >> THEN {<<updating, stale>>}
  ELSE {<<SubSeq(updating, 1, Len(updating) - 1),
          IF ok THEN stale \ {updating[Len(updating)].box} ELSE stale>> :
          ok \in Outcomes("update")}

(* The queue and the stale containers after the answer to the script,      *)
(* which is taken for that of the first container of the queue.            *)
AfterUpdate ==
  IF ~Takes("update") \/ updating = << >> THEN {<<updating, stale>>}
  ELSE {<<Tail(updating), IF ok THEN stale \ {Head(updating).box} ELSE stale>> :
          ok \in Outcomes("update")}

UpdatesTaken == {k \in UpdateLabels : Takes(k)}

(* Slip: only its own label keeps the next inspect back.                   *)
BusyInspecting == Running("uinspect")

Busy == Running("uinspect") \/ Running("update")

(* The next inspect, when nothing is under way.                            *)
InspectNext(queue) ==
  LET waiting == {i \in DOMAIN queue : ~queue[i].inspecting}
      i == CHOOSE i \in waiting : \A j \in waiting : i <= j
  IN  /\ replaced' = (replaced /\ (unread \ UpdatesTaken) \cap UpdateLabels # {})
      /\ IF Busy \/ waiting = {}
         THEN /\ updating' = queue
              /\ unread' = unread \ UpdatesTaken
              /\ UNCHANGED <<commandVars, aim>>
         ELSE /\ updating' = [queue EXCEPT ![i].inspecting = TRUE]
              /\ StartCommand("uinspect")
              /\ aim' = Aimed(queue[i].box)
              /\ unread' = (unread \ UpdatesTaken) \cup {"uinspect"}

(* The script of the container that was inspected.  Refused, it leaves the *)
(* labels idle, and the same container is inspected again, in vain.        *)
Recreate(queue) ==
  /\ updating' = [queue EXCEPT ![1].inspecting = (backend # "ssh")]
  /\ IF backend = "ssh" THEN Send("update") ELSE RefuseAll(UpdateLabels)
  /\ aim' = Aimed(aim[results["uinspect"].ask])
  /\ unread' = (unread \ UpdatesTaken) \cup
               (IF backend = "ssh" THEN {"update"} ELSE UpdateLabels)
  /\ UNCHANGED replaced

(* poll_update.                                                            *)
PollUpdate ==
  /\ \E after \in AfterUpdate :
       /\ stale' = after[2]
       /\ IF Takes("uinspect") /\ after[1] # << >>
          THEN \/ TRUE \in Outcomes("uinspect") /\ Recreate(after[1])
               \/ InspectNext(Tail(after[1]))
          ELSE InspectNext(after[1])
  /\ UNCHANGED <<selected, detail, logsFor, logs, confirm, acting, pullQueue>>

(* What is done to single containers, and what is done to their images and *)
(* to those that are out of date: two halves of the pane that share their  *)
(* frames and the commands of the tab only.                                *)
DetailStep ==
  \/ PollInspect \/ PollLogs \/ RequestLogs \/ PollAction
  \/ \E box \in Boxes : Select(box) \/ ShowLogs(box) \/ Act(box) \/ AskFirst(box)
  \/ CloseDetail \/ CloseLogs \/ Confirm \/ Decline \/ SelectedIsGone

UpdateStep ==
  \/ PollPull \/ PollUpdate
  \/ \E box \in Boxes : PullImage(box) \/ UpdateRow(box)
  \/ UpdateAll \/ CheckUpdates

(* The frames of the tab and the host go on beside it.                     *)
TabStep ==
  (PollCommands \/ \E a \in Asks : TaskStep(a)) /\ UNCHANGED dockerVars

-----------------------------------------------------------------------------
(* Properties.                                                             *)

(* Whoever waits, waits for an answer that is still to be taken, so that   *)
(* the buttons of the rows and the queue of the updates come back; and no  *)
(* two steps of updates ever run at once, whatever was clicked, refused or *)
(* cut off in between.                                                     *)
UpdatesTakeTurns ==
  /\ acting # NoBox => "action" \in unread
  /\ (\E i \in DOMAIN updating : updating[i].inspecting) => unread \cap UpdateLabels # {}
  /\ Cardinality({a \in pending : key[a] \in UpdateLabels}) <= 1

(* A container loses its mark when the script that ended was made for it,  *)
(* unless its update was queued over one that was under way.               *)
CreditsWhatRan ==
  [][\A box \in stale \ stale' :
       replaced \/ aim[results["update"].ask] = box]_<<dockerVars, results>>

(* "A container update in flight." (docker.rs, Update): a container that   *)
(* is reported updated is the one the script was made for.                 *)
UpdatedIsRecreated ==
  [][\A box \in stale \ stale' : aim[results["update"].ask] = box]_<<dockerVars, results>>

(* "The outcome of `key`, exactly once per request." (docker.rs, take):    *)
(* the details and the logs on screen are those of the container they are  *)
(* shown for.                                                              *)
PanelsShowTheirBox ==
  /\ detail # 0 => aim[detail] = selected
  /\ logs # 0 /\ logsFor # NoBox => aim[logs] = logsFor
=============================================================================
