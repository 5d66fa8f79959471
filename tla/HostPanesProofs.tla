---------------------------- MODULE HostPanesProofs ----------------------------
(***************************************************************************)
(* The Docker Manager and the Connection Logger, for any number of         *)
(* transports, commands, containers, tabs and changes of status.           *)
(*                                                                         *)
(* The queue of updates is kept apart from the commands that run for it,   *)
(* and the only thing that ties them together is which labels have an      *)
(* answer that is still to be taken.  DockerInv says how, and is inductive.*)
(***************************************************************************)
EXTENDS HostPanes, TabCommandsProofs, FiniteSetTheorems

(* What the Docker Manager waits for.                                      *)

(* Every command that runs is one the pane did not handle yet, and what it *)
(* did not handle yet runs or has its answer.                              *)
NothingIsLost ==
  /\ \A a \in pending : key[a] \in unread
  /\ \A k \in unread : Running(k) \/ results[k].kind # "none"

(* An inspect and a script are never under way together: both are only     *)
(* open when both were refused.                                            *)
OneStepAtATime ==
  /\ \A a, b \in pending : key[a] \in UpdateLabels /\ key[b] \in UpdateLabels => a = b
  /\ UpdateLabels \subseteq unread =>
       \A k \in UpdateLabels : ~Running(k) /\ results[k].kind = "failure"

ActionIsAwaited == acting # NoBox => "action" \in unread

UpdateIsAwaited ==
  (\E i \in DOMAIN updating : updating[i].inspecting) => unread \cap UpdateLabels # {}

(* Only the first container of the queue is worked on.                     *)
FirstIsWorkedOn == \A i \in DOMAIN updating : i # 1 => ~updating[i].inspecting

(* Unless an update was queued over one under way, what runs for an update *)
(* and what it printed are for the first container of the queue.           *)
FirstIsAimedAt ==
  ~replaced =>
    \A k \in UpdateLabels :
      /\ \A a \in pending :
           key[a] = k => updating # << >> /\ aim[a] = updating[1].box
      /\ k \in unread /\ results[k].kind = "output" =>
           updating # << >> /\ aim[results[k].ask] = updating[1].box

UpdatesInv ==
  /\ NothingIsLost /\ OneStepAtATime /\ UpdateIsAwaited
  /\ FirstIsWorkedOn /\ FirstIsAimedAt

DockerInv == CommandsInv /\ DockerTypeOK /\ ActionIsAwaited /\ UpdatesInv

(* A step that leaves the labels of the updates alone but for answers that *)
(* are drained, with k the label it is about, or no label at all.          *)
LEMMA OthersKeepUpdates ==
  ASSUME DockerInv, NEW k, k \notin UpdateLabels,
         \A a \in pending' : \/ a \in pending /\ key'[a] = key[a] /\ aim'[a] = aim[a]
                            \/ key'[a] = k,
         \A a \in 1..asked : aim'[a] = aim[a],
         \A l \in Labels \ {k} : Drains(l),
         unread \ {k} \subseteq unread', unread' \subseteq unread \cup {k},
         unread' \subseteq DockerLabels,
         k \in unread' => Running(k)' \/ results'[k].kind # "none",
         Running(k)' => k \in unread',
         \A a \in pending : a \in pending' => key'[a] = key[a],
         UNCHANGED <<updating, replaced>>
  PROVE  UpdatesInv'
<1> USE DockerPaneAssumption DEF DockerInv, UpdatesInv
<1>1. \A a \in pending' : key'[a] \in unread'
  BY DEF NothingIsLost, Running
<1>2. ASSUME NEW l \in unread' PROVE Running(l)' \/ results'[l].kind # "none"
  <2>1. CASE l = k
    BY <2>1
  <2>2. CASE l # k
    <3>1. l \in unread /\ l \in Labels \ {k}
      BY <2>2
    <3>2. CASE results'[l] = results[l] /\ \A a \in pending : key[a] = l => a \in pending'
      BY <3>1, <3>2 DEF NothingIsLost, Running
    <3>3. ASSUME NEW a \in pending, results'[l].kind \in {"output", "failure"}
          PROVE  results'[l].kind # "none"
      BY <3>3
    <3> QED
      BY <3>1, <3>2, <3>3 DEF Drains
  <2> QED
    BY <2>1, <2>2
<1>3. NothingIsLost'
  BY <1>1, <1>2 DEF NothingIsLost
<1>4. \A a \in pending' : key'[a] \in UpdateLabels => a \in pending /\ key'[a] = key[a] /\ aim'[a] = aim[a]
  OBVIOUS
<1>5. \A a, b \in pending' : key'[a] \in UpdateLabels /\ key'[b] \in UpdateLabels => a = b
  BY <1>4 DEF OneStepAtATime
<1>6. ASSUME UpdateLabels \subseteq unread', NEW l \in UpdateLabels
      PROVE  ~Running(l)' /\ results'[l].kind = "failure"
  <2>1. UpdateLabels \subseteq unread
    BY <1>6
  <2>2. ~Running(l) /\ results[l].kind = "failure"
    BY <2>1 DEF OneStepAtATime
  <2>3. ~Running(l)'
    BY <1>4, <2>2 DEF Running
  <2>4. l \in Labels \ {k}
    BY DEF UpdateLabels, DockerLabels
  <2> QED
    BY <2>2, <2>3, <2>4 DEF Drains, Running
<1>7. OneStepAtATime'
  BY <1>5, <1>6 DEF OneStepAtATime
<1>8. FirstIsWorkedOn'
  BY DEF FirstIsWorkedOn
<1>9. ASSUME ~replaced', NEW l \in UpdateLabels
      PROVE  /\ \A a \in pending' :
                  key'[a] = l => updating' # << >> /\ aim'[a] = updating'[1].box
             /\ l \in unread' /\ results'[l].kind = "output" =>
                  updating' # << >> /\ aim'[results'[l].ask] = updating'[1].box
  <2>1. /\ \A a \in pending : key[a] = l => updating # << >> /\ aim[a] = updating[1].box
        /\ l \in unread /\ results[l].kind = "output" =>
             updating # << >> /\ aim[results[l].ask] = updating[1].box
    BY <1>9 DEF FirstIsAimedAt
  <2>2. \A a \in pending' : key'[a] = l => updating' # << >> /\ aim'[a] = updating'[1].box
    BY <1>4, <2>1
  <2>3. ASSUME l \in unread', results'[l].kind = "output"
        PROVE  updating' # << >> /\ aim'[results'[l].ask] = updating'[1].box
    <3>1. l \in unread /\ l \in Labels \ {k}
      BY <2>3 DEF UpdateLabels, DockerLabels
    <3>2. CASE results'[l] = results[l]
      <4>1. results[l].ask \in 1..asked
        BY <2>3, <3>1, <3>2 DEF CommandsInv, CommandsTypeOK, Results
      <4> QED
        BY <2>1, <2>3, <3>1, <3>2, <4>1
    <3>3. ASSUME NEW a \in pending, key[a] = l, results'[l].ask = a
          PROVE  updating' # << >> /\ aim'[results'[l].ask] = updating'[1].box
      <4>1. a \in 1..asked
        BY DEF CommandsInv
      <4> QED
        BY <2>1, <3>3, <4>1
    <3> QED
      BY <3>1, <3>2, <3>3 DEF Drains
  <2> QED
    BY <2>2, <2>3
<1>10. FirstIsAimedAt'
  BY <1>9 DEF FirstIsAimedAt
<1>11. UpdateIsAwaited'
  BY DEF UpdateIsAwaited
<1> QED
  BY <1>3, <1>7, <1>8, <1>10, <1>11

(* The same, for a command that is sent under a label of its own, for an   *)
(* answer that is handled, and for steps that do neither.                  *)
LEMMA RunKeepsUpdates ==
  ASSUME DockerInv, NEW k \in DockerLabels \ UpdateLabels, NEW box \in Boxes \cup {NoBox},
         Run(k, box), UNCHANGED <<linkVars, updating, replaced>>
  PROVE  /\ CommandsInv' /\ UpdatesInv'
         /\ aim' \in [Asks -> Boxes \cup {NoBox}] /\ unread' = unread \cup {k}
<1> USE DockerPaneAssumption
<1>1. k \in Labels /\ CommandsInv /\ CommandsTypeOK /\ asked \in Nat
  BY DEF DockerInv, CommandsInv, CommandsTypeOK
<1>2. CommandsInv'
  BY <1>1, StartKeepsCommands DEF Run
<1>3. aim \in [Asks -> Boxes \cup {NoBox}] /\ unread \subseteq DockerLabels
  BY DEF DockerInv, DockerTypeOK
<1>4. pending \subseteq 1..asked /\ key \in [Asks -> Labels] /\ asked \in 0..MaxAsks
  BY <1>1 DEF CommandsInv, CommandsTypeOK
<1>5. UpdatesInv' /\ aim' \in [Asks -> Boxes \cup {NoBox}]
  <2>1. CASE backend = "ssh"
    <3>1. Send(k) /\ aim' = [aim EXCEPT ![asked + 1] = box]
      BY <2>1 DEF Run, StartCommand, Aimed
    <3>2. /\ asked' = asked + 1 /\ asked' \in Asks
          /\ asked' \in pending' /\ pending' \subseteq pending \cup {asked'}
          /\ key' = [key EXCEPT ![asked'] = k] /\ key'[asked'] = k
          /\ \A l \in Labels \ {k} : Drains(l)
      BY <1>1, <3>1, SendMoves
    <3>3. aim' \in [Asks -> Boxes \cup {NoBox}]
      BY <1>3, <3>1
    <3>4. \A a \in 1..asked : a # asked' /\ key'[a] = key[a] /\ aim'[a] = aim[a]
      BY <1>1, <1>3, <1>4, <3>1, <3>2, TabCommandsAssumption DEF Asks
    <3>5. Running(k)'
      BY <3>2 DEF Running
    <3> QED
      BY <1>3, <1>4, <3>2, <3>3, <3>4, <3>5, OthersKeepUpdates DEF Run
  <2>2. CASE backend # "ssh"
    <3>1. RefuseAll({k}) /\ aim' = aim
      BY <2>2 DEF Run, StartCommand, Aimed
    <3>2. /\ UNCHANGED <<asked, key>> /\ pending' \subseteq pending
          /\ results'[k].kind = "failure"
          /\ \A l \in Labels \ {k} : Drains(l)
      BY <1>1, <3>1, RefuseMoves
    <3>3. ~Running(k)' \/ k \in unread'
      BY DEF Run
    <3> QED
      BY <1>3, <1>4, <3>1, <3>2, <3>3, OthersKeepUpdates DEF Run
  <2> QED
    BY <2>1, <2>2
<1> QED
  BY <1>2, <1>5 DEF Run

(* Reading or forgetting an answer that is not one of an update leaves the *)
(* updates as they were.                                                   *)
LEMMA HandledKeepsUpdates ==
  ASSUME DockerInv, NEW k, k \notin UpdateLabels,
         UNCHANGED <<linkVars, commandVars, aim, updating, replaced>>,
         unread' = unread \/ (unread' = unread \ {k} /\ ~Running(k))
  PROVE  /\ CommandsInv' /\ UpdatesInv'
         /\ aim' \in [Asks -> Boxes \cup {NoBox}] /\ unread' \subseteq DockerLabels
<1> USE DEF commandVars
<1>1. CommandsInv'
  BY LinkKeepsCommands DEF DockerInv, CommandsInv, LinkTypeOK, linkVars
<1>2. aim' \in [Asks -> Boxes \cup {NoBox}] /\ unread' \subseteq DockerLabels
  BY DEF DockerInv, DockerTypeOK
<1>3. \A l \in Labels : Drains(l)
  BY DEF Drains
<1>4. k \in unread' => Running(k)' \/ results'[k].kind # "none"
  BY DEF DockerInv, UpdatesInv, NothingIsLost, Running
<1>5. Running(k)' => k \in unread'
  BY DEF DockerInv, UpdatesInv, NothingIsLost, Running
<1> QED
  BY <1>1, <1>2, <1>3, <1>4, <1>5, OthersKeepUpdates

-----------------------------------------------------------------------------
(* The steps of the Docker Manager.                                        *)

(* What a step that queues no update has to leave as it was told.          *)
LEMMA PaneKeepsDocker ==
  ASSUME DockerInv,
         CommandsInv', UpdatesInv',
         aim' \in [Asks -> Boxes \cup {NoBox}], unread' \subseteq DockerLabels,
         selected' \in Boxes \cup {NoBox}, logsFor' \in Boxes \cup {NoBox},
         confirm' \in Boxes \cup {NoBox}, acting' \in Boxes \cup {NoBox},
         detail' \in {0} \cup Asks, logs' \in {0} \cup Asks,
         stale' \subseteq Boxes, pullQueue' \in Seq(Boxes),
         acting' # NoBox => "action" \in unread',
         UNCHANGED <<updating, replaced>>
  PROVE  DockerInv'
BY DEF DockerInv, DockerTypeOK, ActionIsAwaited

(* What was printed last under a label, when the pane takes it.            *)
LEMMA TakenAnswer ==
  ASSUME CommandsInv, NEW k \in Labels
  PROVE  results[k].ask \in {0} \cup Asks /\ results[k].ask \in 0..asked
BY TabCommandsAssumption DEF CommandsInv, CommandsTypeOK, Results, Asks

(* The detail pane: a container picked, its logs, an action and its        *)
(* answer.                                                                 *)
LEMMA DetailKeepsDocker ==
  ASSUME DockerInv, DetailStep, UNCHANGED linkVars
  PROVE  DockerInv'
<1> USE DockerPaneAssumption
<1>a. /\ selected \in Boxes \cup {NoBox} /\ logsFor \in Boxes \cup {NoBox}
      /\ confirm \in Boxes \cup {NoBox} /\ acting \in Boxes \cup {NoBox}
      /\ detail \in {0} \cup Asks /\ logs \in {0} \cup Asks
      /\ stale \subseteq Boxes /\ pullQueue \in Seq(Boxes)
      /\ acting # NoBox => "action" \in unread
      /\ unread \subseteq DockerLabels
  BY DEF DockerInv, DockerTypeOK, ActionIsAwaited
<1>b. /\ "inspect" \in DockerLabels \ UpdateLabels /\ "logs" \in DockerLabels \ UpdateLabels
      /\ "action" \in DockerLabels \ UpdateLabels
      /\ "inspect" \in Labels /\ "logs" \in Labels /\ "nothing" \notin UpdateLabels
  BY DEF DockerLabels, UpdateLabels
<1>c. /\ results["inspect"].ask \in {0} \cup Asks
      /\ results["logs"].ask \in {0} \cup Asks
  BY <1>b, TakenAnswer DEF DockerInv
<1>d. ASSUME UNCHANGED <<commandVars, aim, unread, updating, replaced>>
      PROVE  /\ CommandsInv' /\ UpdatesInv'
             /\ aim' \in [Asks -> Boxes \cup {NoBox}] /\ unread' \subseteq DockerLabels
  BY <1>b, <1>d, HandledKeepsUpdates
<1>e. ASSUME NEW k \in DockerLabels \ UpdateLabels, Handled(k), UNCHANGED <<updating, replaced>>
      PROVE  /\ CommandsInv' /\ UpdatesInv'
             /\ aim' \in [Asks -> Boxes \cup {NoBox}] /\ unread' \subseteq DockerLabels
             /\ unread' = unread \ {k}
  BY <1>e, HandledKeepsUpdates DEF Handled, Takes
<1>f. ASSUME NEW k \in DockerLabels \ UpdateLabels, NEW box \in Boxes \cup {NoBox},
             Run(k, box), UNCHANGED <<updating, replaced>>
      PROVE  /\ CommandsInv' /\ UpdatesInv'
             /\ aim' \in [Asks -> Boxes \cup {NoBox}] /\ unread' \subseteq DockerLabels
             /\ unread' = unread \cup {k}
  BY <1>a, <1>f, RunKeepsUpdates
<1>1. CASE PollInspect
  BY <1>1, <1>a, <1>b, <1>c, <1>e, PaneKeepsDocker DEF PollInspect
<1>2. CASE PollLogs
  BY <1>2, <1>a, <1>b, <1>c, <1>e, PaneKeepsDocker DEF PollLogs
<1>3. CASE RequestLogs
  <2>1. /\ CommandsInv' /\ UpdatesInv'
        /\ aim' \in [Asks -> Boxes \cup {NoBox}] /\ unread' \subseteq DockerLabels
        /\ unread' = unread \cup {"logs"}
    BY <1>3, <1>a, <1>b, <1>f DEF RequestLogs
  <2> QED
    BY <1>3, <1>a, <2>1, PaneKeepsDocker DEF RequestLogs
<1>4. CASE PollAction
  BY <1>4, <1>a, <1>b, <1>e, PaneKeepsDocker DEF PollAction
<1>5. ASSUME NEW box \in Boxes, Select(box) PROVE DockerInv'
  <2>1. /\ CommandsInv' /\ UpdatesInv'
        /\ aim' \in [Asks -> Boxes \cup {NoBox}] /\ unread' \subseteq DockerLabels
        /\ unread' = unread \cup {"inspect"}
    BY <1>5, <1>b, <1>f DEF Select
  <2> QED
    BY <1>5, <1>a, <2>1, PaneKeepsDocker DEF Select
<1>6. ASSUME NEW box \in Boxes, ShowLogs(box) PROVE DockerInv'
  BY <1>6, <1>a, <1>d, PaneKeepsDocker DEF ShowLogs
<1>7. ASSUME NEW box \in Boxes \cup {NoBox}, StartAction(box), confirm' \in Boxes \cup {NoBox}
      PROVE  DockerInv'
  <2>1. /\ CommandsInv' /\ UpdatesInv'
        /\ aim' \in [Asks -> Boxes \cup {NoBox}] /\ unread' \subseteq DockerLabels
        /\ unread' = unread \cup {"action"}
    BY <1>7, <1>b, <1>f DEF StartAction
  <2> QED
    BY <1>7, <1>a, <2>1, PaneKeepsDocker DEF StartAction
<1>8. ASSUME NEW box \in Boxes, Act(box) PROVE DockerInv'
  BY <1>8, <1>a, <1>7 DEF Act
<1>9. ASSUME NEW box \in Boxes, AskFirst(box) PROVE DockerInv'
  BY <1>9, <1>a, <1>d, PaneKeepsDocker DEF AskFirst
<1>10. CASE CloseDetail
  BY <1>10, <1>a, <1>d, PaneKeepsDocker DEF CloseDetail
<1>11. CASE CloseLogs
  BY <1>11, <1>a, <1>d, PaneKeepsDocker DEF CloseLogs
<1>12. CASE Confirm
  BY <1>12, <1>a, <1>7 DEF Confirm
<1>13. CASE Decline
  BY <1>13, <1>a, <1>d, PaneKeepsDocker DEF Decline
<1>14. CASE SelectedIsGone
  BY <1>14, <1>a, <1>d, PaneKeepsDocker DEF SelectedIsGone
<1> QED
  BY <1>1, <1>2, <1>3, <1>4, <1>5, <1>6, <1>8, <1>9, <1>10, <1>11, <1>12, <1>13, <1>14
  DEF DetailStep

-----------------------------------------------------------------------------
(* The queue of the updates.                                               *)

(* With neither label running, whatever was left to take is taken.         *)
LEMMA IdleTakesAll ==
  ASSUME UpdatesInv, ~Busy
  PROVE  /\ UpdatesTaken = unread \cap UpdateLabels
         /\ \A a \in pending : key[a] \notin UpdateLabels
BY DEF UpdatesInv, NothingIsLost, Busy, UpdatesTaken, Takes, Running, UpdateLabels

(* While one of them runs the other one is idle, and nothing can be taken. *)
LEMMA BusyTakesNone ==
  ASSUME UpdatesInv, Busy
  PROVE  UpdatesTaken = {} /\ unread \cap UpdateLabels # {}
<1>1. PICK k \in UpdateLabels : Running(k)
  BY DEF Busy, UpdateLabels
<1>2. k \in unread
  BY <1>1 DEF UpdatesInv, NothingIsLost, Running
<1>3. ASSUME NEW l \in UpdateLabels, l # k PROVE l \notin unread
  <2>1. ~(UpdateLabels \subseteq unread)
    BY <1>1 DEF UpdatesInv, OneStepAtATime
  <2> QED
    BY <1>2, <1>3, <2>1 DEF UpdateLabels
<1> QED
  BY <1>1, <1>2, <1>3 DEF UpdatesTaken, Takes

(* A step of the updates that found both labels idle, with opened the      *)
(* labels it asks under.                                                   *)
PendingOpens(opened) ==
  /\ \A a \in pending' : \/ a \in pending /\ key'[a] = key[a]
                         \/ a = asked' /\ key'[a] \in opened
  /\ \A a \in pending : a \in pending' => key'[a] = key[a]

AnswersOpen(opened) ==
  /\ \A l \in opened : l \in UpdateLabels /\ results'[l].kind # "output"
  /\ \/ \A l \in opened : results'[l].kind = "failure" /\ ~Running(l)'
     \/ opened # UpdateLabels /\ \A l \in opened : Running(l)' \/ results'[l].kind = "failure"

QueueOpens(opened) ==
  /\ \A i \in DOMAIN updating' : updating'[i].inspecting => i = 1 /\ opened # {}
  /\ ~replaced' => \A a \in pending' :
       key'[a] \in UpdateLabels => updating' # << >> /\ aim'[a] = updating'[1].box

(* The next update starts only once the last one is over: nothing of it is *)
(* pending or unread when a label is opened.                               *)
LEMMA NextUpdateStep ==
  ASSUME DockerInv, ~Busy, NEW opened,
         unread' = (unread \ UpdateLabels) \cup opened,
         \A l \in Labels \ UpdateLabels : Drains(l),
         PendingOpens(opened), AnswersOpen(opened), QueueOpens(opened)
  PROVE  UpdatesInv'
<1> USE DockerPaneAssumption DEF PendingOpens, AnswersOpen, QueueOpens
<1>1. \A a \in pending : key[a] \in unread \ UpdateLabels
  BY IdleTakesAll DEF DockerInv, UpdatesInv, NothingIsLost
<1>2. \A a \in pending' : key'[a] \in UpdateLabels => a = asked' /\ key'[a] \in opened
  BY <1>1
<1>3. \A a \in pending' : key'[a] \in unread'
  BY <1>1
<1>4. ASSUME NEW l \in unread' PROVE Running(l)' \/ results'[l].kind # "none"
  <2>1. CASE l \in opened
    BY <2>1
  <2>2. CASE l \notin opened
    <3>1. l \in unread /\ l \in Labels \ UpdateLabels
      BY <2>2 DEF DockerInv, DockerTypeOK
    <3>2. CASE results'[l] = results[l] /\ \A a \in pending : key[a] = l => a \in pending'
      BY <3>1, <3>2 DEF DockerInv, UpdatesInv, NothingIsLost, Running
    <3>3. ASSUME results'[l].kind \in {"output", "failure"} PROVE results'[l].kind # "none"
      BY <3>3
    <3> QED
      BY <3>1, <3>2, <3>3 DEF Drains
  <2> QED
    BY <2>1, <2>2
<1>5. NothingIsLost'
  BY <1>3, <1>4 DEF NothingIsLost
<1>6. OneStepAtATime'
  <2>1. \A a, b \in pending' : key'[a] \in UpdateLabels /\ key'[b] \in UpdateLabels => a = b
    BY <1>2
  <2>2. UpdateLabels \subseteq unread' => opened = UpdateLabels
    OBVIOUS
  <2> QED
    BY <2>1, <2>2 DEF OneStepAtATime
<1>7. UpdateIsAwaited'
  BY DEF UpdateIsAwaited
<1>8. FirstIsWorkedOn'
  BY DEF FirstIsWorkedOn
<1>9. FirstIsAimedAt'
  <2>1. \A k \in UpdateLabels : k \in unread' => results'[k].kind # "output"
    OBVIOUS
  <2> QED
    BY <2>1 DEF FirstIsAimedAt
<1> QED
  BY <1>5, <1>6, <1>7, <1>8, <1>9 DEF UpdatesInv

(* What a step of the updates has to leave as it was told.                 *)
LEMMA UpdateKeepsDocker ==
  ASSUME DockerInv,
         CommandsInv', UpdatesInv',
         aim' \in [Asks -> Boxes \cup {NoBox}], unread' \subseteq DockerLabels,
         updating' \in Seq(Updates), replaced' \in BOOLEAN,
         stale' \subseteq Boxes, pullQueue' \in Seq(Boxes),
         "action" \in unread => "action" \in unread',
         UNCHANGED <<selected, detail, logsFor, logs, confirm, acting>>
  PROVE  DockerInv'
BY DEF DockerInv, DockerTypeOK, ActionIsAwaited
(* The containers of a set, in whatever order they are taken.              *)
LEMMA OrdersType ==
  ASSUME NEW S \in SUBSET Boxes
  PROVE  Orders(S) \subseteq Seq(Boxes)
<1>1. IsFiniteSet(S)
  BY BoxAssumption, FS_Subset
<1>2. Cardinality(S) \in Nat
  BY <1>1, FS_CardinalityType
<1>3. ASSUME NEW order \in Orders(S) PROVE order \in Seq(Boxes)
  <2>1. order \in [1..Cardinality(S) -> Boxes]
    BY DEF Orders
  <2> QED
    BY <1>2, <2>1
<1> QED
  BY <1>3

(* The answer of a pull is read, and the next container is asked about.    *)
LEMMA PullKeepsDocker ==
  ASSUME DockerInv, PollPull, UNCHANGED linkVars
  PROVE  DockerInv'
<1> USE DockerPaneAssumption
<1>a. /\ pullQueue \in Seq(Boxes) /\ stale \subseteq Boxes /\ updating \in Seq(Updates)
      /\ unread \subseteq DockerLabels /\ replaced \in BOOLEAN
      /\ "pull" \in DockerLabels \ UpdateLabels
  BY DEF DockerInv, DockerTypeOK, DockerLabels, UpdateLabels
<1>1. PICK after \in AfterPull :
        /\ pullQueue' = after[1] /\ stale' = after[2]
        /\ IF after[1] = << >> \/ Running("pull")
           THEN unread' = {k \in unread : k = "pull" => ~Takes(k)} /\ UNCHANGED <<commandVars, aim>>
           ELSE Run("pull", Head(after[1]))
  BY DEF PollPull
<1>2. after[1] \in Seq(Boxes) /\ after[2] \subseteq Boxes
  <2>1. CASE after = <<pullQueue, stale>>
    BY <1>a, <2>1
  <2>2. CASE after = << <<>>, stale>>
    BY <1>a, <2>2
  <2>3. ASSUME pullQueue # << >>, NEW moved \in {stale, stale \cup {Head(pullQueue)}},
               after = <<Tail(pullQueue), moved>>
        PROVE  after[1] \in Seq(Boxes) /\ after[2] \subseteq Boxes
    BY <1>a, <2>3
  <2> QED
    BY <2>1, <2>2, <2>3 DEF AfterPull
<1>3. UNCHANGED <<selected, detail, logsFor, logs, confirm, acting, updating, replaced>>
  BY DEF PollPull
<1>4. CASE after[1] = << >> \/ Running("pull")
  <2>1. unread' = {k \in unread : k = "pull" => ~Takes(k)} /\ UNCHANGED <<commandVars, aim>>
    BY <1>1, <1>4
  <2>2. unread' = unread \/ (unread' = unread \ {"pull"} /\ ~Running("pull"))
    BY <2>1 DEF Takes
  <2>3. /\ CommandsInv' /\ UpdatesInv'
        /\ aim' \in [Asks -> Boxes \cup {NoBox}] /\ unread' \subseteq DockerLabels
    BY <1>a, <1>3, <2>1, <2>2, HandledKeepsUpdates
  <2> QED
    BY <1>a, <1>1, <1>2, <1>3, <2>1, <2>3, UpdateKeepsDocker
<1>5. CASE ~(after[1] = << >> \/ Running("pull"))
  <2>1. Run("pull", Head(after[1])) /\ Head(after[1]) \in Boxes \cup {NoBox}
    BY <1>1, <1>2, <1>5
  <2>2. /\ CommandsInv' /\ UpdatesInv'
        /\ aim' \in [Asks -> Boxes \cup {NoBox}] /\ unread' = unread \cup {"pull"}
    BY <1>a, <1>3, <2>1, RunKeepsUpdates
  <2> QED
    BY <1>a, <1>1, <1>2, <1>3, <2>2, UpdateKeepsDocker
<1> QED
  BY <1>4, <1>5

(* Updates that are asked for wait behind the one that runs.               *)
LEMMA QueueKeepsDocker ==
  ASSUME DockerInv, NEW boxes \in Seq(Boxes), QueueUpdates(boxes), UNCHANGED linkVars
  PROVE  DockerInv'
<1> USE DEF commandVars
<1>1. CommandsInv'
  BY LinkKeepsCommands DEF QueueUpdates, DockerInv, CommandsInv, LinkTypeOK, linkVars
<1>2. updating' \in Seq(Updates) /\ \A i \in DOMAIN updating' : ~updating'[i].inspecting
  <2>1. updating' = [i \in DOMAIN boxes |-> [box |-> boxes[i], inspecting |-> FALSE]]
    BY DEF QueueUpdates
  <2>2. DOMAIN boxes = 1..Len(boxes) /\ Len(boxes) \in Nat
    OBVIOUS
  <2>3. \A i \in DOMAIN boxes : [box |-> boxes[i], inspecting |-> FALSE] \in Updates
    BY DEF Updates
  <2>4. updating' \in [1..Len(boxes) -> Updates]
    BY <2>1, <2>2, <2>3
  <2> QED
    BY <2>1, <2>2, <2>4
<1>3. UpdatesInv'
  <2>1. NothingIsLost' /\ OneStepAtATime'
    BY DEF QueueUpdates, DockerInv, UpdatesInv, NothingIsLost, OneStepAtATime, Running
  <2>2. UpdateIsAwaited' /\ FirstIsWorkedOn'
    BY <1>2 DEF UpdateIsAwaited, FirstIsWorkedOn
  <2>3. FirstIsAimedAt'
    <3>1. ~replaced' => unread \cap UpdateLabels = {}
      BY DEF QueueUpdates
    <3> QED
      BY <3>1 DEF QueueUpdates, FirstIsAimedAt, DockerInv, UpdatesInv, NothingIsLost
  <2> QED
    BY <2>1, <2>2, <2>3 DEF UpdatesInv
<1> QED
  BY <1>1, <1>2, <1>3, UpdateKeepsDocker DEF QueueUpdates, DockerInv, DockerTypeOK

(* The list of containers to ask about changes, and nothing else.          *)
LEMMA PullListKeepsDocker ==
  ASSUME DockerInv, NEW boxes \in Seq(Boxes), pullQueue' = boxes, UNCHANGED linkVars,
         UNCHANGED <<commandVars, aim, unread, selected, detail, logsFor, logs, confirm,
                     acting, updating, stale, replaced>>
  PROVE  DockerInv'
<1>1. "nothing" \notin UpdateLabels
  BY DEF UpdateLabels
<1>2. /\ CommandsInv' /\ UpdatesInv'
      /\ aim' \in [Asks -> Boxes \cup {NoBox}] /\ unread' \subseteq DockerLabels
  BY <1>1, HandledKeepsUpdates
<1> QED
  BY <1>2, UpdateKeepsDocker DEF DockerInv, DockerTypeOK
(* The first container of the queue, marked or not.                        *)
LEMMA FirstMarked ==
  ASSUME NEW queue \in Seq(Updates), queue # << >>, NEW mark \in BOOLEAN,
         NEW marked, marked = [queue EXCEPT ![1].inspecting = mark]
  PROVE  /\ marked \in Seq(Updates) /\ marked # << >> /\ marked[1].box = queue[1].box
         /\ DOMAIN marked = DOMAIN queue /\ 1 \in DOMAIN queue
         /\ \A i \in DOMAIN queue : i # 1 => marked[i] = queue[i]
<1> DEFINE first == [queue[1] EXCEPT !.inspecting = mark]
<1>1. 1 \in DOMAIN queue /\ queue[1] \in Updates
  OBVIOUS
<1>2. first \in Updates /\ first.box = queue[1].box
  BY <1>1 DEF Updates
<1>3. marked = [queue EXCEPT ![1] = first]
  BY <1>1
<1> HIDE DEF first
<1>4. Len(marked) = Len(queue) /\ marked \in Seq(Updates) /\ marked[1] = first
  BY <1>1, <1>2, <1>3
<1> QED
  BY <1>1, <1>2, <1>3, <1>4

(* The next inspect, of a queue of which nothing is worked on yet.         *)
LEMMA InspectKeepsDocker ==
  ASSUME DockerInv, ~Busy, NEW queue \in Seq(Updates), InspectNext(queue),
         \A i \in DOMAIN queue : ~queue[i].inspecting,
         UNCHANGED linkVars
  PROVE  /\ CommandsInv' /\ UpdatesInv' /\ unread' \subseteq DockerLabels
         /\ aim' \in [Asks -> Boxes \cup {NoBox}]
         /\ updating' \in Seq(Updates) /\ replaced' \in BOOLEAN
         /\ unread \ UpdateLabels \subseteq unread'
<1> USE DockerPaneAssumption
<1> DEFINE waiting == {i \in DOMAIN queue : ~queue[i].inspecting}
           first == CHOOSE i \in waiting : \A j \in waiting : i <= j
<1>0. CommandsInv /\ CommandsTypeOK /\ DockerTypeOK
  BY DEF DockerInv, CommandsInv
<1>a. /\ asked \in Nat /\ asked \in 0..MaxAsks
      /\ pending \subseteq 1..asked /\ key \in [Asks -> Labels]
      /\ aim \in [Asks -> Boxes \cup {NoBox}] /\ unread \subseteq DockerLabels
      /\ "uinspect" \in Labels
  BY <1>0 DEF CommandsInv, CommandsTypeOK, DockerTypeOK, DockerLabels
<1>b. UpdatesTaken = unread \cap UpdateLabels /\ unread \ UpdatesTaken = unread \ UpdateLabels
  BY IdleTakesAll DEF DockerInv
<1>c. replaced' = FALSE
  BY <1>b DEF InspectNext
<1>d. waiting = DOMAIN queue
  OBVIOUS
<1>e. \A a \in pending : key[a] \notin UpdateLabels
  BY IdleTakesAll DEF DockerInv
<1>1. CASE queue = << >>
  <2>1. /\ updating' = queue /\ unread' = unread \ UpdateLabels
        /\ UNCHANGED <<commandVars, aim>>
    BY <1>b, <1>1 DEF InspectNext
  <2>2. UNCHANGED <<key, pending, results>>
    BY <2>1 DEF commandVars
  <2>3. CommandsInv'
    BY <1>0, <2>1, LinkKeepsCommands DEF CommandsInv, LinkTypeOK, linkVars
  <2>4. \A l \in Labels : Drains(l)
    BY <2>2 DEF Drains
  <2>5. PendingOpens({}) /\ AnswersOpen({}) /\ QueueOpens({})
    BY <1>1, <1>e, <2>1, <2>2 DEF PendingOpens, AnswersOpen, QueueOpens
  <2>6. UpdatesInv'
    BY <2>1, <2>4, <2>5, NextUpdateStep
  <2> QED
    BY <1>a, <1>c, <2>1, <2>3, <2>6
<1>2. CASE queue # << >>
  <2>1. 1 \in DOMAIN queue /\ DOMAIN queue \subseteq Nat \ {0}
    BY <1>2
  <2>2. first = 1
    BY <1>d, <2>1
  <2>3. /\ updating' = [queue EXCEPT ![1].inspecting = TRUE]
        /\ StartCommand("uinspect")
        /\ aim' = Aimed(queue[1].box)
        /\ unread' = (unread \ UpdateLabels) \cup {"uinspect"}
    BY <1>b, <1>d, <2>1, <2>2 DEF InspectNext
  <2>4. /\ updating' \in Seq(Updates) /\ updating' # << >>
        /\ updating'[1].box = queue[1].box
        /\ \A i \in DOMAIN updating' : updating'[i].inspecting => i = 1
    BY <1>2, <2>3, FirstMarked
  <2>5. CommandsInv'
    BY <1>0, <1>a, <2>3, StartKeepsCommands
  <2>6. {"uinspect"} \in SUBSET UpdateLabels /\ {"uinspect"} # UpdateLabels
        /\ "uinspect" \in UpdateLabels
    <3>1. "uinspect" \in UpdateLabels /\ "update" \in UpdateLabels
      BY DEF UpdateLabels
    <3>2. "update" \notin {"uinspect"}
      OBVIOUS
    <3> QED
      BY <3>1, <3>2
  <2>7. queue[1].box \in Boxes
    <3>1. queue[1] \in Updates
      BY <2>1
    <3> QED
      BY <3>1 DEF Updates
  <2>8. CASE backend = "ssh"
    <3>1. Send("uinspect") /\ aim' = [aim EXCEPT ![asked + 1] = queue[1].box]
      BY <2>3, <2>8 DEF StartCommand, Aimed
    <3>2. /\ asked' = asked + 1 /\ asked' \in Asks
          /\ asked' \in pending' /\ pending' \subseteq pending \cup {asked'}
          /\ key' = [key EXCEPT ![asked'] = "uinspect"] /\ key'[asked'] = "uinspect"
          /\ results'["uinspect"] = NoResult
          /\ \A l \in Labels \ {"uinspect"} : Drains(l)
      BY <1>0, <1>a, <3>1, SendMoves
    <3>3. \A a \in pending : a # asked' /\ key'[a] = key[a]
      BY <1>a, <3>2
    <3>4. aim' \in [Asks -> Boxes \cup {NoBox}] /\ aim'[asked'] = queue[1].box
      BY <1>a, <2>7, <3>1, <3>2
    <3>5. Running("uinspect")' /\ results'["uinspect"].kind # "output"
      BY <3>2 DEF Running, NoResult
    <3>6. \A a \in pending' : key'[a] \in UpdateLabels => a = asked'
      BY <1>e, <3>2, <3>3
    <3>7. PendingOpens({"uinspect"})
      BY <3>2, <3>3 DEF PendingOpens
    <3>8. AnswersOpen({"uinspect"})
      BY <2>6, <3>2, <3>5 DEF AnswersOpen
    <3>9. QueueOpens({"uinspect"})
      BY <2>4, <3>4, <3>6 DEF QueueOpens
    <3>10. UpdatesInv'
      BY <2>3, <2>6, <3>2, <3>7, <3>8, <3>9, NextUpdateStep
    <3> QED
      BY <1>a, <1>c, <2>3, <2>4, <2>5, <3>4, <3>10 DEF DockerLabels
  <2>9. CASE backend # "ssh"
    <3>1. RefuseAll({"uinspect"}) /\ aim' = aim
      BY <2>3, <2>9 DEF StartCommand, Aimed
    <3>2. /\ UNCHANGED <<asked, key>> /\ pending' \subseteq pending
          /\ results'["uinspect"].kind = "failure"
          /\ \A l \in Labels \ {"uinspect"} : Drains(l)
      BY <1>0, <1>a, <3>1, RefuseMoves
    <3>3. \A a \in pending' : key'[a] \notin UpdateLabels
      BY <1>e, <3>2
    <3>4. PendingOpens({"uinspect"})
      BY <3>2 DEF PendingOpens
    <3>5. AnswersOpen({"uinspect"})
      BY <2>6, <3>2 DEF AnswersOpen
    <3>6. QueueOpens({"uinspect"})
      BY <2>4, <3>3 DEF QueueOpens
    <3>7. UpdatesInv'
      BY <2>3, <2>6, <3>2, <3>4, <3>5, <3>6, NextUpdateStep
    <3> QED
      BY <1>a, <1>c, <2>3, <2>4, <2>5, <3>1, <3>7 DEF DockerLabels
  <2> QED
    BY <2>8, <2>9
<1> QED
  BY <1>1, <1>2

(* The script of the container that was inspected.                         *)
LEMMA RecreateKeepsDocker ==
  ASSUME DockerInv, ~Busy, updating # << >>, Takes("uinspect"),
         results["uinspect"].kind = "output", Recreate(updating), UNCHANGED linkVars
  PROVE  /\ CommandsInv' /\ UpdatesInv' /\ unread' \subseteq DockerLabels
         /\ aim' \in [Asks -> Boxes \cup {NoBox}]
         /\ updating' \in Seq(Updates) /\ replaced' \in BOOLEAN
         /\ unread \ UpdateLabels \subseteq unread'
<1> USE DockerPaneAssumption
<1> DEFINE inspect == results["uinspect"].ask
<1>0. CommandsInv /\ CommandsTypeOK /\ DockerTypeOK
  BY DEF DockerInv, CommandsInv
<1>a. /\ asked \in Nat /\ asked \in 0..MaxAsks
      /\ pending \subseteq 1..asked /\ key \in [Asks -> Labels]
      /\ aim \in [Asks -> Boxes \cup {NoBox}] /\ unread \subseteq DockerLabels
      /\ updating \in Seq(Updates) /\ replaced \in BOOLEAN
      /\ "uinspect" \in Labels /\ "update" \in Labels /\ UpdateLabels \subseteq Labels
  BY <1>0 DEF CommandsInv, CommandsTypeOK, DockerTypeOK, DockerLabels, UpdateLabels
<1>b. UpdatesTaken = unread \cap UpdateLabels /\ unread \ UpdatesTaken = unread \ UpdateLabels
  BY IdleTakesAll DEF DockerInv
<1>c. replaced' = replaced
  BY DEF Recreate
<1>d. inspect \in 1..asked /\ inspect \in Asks
  BY <1>0, <1>a, TakenAnswer DEF CommandsInv, Asks
<1>e. \A a \in pending : key[a] \notin UpdateLabels
  BY IdleTakesAll DEF DockerInv
<1>f. aim[inspect] \in Boxes \cup {NoBox} /\ (~replaced => aim[inspect] = updating[1].box)
  <2>1. "uinspect" \in unread /\ "uinspect" \in UpdateLabels
    BY DEF Takes, UpdateLabels
  <2> QED
    BY <1>a, <1>d, <2>1 DEF DockerInv, UpdatesInv, FirstIsAimedAt
<1>g. /\ updating' \in Seq(Updates) /\ updating' # << >>
      /\ updating'[1].box = updating[1].box
      /\ \A i \in DOMAIN updating' : updating'[i].inspecting => i = 1
  <2>1. /\ updating' = [updating EXCEPT ![1].inspecting = (backend # "ssh")]
        /\ 1 \in DOMAIN updating
    BY <1>a DEF Recreate
  <2>2. FirstIsWorkedOn
    BY DEF DockerInv, UpdatesInv
  <2> QED
    BY <1>a, <2>1, <2>2, FirstMarked DEF FirstIsWorkedOn
<1>h. /\ {"update"} \in SUBSET UpdateLabels /\ {"update"} # UpdateLabels
      /\ UpdateLabels # {} /\ UpdateLabels \subseteq DockerLabels
      /\ "update" \in DockerLabels
  BY DEF UpdateLabels, DockerLabels
<1>1. CASE backend = "ssh"
  <2>1. /\ Send("update") /\ aim' = [aim EXCEPT ![asked + 1] = aim[inspect]]
        /\ unread' = (unread \ UpdateLabels) \cup {"update"}
    BY <1>b, <1>1 DEF Recreate, Aimed
  <2>2. /\ asked' = asked + 1 /\ asked' \in Asks
        /\ asked' \in pending' /\ pending' \subseteq pending \cup {asked'}
        /\ key' = [key EXCEPT ![asked'] = "update"] /\ key'[asked'] = "update"
        /\ results'["update"] = NoResult
        /\ \A l \in Labels \ {"update"} : Drains(l)
    BY <1>0, <1>a, <2>1, SendMoves
  <2>3. \A a \in pending : a # asked' /\ key'[a] = key[a]
    BY <1>a, <2>2
  <2>4. aim' \in [Asks -> Boxes \cup {NoBox}] /\ aim'[asked'] = aim[inspect]
    BY <1>a, <1>f, <2>1, <2>2
  <2>5. Running("update")' /\ results'["update"].kind # "output"
    BY <2>2 DEF Running, NoResult
  <2>6. \A a \in pending' : key'[a] \in UpdateLabels => a = asked'
    BY <1>e, <2>2, <2>3
  <2>7. \A l \in Labels \ UpdateLabels : Drains(l)
    BY <1>h, <2>2
  <2>8. PendingOpens({"update"})
    BY <2>2, <2>3 DEF PendingOpens
  <2>9. AnswersOpen({"update"})
    BY <1>h, <2>2, <2>5 DEF AnswersOpen
  <2>10. QueueOpens({"update"})
    BY <1>c, <1>f, <1>g, <2>4, <2>6 DEF QueueOpens
  <2>11. UpdatesInv'
    BY <2>1, <2>7, <2>8, <2>9, <2>10, NextUpdateStep
  <2>12. CommandsInv'
    BY <1>0, <1>a, <2>1, SendKeepsCommands
  <2> QED
    BY <1>a, <1>c, <1>g, <1>h, <2>1, <2>4, <2>11, <2>12
<1>2. CASE backend # "ssh"
  <2>1. /\ RefuseAll(UpdateLabels) /\ aim' = aim
        /\ unread' = (unread \ UpdateLabels) \cup UpdateLabels
    BY <1>b, <1>2 DEF Recreate, Aimed
  <2>2. /\ UNCHANGED <<asked, key>> /\ pending' \subseteq pending
        /\ \A l \in UpdateLabels : results'[l] = [kind |-> "failure", ask |-> 0]
        /\ \A l \in Labels \ UpdateLabels : Drains(l)
    BY <1>0, <1>a, <2>1, RefuseMoves
  <2>3. \A a \in pending' : key'[a] \notin UpdateLabels
    BY <1>e, <2>2
  <2>4. \A l \in UpdateLabels : ~Running(l)' /\ results'[l].kind = "failure"
    BY <2>2, <2>3 DEF Running
  <2>5. PendingOpens(UpdateLabels)
    BY <2>2 DEF PendingOpens
  <2>6. AnswersOpen(UpdateLabels)
    BY <2>2, <2>4 DEF AnswersOpen
  <2>7. QueueOpens(UpdateLabels)
    BY <1>g, <1>h, <2>3 DEF QueueOpens
  <2>8. UpdatesInv'
    BY <2>1, <2>2, <2>5, <2>6, <2>7, NextUpdateStep
  <2>9. CommandsInv'
    BY <1>0, <1>a, <2>1, RefuseKeepsCommands
  <2> QED
    BY <1>a, <1>c, <1>g, <1>h, <2>1, <2>8, <2>9
<1> QED
  BY <1>1, <1>2
(* A frame that looks after the updates: while a command of theirs runs it *)
(* changes nothing; otherwise it takes every answer there is.              *)
LEMMA UpdateFrameKeepsDocker ==
  ASSUME DockerInv, PollUpdate, UNCHANGED linkVars
  PROVE  DockerInv'
<1> USE DockerPaneAssumption
<1>a. /\ updating \in Seq(Updates) /\ stale \subseteq Boxes /\ pullQueue \in Seq(Boxes)
      /\ unread \subseteq DockerLabels /\ replaced \in BOOLEAN
      /\ UpdatesInv /\ "nothing" \notin UpdateLabels /\ "action" \notin UpdateLabels
  BY DEF DockerInv, DockerTypeOK, UpdateLabels
<1>b. UNCHANGED <<selected, detail, logsFor, logs, confirm, acting, pullQueue>>
  BY DEF PollUpdate
<1>1. PICK after \in AfterUpdate :
        /\ stale' = after[2]
        /\ IF Takes("uinspect") /\ after[1] # << >>
           THEN \/ TRUE \in Outcomes("uinspect") /\ Recreate(after[1])
                \/ InspectNext(Tail(after[1]))
           ELSE InspectNext(after[1])
  BY DEF PollUpdate
<1>2. /\ after[2] \subseteq Boxes
      /\ \/ ~(Takes("update") /\ updating # << >>) /\ after = <<updating, stale>>
         \/ Takes("update") /\ updating # << >> /\ after[1] = Tail(updating)
  BY <1>a DEF AfterUpdate
<1>3. CASE Busy
  <2>1. UpdatesTaken = {} /\ unread \cap UpdateLabels # {}
    BY <1>a, <1>3, BusyTakesNone
  <2>2. ~Takes("uinspect") /\ ~Takes("update")
    BY <2>1 DEF UpdatesTaken, UpdateLabels
  <2>3. after = <<updating, stale>> /\ InspectNext(updating)
    BY <1>1, <1>2, <2>2
  <2>4. /\ updating' = updating /\ unread' = unread /\ replaced' = replaced
        /\ UNCHANGED <<commandVars, aim>>
    BY <1>a, <1>3, <2>1, <2>3 DEF InspectNext
  <2>5. /\ CommandsInv' /\ UpdatesInv'
        /\ aim' \in [Asks -> Boxes \cup {NoBox}] /\ unread' \subseteq DockerLabels
    BY <1>a, <2>4, HandledKeepsUpdates
  <2> QED
    BY <1>a, <1>b, <1>1, <2>3, <2>4, <2>5, UpdateKeepsDocker
<1>4. CASE ~Busy
  <2>1. UpdatesTaken = unread \cap UpdateLabels
    BY <1>a, <1>4, IdleTakesAll
  <2>2. FirstIsWorkedOn /\ UpdateIsAwaited
    BY <1>a DEF UpdatesInv
  <2>3. /\ CommandsInv' /\ UpdatesInv' /\ unread' \subseteq DockerLabels
        /\ aim' \in [Asks -> Boxes \cup {NoBox}]
        /\ updating' \in Seq(Updates) /\ replaced' \in BOOLEAN
        /\ unread \ UpdateLabels \subseteq unread'
    <3>1. ASSUME NEW queue \in Seq(Updates), queue # << >>
          PROVE  /\ Tail(queue) \in Seq(Updates)
                 /\ \A i \in DOMAIN Tail(queue) : i + 1 \in DOMAIN queue /\ i + 1 # 1
                                                  /\ Tail(queue)[i] = queue[i + 1]
      BY <3>1
    <3>2. ASSUME NEW queue \in Seq(Updates), InspectNext(queue),
                 \A i \in DOMAIN queue : ~queue[i].inspecting
          PROVE  /\ CommandsInv' /\ UpdatesInv' /\ unread' \subseteq DockerLabels
                 /\ aim' \in [Asks -> Boxes \cup {NoBox}]
                 /\ updating' \in Seq(Updates) /\ replaced' \in BOOLEAN
                 /\ unread \ UpdateLabels \subseteq unread'
      BY <1>4, <3>2, InspectKeepsDocker
    <3>3. ASSUME updating # << >>
          PROVE  \A i \in DOMAIN Tail(updating) : ~Tail(updating)[i].inspecting
      BY <1>a, <2>2, <3>1, <3>3 DEF FirstIsWorkedOn
    <3>4. after[1] \in Seq(Updates)
      BY <1>a, <1>2, <3>1
    <3>5. CASE Takes("uinspect") /\ after[1] # << >> /\ InspectNext(Tail(after[1]))
      <4>1. updating # << >>
        BY <1>2, <3>5
      <4>2. CASE after[1] = updating
        BY <1>a, <3>1, <3>2, <3>3, <3>5, <4>1, <4>2
      <4>3. CASE after[1] = Tail(updating)
        <5>1. \A i \in DOMAIN Tail(after[1]) : ~Tail(after[1])[i].inspecting
          BY <3>1, <3>3, <3>4, <3>5, <4>1, <4>3
        <5> QED
          BY <3>1, <3>2, <3>4, <3>5, <5>1
      <4> QED
        BY <1>2, <4>2, <4>3
    <3>6. CASE ~(Takes("uinspect") /\ after[1] # << >>) /\ InspectNext(after[1])
      <4>1. CASE after[1] = << >>
        <5>1. \A i \in DOMAIN after[1] : ~after[1][i].inspecting
          BY <4>1
        <5> QED
          BY <3>2, <3>4, <3>6, <5>1
      <4>2. CASE updating # << >> /\ after[1] = Tail(updating)
        BY <3>2, <3>3, <3>4, <3>6, <4>2
      <4>3. CASE after[1] # << >> /\ after[1] = updating /\ ~Takes("update")
        <5>1. unread \cap UpdateLabels = {}
          BY <2>1, <3>6, <4>3 DEF UpdatesTaken, UpdateLabels
        <5>2. \A i \in DOMAIN updating : ~updating[i].inspecting
          BY <2>2, <5>1 DEF UpdateIsAwaited
        <5> QED
          BY <3>2, <3>4, <3>6, <4>3, <5>2
      <4> QED
        BY <1>2, <4>1, <4>2, <4>3
    <3>7. CASE /\ Takes("uinspect") /\ after[1] # << >>
               /\ TRUE \in Outcomes("uinspect") /\ Recreate(after[1])
      <4>1. results["uinspect"].kind = "output"
        BY <3>7 DEF Outcomes
      <4>2. ~Takes("update")
        BY <1>a, <3>7, <4>1 DEF Takes, UpdatesInv, OneStepAtATime, UpdateLabels
      <4>3. after[1] = updating /\ updating # << >>
        BY <1>2, <3>7, <4>2
      <4> QED
        BY <1>4, <3>7, <4>1, <4>3, RecreateKeepsDocker
    <3> QED
      BY <1>1, <3>5, <3>6, <3>7
  <2>4. "action" \in unread => "action" \in unread'
    BY <1>a, <2>3
  <2> QED
    BY <1>a, <1>b, <1>1, <1>2, <2>3, <2>4, UpdateKeepsDocker
<1> QED
  BY <1>3, <1>4

(* Every step of the updates.                                              *)
LEMMA UpdatesKeepDocker ==
  ASSUME DockerInv, UpdateStep, UNCHANGED linkVars
  PROVE  DockerInv'
<1>1. ASSUME NEW S \in SUBSET Boxes, NEW boxes \in Orders(S) PROVE boxes \in Seq(Boxes)
  BY OrdersType
<1>2. \A box \in Boxes : <<box>> \in Seq(Boxes)
  OBVIOUS
<1>3. CASE PollPull
  BY <1>3, PullKeepsDocker
<1>4. CASE PollUpdate
  BY <1>4, UpdateFrameKeepsDocker
<1>5. ASSUME NEW box \in Boxes, PullImage(box) PROVE DockerInv'
  BY <1>2, <1>5, PullListKeepsDocker DEF PullImage
<1>6. ASSUME NEW box \in Boxes, UpdateRow(box) PROVE DockerInv'
  BY <1>2, <1>6, QueueKeepsDocker DEF UpdateRow
<1>7. CASE UpdateAll
  <2>1. PICK boxes \in Orders(stale) : QueueUpdates(boxes)
    BY <1>7 DEF UpdateAll
  <2>2. boxes \in Seq(Boxes)
    BY <1>1 DEF DockerInv, DockerTypeOK
  <2> QED
    BY <2>1, <2>2, QueueKeepsDocker
<1>8. CASE CheckUpdates
  <2>1. PICK some \in SUBSET Boxes : pullQueue' \in Orders(some)
    BY <1>8 DEF CheckUpdates
  <2>2. pullQueue' \in Seq(Boxes)
    BY <1>1, <2>1
  <2> QED
    BY <1>8, <2>2, PullListKeepsDocker DEF CheckUpdates
<1> QED
  BY <1>3, <1>4, <1>5, <1>6, <1>7, <1>8 DEF UpdateStep

(* The frames and the host move the commands, and what the pane waits for  *)
(* moves with them.                                                        *)
LEMMA TabKeepsDocker ==
  ASSUME DockerInv, TabStep, UNCHANGED linkVars
  PROVE  DockerInv'
<1> USE DockerPaneAssumption
<1>a. UNCHANGED dockerVars /\ "nothing" \notin UpdateLabels /\ CommandsTypeOK
  BY DEF TabStep, DockerInv, CommandsInv, UpdateLabels
<1>b. UNCHANGED <<aim, unread, selected, detail, logsFor, logs, confirm, acting,
                  updating, stale, pullQueue, replaced>>
  BY <1>a DEF dockerVars
<1>c. "nothing" \notin unread /\ unread \subseteq DockerLabels
  BY DEF DockerInv, DockerTypeOK, DockerLabels
<1>1. /\ CommandsInv'
      /\ UNCHANGED key /\ pending' \subseteq pending /\ \A l \in Labels : Drains(l)
  <2>1. CASE PollCommands
    BY <1>a, <2>1, PollKeepsCommands, PollMoves DEF DockerInv
  <2>2. ASSUME NEW a \in Asks, TaskStep(a)
        PROVE  /\ CommandsInv'
               /\ UNCHANGED key /\ pending' \subseteq pending /\ \A l \in Labels : Drains(l)
    <3>1. UNCHANGED <<key, pending, results>>
      BY <2>2 DEF TaskStep, HostAnswers, TaskStops, TaskDies, EndTask
    <3>2. CommandsInv'
      BY <2>2, TaskKeepsCommands DEF DockerInv
    <3> QED
      BY <3>1, <3>2 DEF Drains
  <2> QED
    BY <2>1, <2>2 DEF TabStep
<1>2. "nothing" \notin DockerLabels
  BY DEF DockerLabels
<1>3. ~Running("nothing")'
  BY <1>1, <1>c DEF Running, DockerInv, UpdatesInv, NothingIsLost
<1>4. UpdatesInv'
  BY <1>a, <1>b, <1>c, <1>1, <1>3, OthersKeepUpdates
<1> QED
  BY <1>1, <1>b, <1>4, PaneKeepsDocker DEF DockerInv, DockerTypeOK, ActionIsAwaited
(* A transport that comes or goes takes nothing from the pane.             *)
LEMMA LinkKeepsDocker ==
  ASSUME DockerInv, LinkStep, UNCHANGED <<commandVars, dockerVars>>
  PROVE  DockerInv'
<1>1. CommandsInv'
  BY LinkStepType, LinkKeepsCommands DEF DockerInv, CommandsInv
<1>2. UNCHANGED <<key, pending, results>>
  BY DEF commandVars
<1>3. UNCHANGED <<aim, unread, selected, detail, logsFor, logs, confirm, acting,
                  updating, stale, pullQueue, replaced>>
  BY DEF dockerVars
<1>4. (NothingIsLost /\ OneStepAtATime)'
  BY <1>2, <1>3 DEF DockerInv, UpdatesInv, NothingIsLost, OneStepAtATime, Running
<1>5. (UpdateIsAwaited /\ FirstIsWorkedOn /\ FirstIsAimedAt)'
  BY <1>2, <1>3 DEF DockerInv, UpdatesInv, UpdateIsAwaited, FirstIsWorkedOn, FirstIsAimedAt
<1>6. (DockerTypeOK /\ ActionIsAwaited)'
  BY <1>3 DEF DockerInv, DockerTypeOK, ActionIsAwaited
<1> QED
  BY <1>1, <1>4, <1>5, <1>6 DEF DockerInv, UpdatesInv

(* The pane starts with nothing asked.                                     *)
LEMMA InitHasDocker ==
  ASSUME LinkInit, CommandsInit, DockerInit
  PROVE  DockerInv
<1>1. CommandsInv
  <2>1. Labels # {}
    BY DockerPaneAssumption DEF DockerLabels
  <2> QED
    BY <2>1, InitHasCommands
<1>2. DockerTypeOK
  <2>1. << >> \in Seq(Updates) /\ << >> \in Seq(Boxes)
    OBVIOUS
  <2>2. aim \in [Asks -> Boxes \cup {NoBox}]
    BY DEF DockerInit
  <2> QED
    BY <2>1, <2>2 DEF DockerInit, DockerTypeOK
<1>3. UpdatesInv
  BY DEF CommandsInit, DockerInit, UpdatesInv, NothingIsLost, OneStepAtATime,
         UpdateIsAwaited, FirstIsWorkedOn, FirstIsAimedAt, UpdateLabels
<1> QED
  BY <1>1, <1>2, <1>3 DEF DockerInv, DockerInit, ActionIsAwaited

(* An update is never under way twice, and whoever waits is answered.      *)
LEMMA DockerTakesTurns ==
  ASSUME DockerInv
  PROVE  UpdatesTakeTurns
<1> DEFINE running == {a \in pending : key[a] \in UpdateLabels}
<1>1. \A a, b \in running : a = b
  BY DEF DockerInv, UpdatesInv, OneStepAtATime
<1>2. Cardinality(running) <= 1
  <2>1. CASE running = {}
    BY <2>1, FS_EmptySet
  <2>2. CASE running # {}
    <3>1. PICK a : running = {a}
      BY <1>1, <2>2
    <3>2. Cardinality({a}) = 1
      BY FS_Singleton
    <3> QED
      BY <3>1, <3>2
  <2> QED
    BY <2>1, <2>2
<1> QED
  BY <1>2 DEF UpdatesTakeTurns, DockerInv, UpdatesInv, ActionIsAwaited, UpdateIsAwaited

(* Only the answer to a script unmarks a container, and it is the answer   *)
(* to the script of the first container of the queue.                      *)
LEMMA DockerCreditsWhatRan ==
  ASSUME DockerInv, NEW box \in stale \ stale', DetailStep \/ UpdateStep \/ UNCHANGED stale
  PROVE  replaced \/ aim[results["update"].ask] = box
<1>1. ~UNCHANGED stale
  OBVIOUS
<1>2. ~DetailStep
  BY <1>1 DEF DetailStep, PollInspect, PollLogs, RequestLogs, PollAction, Select, ShowLogs,
              Act, AskFirst, CloseDetail, CloseLogs, Confirm, Decline, SelectedIsGone, StartAction
<1>3. ~PollPull
  <2>1. ASSUME NEW after \in AfterPull PROVE stale \subseteq after[2]
    <3>1. CASE after = <<pullQueue, stale>>
      BY <3>1
    <3>2. CASE after = << <<>>, stale>>
      BY <3>2
    <3>3. ASSUME NEW moved \in {stale, stale \cup {Head(pullQueue)}},
                 after = <<Tail(pullQueue), moved>>
          PROVE  stale \subseteq after[2]
      BY <3>3
    <3> QED
      BY <3>1, <3>2, <3>3 DEF AfterPull
  <2> QED
    BY <2>1 DEF PollPull
<1>4. PollUpdate
  BY <1>1, <1>2, <1>3
  DEF UpdateStep, PullImage, UpdateRow, UpdateAll, QueueUpdates, CheckUpdates
<1>5. PICK after \in AfterUpdate : stale' = after[2]
  BY <1>4 DEF PollUpdate
<1>6. /\ Takes("update") /\ updating # << >> /\ TRUE \in Outcomes("update")
      /\ box = Head(updating).box
  <2>1. after # <<updating, stale>>
    BY <1>1, <1>5
  <2>2. /\ Takes("update") /\ updating # << >>
        /\ \E ok \in Outcomes("update") :
             after = <<Tail(updating), IF ok THEN stale \ {Head(updating).box} ELSE stale>>
    BY <2>1 DEF AfterUpdate
  <2>3. PICK ok \in Outcomes("update") :
          after = <<Tail(updating), IF ok THEN stale \ {Head(updating).box} ELSE stale>>
    BY <2>2
  <2>4. ok /\ stale' = stale \ {Head(updating).box}
    BY <1>1, <1>5, <2>3
  <2>5. ok = TRUE
    BY <2>4 DEF Outcomes
  <2> QED
    BY <2>2, <2>4, <2>5
<1>7. "update" \in unread /\ results["update"].kind = "output" /\ "update" \in UpdateLabels
  BY <1>6 DEF Takes, Outcomes, UpdateLabels
<1>8. ~replaced => aim[results["update"].ask] = updating[1].box
  BY <1>7 DEF DockerInv, UpdatesInv, FirstIsAimedAt
<1>9. Head(updating) = updating[1]
  BY <1>6 DEF DockerInv, DockerTypeOK
<1> QED
  BY <1>6, <1>8, <1>9
-----------------------------------------------------------------------------
(* The log.                                                                *)

(* A set of numbers has a smallest one.                                    *)
LEMMA SmallestOf ==
  ASSUME NEW S \in SUBSET Nat, S # {}
  PROVE  \E n \in S : \A m \in S : n <= m
<1>1. PICK n \in S : \A m \in S : ~(<<m, n>> \in OpToRel(<, Nat))
  BY NatLessThanWellFounded, WFMin
<1>2. \A m \in S : ~(m < n)
  BY <1>1, Zenon DEF OpToRel
<1> QED
  BY <1>2

(* The log after every event of a history, one after the other.            *)
LEMMA AbsorbedUnfolds ==
  ASSUME NEW l, NEW S, NEW s \in Seq(S)
  PROVE  \E after : /\ after[0] = l
                    /\ \A n \in 1..Len(s) : after[n] = Merge(after[n - 1], s[n])
                    /\ Absorbed(l, s) = after[Len(s)]
<1> DEFINE Chain(f, m) == [n \in 0..m |-> IF n = 0 THEN l ELSE Merge(f[n - 1], s[n])]
           stuck == {m \in 0..Len(s) : ~ \E f : f = Chain(f, m)}
<1>1. Len(s) \in Nat
  OBVIOUS
<1>2. stuck = {}
  <2>1. SUFFICES ASSUME stuck # {} PROVE FALSE
    OBVIOUS
  <2>a. stuck \in SUBSET Nat
    BY <1>1
  <2> HIDE DEF stuck
  <2>2. PICK m \in stuck : \A k \in stuck : m <= k
    BY <2>a, <2>1, SmallestOf
  <2>3. m \in 0..Len(s) /\ ~ \E f : f = Chain(f, m)
    BY <2>2 DEF stuck
  <2>4. m # 0
    <3>1. [n \in 0..0 |-> l] = Chain([n \in 0..0 |-> l], 0)
      OBVIOUS
    <3> QED
      BY <2>3, <3>1
  <2>5. m - 1 \in 0..Len(s) /\ m - 1 \notin stuck
    <3>1. m - 1 \in 0..Len(s) /\ ~(m <= m - 1)
      BY <1>1, <2>3, <2>4
    <3> QED
      BY <2>2, <3>1
  <2>6. PICK f : f = Chain(f, m - 1)
    BY <2>5 DEF stuck
  <2> DEFINE g == [n \in 0..m |-> IF n = m THEN Merge(f[m - 1], s[m]) ELSE f[n]]
  <2>7. \A n \in 0..m - 1 : f[n] = IF n = 0 THEN l ELSE Merge(f[n - 1], s[n])
    BY <2>6
  <2>8. ASSUME NEW n \in 0..m PROVE g[n] = IF n = 0 THEN l ELSE Merge(g[n - 1], s[n])
    <3>1. CASE n = m
      BY <2>3, <2>4, <3>1
    <3>2. CASE n # m
      <4>1. n \in 0..m - 1 /\ g[n] = f[n]
        BY <2>3, <3>2
      <4>2. CASE n = 0
        BY <2>7, <4>1, <4>2
      <4>3. CASE n # 0
        <5>1. n - 1 \in 0..m /\ n - 1 # m
          BY <2>3, <4>1, <4>3
        <5>2. g[n - 1] = f[n - 1]
          BY <5>1
        <5>3. f[n] = Merge(f[n - 1], s[n])
          BY <2>7, <4>1, <4>3
        <5> QED
          BY <4>1, <4>3, <5>2, <5>3
      <4> QED
        BY <4>2, <4>3
    <3> QED
      BY <3>1, <3>2
  <2>9. g = Chain(g, m)
    BY <2>8
  <2> QED
    BY <2>3, <2>9
<1>3. \E f : f = Chain(f, Len(s))
  BY <1>1, <1>2
<1> DEFINE after == CHOOSE f : f = Chain(f, Len(s))
<1>4. after = Chain(after, Len(s))
  BY <1>3
<1>5. Absorbed(l, s) = after[Len(s)]
  BY DEF Absorbed
<1> HIDE DEF after
<1>6. after[0] = l /\ \A n \in 1..Len(s) : after[n] = Merge(after[n - 1], s[n])
  BY <1>1, <1>4
<1> QED
  BY <1>5, <1>6
Logs == [entries : Seq(LogEntries), since : Times \cup {Never}]

(* The newest n elements, and where they were.                             *)
LEMMA NewestOf ==
  ASSUME NEW S, NEW s \in Seq(S), NEW n \in Nat \ {0}
  PROVE  /\ Newest(s, n) \in Seq(S)
         /\ Len(s) <= n => Newest(s, n) = s
         /\ Len(s) > n => /\ Len(Newest(s, n)) = n
                          /\ \A i \in 1..n : Newest(s, n)[i] = s[i + Len(s) - n]
<1>1. CASE Len(s) <= n
  BY <1>1 DEF Newest
<1>2. CASE Len(s) > n
  <2>1. Newest(s, n) = SubSeq(s, Len(s) - n + 1, Len(s))
    BY <1>2 DEF Newest
  <2>2. Len(s) - n + 1 \in 1..Len(s) /\ Len(s) \in Nat
    BY <1>2
  <2> QED
    BY <1>2, <2>1, <2>2
<1> QED
  BY <1>1, <1>2

(* A log after an entry: what was pushed off the front moved the others    *)
(* down, and the entry is its newest.                                      *)
AppendedTo(old, entry, m, S, new) ==
  /\ new \in Seq(S)
  /\ \E shift \in 0..Len(old) :
       /\ shift > 0 => shift = Len(old) + 1 - m
       /\ Len(new) = Len(old) + 1 - shift
       /\ new[Len(new)] = entry
       /\ \A p \in 1..Len(old) : p > shift => new[p - shift] = old[p]

(* What an entry pushes off the front moves the others down.               *)
LEMMA NewestAppend ==
  ASSUME NEW new, NEW S, NEW old \in Seq(S), NEW entry \in S, NEW m \in Nat \ {0},
         new = Newest(Append(old, entry), m)
  PROVE  AppendedTo(old, entry, m, S, new)
<1> DEFINE longer == Append(old, entry)
<1>1. /\ longer \in Seq(S) /\ Len(longer) = Len(old) + 1
      /\ \A i \in 1..Len(old) : longer[i] = old[i]
      /\ longer[Len(old) + 1] = entry
      /\ Len(old) \in Nat
  OBVIOUS
<1> HIDE DEF longer
<1>2. /\ Newest(longer, m) \in Seq(S) /\ new = Newest(longer, m)
      /\ Len(longer) <= m => Newest(longer, m) = longer
      /\ Len(longer) > m => /\ Len(Newest(longer, m)) = m
                            /\ \A i \in 1..m : Newest(longer, m)[i] = longer[i + Len(longer) - m]
  BY <1>1, NewestOf DEF longer
<1>3. CASE Len(old) + 1 <= m
  <2>1. new = longer
    BY <1>1, <1>2, <1>3
  <2>2. 0 \in 0..Len(old) /\ \A p \in 1..Len(old) : p - 0 = p
    BY <1>1
  <2>3. /\ Len(new) = Len(old) + 1 - 0 /\ new[Len(new)] = entry
        /\ \A p \in 1..Len(old) : p > 0 => new[p - 0] = old[p]
    BY <1>1, <2>1, <2>2
  <2> QED
    BY <1>2, <2>2, <2>3 DEF AppendedTo
<1>4. CASE Len(old) + 1 > m
  <2> DEFINE shift == Len(old) + 1 - m
  <2>1. /\ Len(new) = m
        /\ \A i \in 1..m : new[i] = longer[i + (Len(old) + 1) - m]
    BY <1>1, <1>2, <1>4
  <2>2. shift \in 0..Len(old) /\ m = Len(old) + 1 - shift
    BY <1>1, <1>4
  <2>3. new[m] = entry
    <3>1. m + (Len(old) + 1) - m = Len(old) + 1 /\ m \in 1..m
      BY <1>1
    <3> QED
      BY <1>1, <2>1, <3>1
  <2>4. ASSUME NEW p \in 1..Len(old), p > shift PROVE new[p - shift] = old[p]
    <3>1. p - shift \in 1..m /\ (p - shift) + (Len(old) + 1) - m = p
      BY <1>1, <2>4
    <3> QED
      BY <1>1, <2>1, <3>1
  <2> QED
    BY <1>2, <2>1, <2>2, <2>3, <2>4 DEF AppendedTo
<1> QED
  BY <1>1, <1>3, <1>4

(* An event is in a log, at most that many entries from its end.           *)
Holds(entries, event, back) ==
  \E p \in DOMAIN entries :
    p >= Len(entries) - back /\ entries[p].at = event.at /\ entries[p].kind = event.kind

(* An entry that is appended is the newest, and every other moves back by  *)
(* one and stays for as long as it is among the newest MaxEntries.         *)
LEMMA AppendHolds ==
  ASSUME NEW old \in Seq(LogEntries), NEW entry \in LogEntries,
         NEW new, new = Newest(Append(old, entry), MaxEntries)
  PROVE  /\ new \in Seq(LogEntries)
         /\ Holds(new, entry, 0)
         /\ \A event : \A back \in Nat :
              Holds(old, event, back) /\ back + 1 < MaxEntries => Holds(new, event, back + 1)
<1>1. MaxEntries \in Nat \ {0}
  BY ConnectionLogAssumption
<1>2. /\ new \in Seq(LogEntries)
      /\ \E shift \in 0..Len(old) :
           /\ shift > 0 => shift = Len(old) + 1 - MaxEntries
           /\ Len(new) = Len(old) + 1 - shift
           /\ new[Len(new)] = entry
           /\ \A p \in 1..Len(old) : p > shift => new[p - shift] = old[p]
  <2>1. AppendedTo(old, entry, MaxEntries, LogEntries, new)
    BY <1>1, NewestAppend
  <2> QED
    BY <2>1 DEF AppendedTo
<1>3. PICK shift \in 0..Len(old) :
        /\ shift > 0 => shift = Len(old) + 1 - MaxEntries
        /\ Len(new) = Len(old) + 1 - shift
        /\ new[Len(new)] = entry
        /\ \A p \in 1..Len(old) : p > shift => new[p - shift] = old[p]
  BY <1>2
<1>4. DOMAIN old = 1..Len(old) /\ Len(old) \in Nat /\ DOMAIN new = 1..Len(new)
  BY <1>2
<1>5. Holds(new, entry, 0)
  <2>1. Len(new) \in DOMAIN new /\ Len(new) >= Len(new) - 0
    BY <1>3, <1>4
  <2> QED
    BY <1>3, <2>1 DEF Holds
<1>6. ASSUME NEW event, NEW back \in Nat, Holds(old, event, back), back + 1 < MaxEntries
      PROVE  Holds(new, event, back + 1)
  <2>1. PICK p \in 1..Len(old) :
          p >= Len(old) - back /\ old[p].at = event.at /\ old[p].kind = event.kind
    BY <1>4, <1>6 DEF Holds
  <2>2. p > shift
    BY <1>1, <1>3, <1>4, <1>6, <2>1
  <2>3. p - shift \in 1..Len(new) /\ p - shift >= Len(new) - (back + 1)
    BY <1>3, <1>4, <2>1, <2>2
  <2>4. new[p - shift] = old[p]
    BY <1>3, <2>2
  <2> QED
    BY <1>4, <2>1, <2>3, <2>4 DEF Holds
<1> QED
  BY <1>2, <1>5, <1>6

(* An event that is merged is the last of the log, whether it was there or *)
(* not, and the others move one away from the end at most.                 *)
LEMMA MergeKeeps ==
  ASSUME NEW l \in Logs, NEW event \in Events
  PROVE  /\ Merge(l, event) \in Logs
         /\ Holds(Merge(l, event).entries, event, 0)
         /\ \A other : \A back \in Nat :
              Holds(l.entries, other, back) /\ back + 1 < MaxEntries
                => Holds(Merge(l, event).entries, other, back + 1)
<1> DEFINE since == IF event.kind = "Connected" THEN event.at ELSE l.since
           began == IF event.kind = "Connected" THEN Never ELSE since
           entry == [at |-> event.at, kind |-> event.kind, since |-> began]
           new == Newest(Append(l.entries, entry), MaxEntries)
<1>1. /\ l.entries \in Seq(LogEntries) /\ since \in Times \cup {Never}
      /\ entry \in LogEntries /\ entry.at = event.at /\ entry.kind = event.kind
  BY DEF Logs, Events, LogEntries
<1>2. CASE OfferedAgain(l.entries, event)
  <2>1. /\ Merge(l, event) = [l EXCEPT !.since = since]
        /\ Merge(l, event).entries = l.entries /\ Merge(l, event) \in Logs
    BY <1>1, <1>2 DEF Merge, Logs
  <2>2. Holds(l.entries, event, 0)
    <3>1. Len(l.entries) \in DOMAIN l.entries
      BY <1>1, <1>2 DEF OfferedAgain
    <3> QED
      BY <1>1, <1>2, <3>1 DEF OfferedAgain, Holds
  <2>3. \A other : \A back \in Nat :
          Holds(l.entries, other, back) => Holds(l.entries, other, back + 1)
    BY <1>1 DEF Holds
  <2> QED
    BY <2>1, <2>2, <2>3
<1>3. CASE ~OfferedAgain(l.entries, event)
  <2>1. Merge(l, event).entries = new
    BY <1>3 DEF Merge
  <2>2. /\ new \in Seq(LogEntries) /\ Holds(new, entry, 0)
        /\ \A other : \A back \in Nat :
             Holds(l.entries, other, back) /\ back + 1 < MaxEntries => Holds(new, other, back + 1)
    <3> HIDE DEF new, entry
    <3> QED
      BY <1>1, AppendHolds DEF new
  <2>3. Holds(new, event, 0)
    BY <1>1, <2>2 DEF Holds
  <2>4. Merge(l, event) \in Logs
    BY <1>1, <1>3, <2>2 DEF Merge, Logs
  <2> QED
    BY <2>1, <2>2, <2>3, <2>4
<1> QED
  BY <1>2, <1>3

(* Of the newest events of a history, every one is in the log that comes   *)
(* of it, no further from the end than it is from the end of the history.  *)
LEMMA AbsorbedKeeps ==
  ASSUME NEW l \in Logs, NEW s \in Seq(Events)
  PROVE  /\ Absorbed(l, s) \in Logs
         /\ \A j \in 1..Len(s) : Len(s) - j < MaxEntries =>
              Holds(Absorbed(l, s).entries, s[j], Len(s) - j)
<1>1. PICK after : /\ after[0] = l
                   /\ \A n \in 1..Len(s) : after[n] = Merge(after[n - 1], s[n])
                   /\ Absorbed(l, s) = after[Len(s)]
  BY AbsorbedUnfolds
<1> DEFINE Good(n) == /\ after[n] \in Logs
                      /\ \A j \in 1..n : n - j < MaxEntries =>
                           Holds(after[n].entries, s[j], n - j)
           bad == {n \in 0..Len(s) : ~Good(n)}
<1>2. Len(s) \in Nat /\ MaxEntries \in Nat \ {0}
  BY ConnectionLogAssumption
<1>3. Good(0)
  BY <1>1
<1>4. ASSUME NEW n \in 1..Len(s), Good(n - 1) PROVE Good(n)
  <2>1. /\ after[n - 1] \in Logs /\ s[n] \in Events /\ after[n] = Merge(after[n - 1], s[n])
        /\ \A j \in 1..(n - 1) : (n - 1) - j < MaxEntries =>
             Holds(after[n - 1].entries, s[j], (n - 1) - j)
    BY <1>1, <1>4
  <2>2. /\ after[n] \in Logs
        /\ Holds(after[n].entries, s[n], 0)
        /\ \A other : \A back \in Nat :
             Holds(after[n - 1].entries, other, back) /\ back + 1 < MaxEntries
               => Holds(after[n].entries, other, back + 1)
    BY <2>1, MergeKeeps
  <2>3. ASSUME NEW j \in 1..n, n - j < MaxEntries
        PROVE  Holds(after[n].entries, s[j], n - j)
    <3>1. CASE j = n
      BY <1>2, <2>2, <3>1
    <3>2. CASE j # n
      <4>1. /\ j \in 1..(n - 1) /\ (n - 1) - j \in Nat /\ (n - 1) - j < MaxEntries
            /\ ((n - 1) - j) + 1 = n - j
        BY <1>2, <2>3, <3>2
      <4> QED
        BY <2>1, <2>2, <2>3, <4>1
    <3> QED
      BY <3>1, <3>2
  <2> QED
    BY <2>2, <2>3
<1> HIDE DEF Good
<1>5. bad = {}
  <2>1. SUFFICES ASSUME bad # {} PROVE FALSE
    OBVIOUS
  <2>2. bad \in SUBSET Nat
    BY <1>2
  <2>3. PICK n \in bad : \A m \in bad : n <= m
    <3> HIDE DEF bad
    <3> QED
      BY <2>1, <2>2, SmallestOf
  <2>4. n \in 1..Len(s)
    BY <1>2, <1>3, <2>3
  <2>5. n - 1 \in 0..Len(s) /\ ~(n <= n - 1)
    BY <1>2, <2>4
  <2>6. n - 1 \notin bad
    BY <2>3, <2>5
  <2> QED
    BY <1>4, <2>3, <2>4, <2>5, <2>6
<1>6. Good(Len(s))
  BY <1>2, <1>5
<1> QED
  BY <1>1, <1>6 DEF Good
(* A clock that is read when something changed, and what it gave out.      *)
LogInv == LogTypeOK /\ clock <= changes + 1

(* A log that is loaded or was there already is a log.                     *)
LEMMA BeforeType ==
  ASSUME LogTypeOK, NEW t \in HostTabs
  PROVE  Before(t) \in Logs
<1>1. ASSUME NEW entries \in Seq(LogEntries) PROVE Loaded(entries) \in Logs
  <2>1. CASE entries = << >>
    BY <2>1 DEF Loaded, Logs
  <2>2. CASE entries # << >>
    <3>1. entries[Len(entries)] \in LogEntries
      BY <2>2
    <3> QED
      BY <3>1 DEF Loaded, Logs, LogEntries
  <2> QED
    BY <2>1, <2>2
<1> QED
  BY <1>1 DEF Before, LogTypeOK, Logs

(* Every step of the log: a status that changes, a clock that moves, a     *)
(* frame that shows it, a tab that closes.                                 *)
LEMMA LogStepKeeps ==
  ASSUME LogInv, LogNext
  PROVE  LogInv'
<1>a. /\ LogTypeOK /\ MaxEvents \in Nat /\ clock \in Nat /\ changes \in Nat
      /\ HistoryCap \in Nat \ {0}
  BY ConnectionLogAssumption DEF LogInv, LogTypeOK, Times
<1>b. NoLog \in Logs
  BY DEF NoLog, Logs
<1>1. ASSUME NEW t \in HostTabs, NEW kind \in LogKinds, RecordStatus(t, kind)
      PROVE  LogInv'
  <2>1. /\ changes' = changes + 1 /\ changes' \in 0..MaxEvents
        /\ clock' \in {clock, clock + 1} /\ clock' \in Times /\ clock' <= changes' + 1
    BY <1>a, <1>1 DEF RecordStatus, LogInv, LogTypeOK, Times
  <2> DEFINE event == [at |-> clock', kind |-> kind]
             kept == Newest(Append(statusHistory[t], event), HistoryCap)
  <2>2. kept \in Seq(Events)
    <3>1. event \in Events /\ statusHistory[t] \in Seq(Events)
      BY <1>a, <2>1 DEF Events, LogTypeOK
    <3>2. Append(statusHistory[t], event) \in Seq(Events)
      BY <3>1
    <3> QED
      BY <1>a, <3>2, NewestOf
  <2>3. statusHistory' = [statusHistory EXCEPT ![t] = kept]
    BY <1>1 DEF RecordStatus
  <2> HIDE DEF kept
  <2>4. statusHistory' \in [HostTabs -> Seq(Events)]
    BY <1>a, <2>2, <2>3 DEF LogTypeOK
  <2> QED
    BY <1>1, <2>1, <2>4 DEF RecordStatus, LogInv, LogTypeOK
<1>2. ASSUME NEW t \in HostTabs, NEW enabled \in BOOLEAN, NEW cleared \in BOOLEAN,
             ShowLog(t, enabled, cleared)
      PROVE  LogInv'
  <2> DEFINE absorbed == IF enabled THEN Absorbed(Before(t), statusHistory[t]) ELSE Before(t)
             after == IF cleared THEN NoLog ELSE absorbed
  <2>1. Before(t) \in Logs /\ statusHistory[t] \in Seq(Events)
    BY <1>a, BeforeType DEF LogTypeOK
  <2>2. after \in Logs
    BY <1>b, <2>1, AbsorbedKeeps
  <2>3. /\ log' = [log EXCEPT ![t] = after]
        /\ loaded' = [loaded EXCEPT ![t] = TRUE]
        /\ logData' = logData \/ logData' = after.entries
        /\ UNCHANGED <<clock, changes, statusHistory>>
    BY <1>2 DEF ShowLog
  <2> HIDE DEF after
  <2>4. logData' \in Seq(LogEntries) /\ log' \in [HostTabs -> Logs]
    BY <1>a, <2>2, <2>3 DEF LogTypeOK, Logs
  <2> QED
    BY <1>a, <2>3, <2>4 DEF LogInv, LogTypeOK, Logs
<1>3. ASSUME NEW t \in HostTabs, Reopened(t) PROVE LogInv'
  BY <1>a, <1>b, <1>3 DEF Reopened, LogInv, LogTypeOK, Logs
<1> QED
  BY <1>1, <1>2, <1>3 DEF LogNext

(* A frame that shows the log takes over the newest events the tab has     *)
(* recorded, all of them.                                                  *)
LEMMA FrameLogsEverything ==
  ASSUME LogTypeOK, NEW t \in HostTabs, ShowLog(t, TRUE, FALSE)
  PROVE  At(Newest(statusHistory[t], MaxEntries)) \subseteq At(log'[t].entries)
<1> DEFINE s == statusHistory[t]
           entries == Absorbed(Before(t), s).entries
           recent == Newest(s, MaxEntries)
<1>1. Before(t) \in Logs /\ s \in Seq(Events) /\ MaxEntries \in Nat \ {0} /\ Len(s) \in Nat
  BY BeforeType, ConnectionLogAssumption DEF LogTypeOK
<1>2. log'[t].entries = entries
  BY DEF ShowLog, LogTypeOK
<1>3. \A j \in 1..Len(s) : Len(s) - j < MaxEntries => Holds(entries, s[j], Len(s) - j)
  BY <1>1, AbsorbedKeeps
<1>4. ASSUME NEW i \in DOMAIN recent
      PROVE  \E j \in 1..Len(s) : recent[i] = s[j] /\ Len(s) - j < MaxEntries
  <2>1. CASE Len(s) <= MaxEntries
    <3>1. recent = s
      BY <1>1, <2>1, NewestOf
    <3>2. i \in 1..Len(s) /\ Len(s) - i < MaxEntries
      BY <1>1, <2>1, <3>1
    <3> QED
      BY <3>1, <3>2
  <2>2. CASE Len(s) > MaxEntries
    <3>1. /\ Len(recent) = MaxEntries /\ recent \in Seq(Events)
          /\ \A k \in 1..MaxEntries : recent[k] = s[k + Len(s) - MaxEntries]
      BY <1>1, <2>2, NewestOf
    <3>2. i \in 1..MaxEntries
      BY <3>1
    <3> DEFINE j == i + Len(s) - MaxEntries
    <3>3. j \in 1..Len(s) /\ Len(s) - j < MaxEntries
      BY <1>1, <2>2, <3>2
    <3> QED
      BY <3>1, <3>2, <3>3
  <2> QED
    BY <1>1, <2>1, <2>2
<1>5. ASSUME NEW i \in DOMAIN recent
      PROVE  \E p \in DOMAIN entries : entries[p].at = recent[i].at /\ entries[p].kind = recent[i].kind
  BY <1>3, <1>4 DEF Holds
<1> HIDE DEF entries, recent
<1> QED
  BY <1>2, <1>5 DEF At, recent
-----------------------------------------------------------------------------
(* Both panes.                                                             *)

HostInv == DockerInv /\ LogInv /\ shown \in {"details", "updates", "log"}

(* The invariant of the host's panes when they open.                       *)
LEMMA InitHasHost == HostInit => HostInv
<1> SUFFICES ASSUME HostInit PROVE HostInv
  OBVIOUS
<1>1. DockerInv
  BY InitHasDocker DEF HostInit
<1>2. LogInv
  <2>1. << >> \in Seq(Events) /\ << >> \in Seq(LogEntries)
    OBVIOUS
  <2> QED
    BY <2>1, ConnectionLogAssumption
    DEF HostInit, LogInit, LogInv, LogTypeOK, Times, NoLog
<1> QED
  BY <1>1, <1>2 DEF HostInit, HostInv

(* The invariant of the host's panes, step by step.                        *)
LEMMA HostStepKeeps == HostInv /\ [HostNext]_hostVars => HostInv'
<1> SUFFICES ASSUME HostInv, [HostNext]_hostVars PROVE HostInv'
  OBVIOUS
<1>a. ASSUME UNCHANGED logVars PROVE LogInv'
  BY <1>a DEF logVars, HostInv, LogInv, LogTypeOK
<1>b. ASSUME UNCHANGED <<linkVars, commandVars, dockerVars>> PROVE DockerInv'
  <2>1. "nothing" \notin UpdateLabels
    BY DEF UpdateLabels
  <2>2. /\ CommandsInv' /\ UpdatesInv'
        /\ aim' \in [Asks -> Boxes \cup {NoBox}] /\ unread' \subseteq DockerLabels
    BY <1>b, <2>1, HandledKeepsUpdates DEF HostInv, dockerVars
  <2> QED
    BY <1>b, <2>2 DEF HostInv, DockerInv, DockerTypeOK, ActionIsAwaited, dockerVars
<1>1. ASSUME LinkStep, UNCHANGED <<commandVars, dockerVars, logVars, shown>> PROVE HostInv'
  BY <1>1, <1>a, LinkKeepsDocker DEF HostInv
<1>2. ASSUME TabStep, UNCHANGED <<linkVars, logVars, shown>> PROVE HostInv'
  BY <1>2, <1>a, TabKeepsDocker DEF HostInv
<1>3. ASSUME DetailStep, UNCHANGED <<linkVars, logVars, shown>> PROVE HostInv'
  BY <1>3, <1>a, DetailKeepsDocker DEF HostInv
<1>4. ASSUME UpdateStep, UNCHANGED <<linkVars, logVars, shown>> PROVE HostInv'
  BY <1>4, <1>a, UpdatesKeepDocker DEF HostInv
<1>5. ASSUME LogNext, UNCHANGED <<linkVars, commandVars, dockerVars, shown>> PROVE HostInv'
  BY <1>5, <1>b, LogStepKeeps DEF HostInv
<1>6. CASE UNCHANGED hostVars
  BY <1>6, <1>a, <1>b DEF HostInv, hostVars
<1> QED
  BY <1>1, <1>2, <1>3, <1>4, <1>5, <1>6 DEF HostNext, InDocker

(* The invariant of the host's panes.                                      *)
LEMMA HostInvHolds == HostSpec => []HostInv
BY InitHasHost, HostStepKeeps, PTL DEF HostSpec

(* The types of everything the two panes hold, of the commands and of the  *)
(* transport (docker.rs, DockerManager; connection_logger.rs).             *)
THEOREM HostTypeCorrect == HostSpec => []HostTypeOK
<1>1. HostInv => HostTypeOK
  BY DEF HostInv, DockerInv, CommandsInv, LogInv, HostTypeOK
<1> QED
  BY <1>1, HostInvHolds, PTL

(* However answers, refusals and replaced transports interleave with the   *)
(* clicks, whoever waits in the Docker Manager has an answer to come, and  *)
(* one step of an update runs at a time (docker.rs, poll_update and take). *)
THEOREM UpdatesAreOneAtATime == HostSpec => []UpdatesTakeTurns
<1>1. HostInv => UpdatesTakeTurns
  BY DockerTakesTurns DEF HostInv
<1> QED
  BY <1>1, HostInvHolds, PTL

(* A container that is no longer stale is the one whose script ended,      *)
(* unless its update was queued over another one (docker.rs, poll_update). *)
THEOREM UnmarkedWasUpdated == HostSpec => CreditsWhatRan
<1>1. HostInv /\ [HostNext]_hostVars =>
        [\A box \in stale \ stale' :
           replaced \/ aim[results["update"].ask] = box]_<<dockerVars, results>>
  <2> SUFFICES ASSUME HostInv, [HostNext]_hostVars, NEW box \in stale \ stale'
               PROVE  replaced \/ aim[results["update"].ask] = box
    OBVIOUS
  <2>1. DetailStep \/ UpdateStep \/ UNCHANGED stale
    BY DEF HostNext, InDocker, TabStep, hostVars, dockerVars
  <2> QED
    BY <2>1, DockerCreditsWhatRan DEF HostInv
<1> QED
  BY <1>1, HostInvHolds, PTL DEF HostSpec, CreditsWhatRan

(* A frame of the Connection Logger leaves every recent change of its tab  *)
(* in the log, wherever the log came from (connection_logger.rs, absorb).  *)
THEOREM LogIsComplete == HostSpec => FramesLogEverything
<1>1. HostInv =>
        [\A t \in HostTabs :
           ShowLog(t, TRUE, FALSE) =>
             At(Newest(statusHistory[t], MaxEntries)) \subseteq At(log'[t].entries)]_logVars
  BY FrameLogsEverything DEF HostInv, LogInv
<1> QED
  BY <1>1, HostInvHolds, PTL DEF HostSpec, FramesLogEverything
=============================================================================
