--------------------------- MODULE TabCommandsProofs ---------------------------
(***************************************************************************)
(* The commands of a tab, for any number of transports, labels and         *)
(* commands: CommandsInv is kept by everything the panes, the frames and   *)
(* the host may do to them.  The proofs about the panes rest on it.        *)
(***************************************************************************)
EXTENDS TabCommands, WellFoundedInduction, TLAPS

(* A command that is pending was sent, and what a pane reads is the answer *)
(* to a command that was sent and is not pending any more, or a refusal.   *)
CommandsInv ==
  /\ LinkTypeOK /\ CommandsTypeOK
  /\ pending \subseteq 1..asked
  /\ \A k \in Labels :
       /\ results[k].ask <= asked /\ results[k].ask \notin pending
       /\ results[k].kind = "output" => results[k].ask # 0

(* Whatever happens to the transport, it is one of those the tab may have. *)
LEMMA LinkStepType ==
  ASSUME LinkTypeOK, LinkStep
  PROVE  LinkTypeOK'
<1>1. CASE LinkDies
  BY <1>1 DEF LinkTypeOK, LinkDies
<1>2. CASE Disconnect
  BY <1>2 DEF LinkTypeOK, Disconnect
<1>3. CASE Reconnect
  <2>1. link' \in Links
    BY <1>3, TabBackendAssumption DEF LinkTypeOK, Reconnect, Links
  <2> QED
    BY <1>3, <2>1 DEF LinkTypeOK, Reconnect
<1> QED
  BY <1>1, <1>2, <1>3 DEF LinkStep

-----------------------------------------------------------------------------
(* Answers that landed.                                                    *)

(* Of some commands one was sent last.                                     *)
LEMMA LastOfSome ==
  ASSUME NEW S \in SUBSET Asks, S # {}
  PROVE  \E a \in S : \A b \in S : b <= a
<1> DEFINE behind == {MaxAsks - a : a \in S}
<1>1. MaxAsks \in Nat
  BY TabCommandsAssumption
<1>2. behind \subseteq Nat /\ behind # {}
  <2>1. \A a \in S : MaxAsks - a \in Nat
    BY <1>1 DEF Asks
  <2> QED
    BY <2>1
<1> HIDE DEF behind
<1>3. PICK n \in behind : \A m \in behind : ~(<<m, n>> \in OpToRel(<, Nat))
  BY <1>2, NatLessThanWellFounded, WFMin
<1>4. \A m \in behind : ~(m < n)
  BY <1>2, <1>3, Zenon DEF OpToRel
<1>5. PICK a \in S : n = MaxAsks - a
  BY DEF behind
<1>6. ASSUME NEW b \in S PROVE b <= a
  <2>1. ~(MaxAsks - b < n)
    BY <1>4 DEF behind
  <2> QED
    BY <1>1, <1>5, <2>1 DEF Asks
<1> QED
  BY <1>6

(* What is stored under a label after the answers are drained: what was    *)
(* there, or the answer to a command that was pending under that label.    *)
LEMMA ResultsLeftOf ==
  ASSUME CommandsTypeOK, NEW k \in Labels
  PROVE  \/ LandedUnder(k) = {} /\ ResultsLeft[k] = results[k]
         \/ \E a \in LandedUnder(k) : ResultsLeft[k] = ResultOf(a)
<1> DEFINE a == CHOOSE a \in LandedUnder(k) : \A b \in LandedUnder(k) : b <= a
<1>1. CASE LandedUnder(k) = {}
  BY <1>1 DEF ResultsLeft
<1>2. CASE LandedUnder(k) # {}
  <2>1. LandedUnder(k) \subseteq Asks
    BY DEF LandedUnder, Landed, CommandsTypeOK
  <2>2. a \in LandedUnder(k)
    BY <1>2, <2>1, LastOfSome
  <2>3. ResultsLeft[k] = ResultOf(a)
    BY <1>2 DEF ResultsLeft
  <2> QED
    BY <2>2, <2>3
<1> QED
  BY <1>1, <1>2

(* What a frame leaves of the results and of the tasks is well typed.      *)
LEMMA ResultsLeftType ==
  ASSUME CommandsTypeOK
  PROVE  /\ ResultsLeft \in [Labels -> Results]
         /\ TasksLeft \in [Asks -> {"none", "running", "answered", "stopped", "dead", "taken"}]
         /\ pending \ Landed \subseteq Asks /\ StopsLeft \subseteq Asks
<1>1. ASSUME NEW k \in Labels PROVE ResultsLeft[k] \in Results
  <2>1. CASE ResultsLeft[k] = results[k]
    BY <2>1 DEF CommandsTypeOK
  <2>2. ASSUME NEW a \in LandedUnder(k), ResultsLeft[k] = ResultOf(a)
        PROVE  ResultsLeft[k] \in Results
    <3>1. a \in 0..MaxAsks
      BY DEF LandedUnder, Landed, CommandsTypeOK, Asks
    <3> QED
      BY <2>2, <3>1 DEF ResultOf, Results
  <2> QED
    BY <2>1, <2>2, ResultsLeftOf
<1>2. ResultsLeft \in [Labels -> Results]
  <2>1. ResultsLeft = [k \in Labels |-> ResultsLeft[k]]
    BY DEF ResultsLeft
  <2> QED
    BY <1>1, <2>1
<1>3. TasksLeft \in [Asks -> {"none", "running", "answered", "stopped", "dead", "taken"}]
  BY DEF TasksLeft, CommandsTypeOK
<1> QED
  BY <1>2, <1>3 DEF StopsLeft, CommandsTypeOK

(* What CommandsInv says of the results still holds once they are drained. *)
LEMMA ResultsLeftSound ==
  ASSUME CommandsInv, NEW k \in Labels
  PROVE  /\ ResultsLeft[k].ask \in 0..asked /\ ResultsLeft[k].ask \notin pending \ Landed
         /\ ResultsLeft[k].kind = "output" => ResultsLeft[k].ask # 0
<1> USE DEF CommandsInv, CommandsTypeOK
<1>1. CASE ResultsLeft[k] = results[k]
  BY <1>1 DEF Results
<1>2. ASSUME NEW a \in LandedUnder(k), ResultsLeft[k] = ResultOf(a)
      PROVE  /\ ResultsLeft[k].ask \in 0..asked /\ ResultsLeft[k].ask \notin pending \ Landed
             /\ ResultsLeft[k].kind = "output" => ResultsLeft[k].ask # 0
  <2>1. a \in Landed /\ a \in 1..asked
    BY DEF LandedUnder, Landed
  <2>2. ResultsLeft[k].ask = a
    BY <1>2 DEF ResultOf
  <2> QED
    BY <2>1, <2>2
<1> QED
  BY <1>1, <1>2, ResultsLeftOf

-----------------------------------------------------------------------------
(* What a step does, in the terms the panes need.                          *)

(* Of label l nothing is taken, or one of its answers is.                  *)
Drains(l) ==
  \/ results'[l] = results[l] /\ \A a \in pending : key[a] = l => a \in pending'
  \/ \E a \in pending :
       key[a] = l /\ results'[l].ask = a /\ results'[l].kind \in {"output", "failure"}

(* A result changes only into the answer of a command that landed.         *)
LEMMA ResultsDrain ==
  ASSUME CommandsTypeOK, NEW l \in Labels, results'[l] = ResultsLeft[l],
         pending \ Landed \subseteq pending'
  PROVE  Drains(l)
<1>1. CASE LandedUnder(l) = {} /\ ResultsLeft[l] = results[l]
  BY <1>1 DEF Drains, LandedUnder
<1>2. ASSUME NEW a \in LandedUnder(l), ResultsLeft[l] = ResultOf(a)
      PROVE  Drains(l)
  BY <1>2 DEF Drains, LandedUnder, Landed, ResultOf
<1> QED
  BY <1>1, <1>2, ResultsLeftOf

(* A frame sends nothing, and results change into answers only.            *)
LEMMA PollMoves ==
  ASSUME CommandsTypeOK, PollCommands
  PROVE  /\ UNCHANGED <<asked, key, latest>> /\ pending' \subseteq pending
         /\ \A l \in Labels : Drains(l)
<1>1. UNCHANGED <<asked, key, latest>> /\ pending' = pending \ Landed
  BY DEF PollCommands
<1>2. ASSUME NEW l \in Labels PROVE Drains(l)
  BY <1>1, ResultsDrain DEF PollCommands
<1> QED
  BY <1>1, <1>2

(* A command that is sent is a new one, pending under its label.           *)
LEMMA SendMoves ==
  ASSUME CommandsTypeOK, NEW k \in Labels, Send(k)
  PROVE  /\ asked' = asked + 1 /\ asked' \in Asks
         /\ asked' \in pending' /\ pending' \subseteq pending \cup {asked'}
         /\ key' = [key EXCEPT ![asked'] = k] /\ key'[asked'] = k
         /\ latest' = [latest EXCEPT ![k] = asked']
         /\ results'[k] = NoResult
         /\ \A l \in Labels \ {k} : Drains(l)
<1>1. /\ asked' = asked + 1 /\ asked' \in Asks
      /\ pending' = (pending \ Landed) \cup {asked'}
      /\ key' = [key EXCEPT ![asked'] = k]
      /\ latest' = [latest EXCEPT ![k] = asked']
      /\ results' = [ResultsLeft EXCEPT ![k] = NoResult]
  BY DEF Send
<1>2. key'[asked'] = k
  BY <1>1 DEF CommandsTypeOK
<1>3. results'[k] = NoResult
  BY <1>1, ResultsLeftType
<1>4. ASSUME NEW l \in Labels \ {k} PROVE Drains(l)
  <2>1. results'[l] = ResultsLeft[l] /\ pending \ Landed \subseteq pending'
    BY <1>1, ResultsLeftType
  <2> QED
    BY <2>1, ResultsDrain
<1> QED
  BY <1>1, <1>2, <1>3, <1>4

(* Labels that are refused wait for no command any more.                   *)
LEMMA RefuseMoves ==
  ASSUME CommandsTypeOK, NEW asks \in SUBSET Labels, RefuseAll(asks)
  PROVE  /\ UNCHANGED <<asked, key>> /\ pending' \subseteq pending
         /\ latest' = [k \in Labels |-> IF k \in asks THEN 0 ELSE latest[k]]
         /\ \A l \in asks : results'[l] = [kind |-> "failure", ask |-> 0]
         /\ \A l \in Labels \ asks : Drains(l)
<1>1. /\ UNCHANGED <<asked, key>> /\ pending' = pending \ Landed
      /\ latest' = [k \in Labels |-> IF k \in asks THEN 0 ELSE latest[k]]
      /\ results' = [k \in Labels |-> IF k \in asks THEN [kind |-> "failure", ask |-> 0]
                                     ELSE ResultsLeft[k]]
  BY DEF RefuseAll
<1>2. ASSUME NEW l \in Labels \ asks PROVE Drains(l)
  BY <1>1, ResultsDrain
<1> QED
  BY <1>1, <1>2

-----------------------------------------------------------------------------
(* The steps.                                                              *)

(* start_command, with a transport: the command is sent.                   *)
LEMMA SendKeepsCommands ==
  ASSUME CommandsInv, NEW k \in Labels, Send(k), UNCHANGED linkVars
  PROVE  CommandsInv'
<1> USE TabCommandsAssumption, TabBackendAssumption
<1>1. /\ asked' = asked + 1 /\ asked' \in Asks /\ asked \in Nat
      /\ pending' = (pending \ Landed) \cup {asked'}
      /\ results' = [ResultsLeft EXCEPT ![k] = NoResult]
  BY DEF Send, CommandsInv, CommandsTypeOK
<1>2. LinkTypeOK'
  BY DEF CommandsInv, LinkTypeOK, linkVars
<1>3. NoResult \in Results
  BY DEF NoResult, Results
<1>4. CommandsTypeOK'
  BY <1>1, <1>3, ResultsLeftType
  DEF Send, CommandsInv, CommandsTypeOK, LinkTypeOK, Asks
<1>5. pending' \subseteq 1..asked'
  <2>1. pending \subseteq 1..asked
    BY DEF CommandsInv
  <2>2. 1..asked \subseteq 1..asked' /\ asked' \in 1..asked'
    BY <1>1
  <2>3. pending' = (pending \ Landed) \cup {asked'}
    BY <1>1
  <2> QED
    BY <2>1, <2>2, <2>3, Zenon
<1>6. ASSUME NEW l \in Labels
      PROVE  /\ results'[l].ask <= asked' /\ results'[l].ask \notin pending'
             /\ results'[l].kind = "output" => results'[l].ask # 0
  <2>1. CASE l = k
    <3>1. results'[l] = NoResult
      BY <1>1, <2>1, ResultsLeftType DEF CommandsInv
    <3>2. 0 <= asked' /\ 0 \notin 1..asked'
      BY <1>1
    <3>3. results'[l].ask = 0 /\ results'[l].kind = "none"
      BY <3>1 DEF NoResult
    <3> QED
      BY <1>5, <3>2, <3>3
  <2>2. CASE l # k
    <3>1. results'[l] = ResultsLeft[l]
      BY <1>1, <2>2, ResultsLeftType DEF CommandsInv
    <3> QED
      BY <1>1, <3>1, ResultsLeftSound
  <2> QED
    BY <2>1, <2>2
<1> QED
  BY <1>2, <1>4, <1>5, <1>6 DEF CommandsInv

(* start_command, without one: the label fails at once.                    *)
LEMMA RefuseKeepsCommands ==
  ASSUME CommandsInv, NEW asks \in SUBSET Labels, RefuseAll(asks), UNCHANGED linkVars
  PROVE  CommandsInv'
<1> USE TabCommandsAssumption, TabBackendAssumption
<1> DEFINE refusal == [kind |-> "failure", ask |-> 0]
<1>1. /\ asked' = asked /\ asked \in Nat /\ pending' = pending \ Landed
      /\ results' = [k \in Labels |-> IF k \in asks THEN refusal ELSE ResultsLeft[k]]
  BY DEF RefuseAll, CommandsInv, CommandsTypeOK
<1>2. LinkTypeOK'
  BY DEF CommandsInv, LinkTypeOK, linkVars
<1>3. refusal \in Results
  BY DEF Results
<1>4. CommandsTypeOK'
  BY <1>1, <1>3, ResultsLeftType DEF RefuseAll, CommandsInv, CommandsTypeOK
<1>5. pending' \subseteq 1..asked'
  BY <1>1 DEF CommandsInv
<1>6. ASSUME NEW l \in Labels
      PROVE  /\ results'[l].ask <= asked' /\ results'[l].ask \notin pending'
             /\ results'[l].kind = "output" => results'[l].ask # 0
  <2>1. CASE l \in asks
    BY <1>1, <1>5, <2>1
  <2>2. CASE l \notin asks
    BY <1>1, <2>2, ResultsLeftSound
  <2> QED
    BY <2>1, <2>2
<1> QED
  BY <1>2, <1>4, <1>5, <1>6 DEF CommandsInv

(* A command is sent or refused.                                           *)
LEMMA StartKeepsCommands ==
  ASSUME CommandsInv, NEW k \in Labels, StartCommand(k), UNCHANGED linkVars
  PROVE  CommandsInv'
BY SendKeepsCommands, RefuseKeepsCommands DEF StartCommand

(* A frame takes the answers that are there.                               *)
LEMMA PollKeepsCommands ==
  ASSUME CommandsInv, PollCommands, UNCHANGED linkVars
  PROVE  CommandsInv'
<1>1. LinkTypeOK'
  BY DEF CommandsInv, LinkTypeOK, linkVars
<1>2. CommandsTypeOK'
  BY ResultsLeftType DEF PollCommands, CommandsInv, CommandsTypeOK
<1>3. pending' \subseteq 1..asked'
  BY DEF PollCommands, CommandsInv
<1>4. ASSUME NEW l \in Labels
      PROVE  /\ results'[l].ask <= asked' /\ results'[l].ask \notin pending'
             /\ results'[l].kind = "output" => results'[l].ask # 0
  <2>1. asked \in Nat
    BY DEF CommandsInv, CommandsTypeOK
  <2> QED
    BY <2>1, ResultsLeftSound DEF PollCommands
<1> QED
  BY <1>1, <1>2, <1>3, <1>4 DEF CommandsInv

(* A command is told to stop.                                              *)
LEMMA CancelKeepsCommands ==
  ASSUME CommandsInv, NEW k \in Labels, Cancel(k), UNCHANGED linkVars
  PROVE  CommandsInv'
<1> USE DEF CommandsInv
<1>1. LinkTypeOK'
  BY DEF LinkTypeOK, linkVars
<1>2. CommandsTypeOK'
  BY DEF Cancel, StopsOf, CommandsTypeOK
<1> QED
  BY <1>1, <1>2 DEF Cancel

(* The host answers, a command stops, or it dies with its transport.       *)
LEMMA TaskKeepsCommands ==
  ASSUME CommandsInv, NEW a \in Asks, TaskStep(a), UNCHANGED linkVars
  PROVE  CommandsInv'
<1> USE DEF CommandsInv
<1>1. \E state \in {"answered", "stopped", "dead"} : EndTask(a, state)
  BY DEF TaskStep, HostAnswers, TaskStops, TaskDies
<1>2. LinkTypeOK'
  BY DEF LinkTypeOK, linkVars
<1>3. CommandsTypeOK'
  BY <1>1 DEF EndTask, CommandsTypeOK
<1> QED
  BY <1>1, <1>2, <1>3 DEF EndTask

(* The transport comes and goes, and the commands stay as they are.        *)
LEMMA LinkKeepsCommands ==
  ASSUME CommandsInv, LinkTypeOK', UNCHANGED commandVars
  PROVE  CommandsInv'
BY DEF CommandsInv, CommandsTypeOK, commandVars

(* A tab starts with nothing asked.                                        *)
LEMMA InitHasCommands ==
  ASSUME LinkInit, CommandsInit, Labels # {}
  PROVE  CommandsInv
<1> USE TabCommandsAssumption, TabBackendAssumption
<1>1. LinkTypeOK
  BY DEF LinkInit, LinkTypeOK, Links
<1>2. (CHOOSE k \in Labels : TRUE) \in Labels
  OBVIOUS
<1>3. CommandsTypeOK
  BY <1>2 DEF CommandsInit, CommandsTypeOK, Links, Results, NoResult, Asks
<1> QED
  BY <1>1, <1>3 DEF CommandsInit, CommandsInv, NoResult
=============================================================================
