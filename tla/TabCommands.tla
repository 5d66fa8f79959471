------------------------------ MODULE TabCommands ------------------------------
(***************************************************************************)
(* Commands the panes of a tab run on its host: RemoteCommands,            *)
(* SessionEntry::start_command and drain_answers in                        *)
(* crates/wassh/src/app/session.rs, and the task of each command           *)
(* (crates/wassh-ssh/src/session.rs, exec.rs).  A pane asks under a label  *)
(* of its own and reads what is stored under that label; the tasks answer  *)
(* in any order, over a transport that may be replaced under them.         *)
(***************************************************************************)
EXTENDS TabBackend

CONSTANTS Labels,    \* what the panes ask under
          Alone,     \* labels whose pane asks again only after an answer
          MaxAsks    \* commands sent over the life of the tab

ASSUME TabCommandsAssumption ==
  /\ Alone \subseteq Labels
  /\ MaxAsks \in Nat

(* A command is a number, in the order they were sent, which is the order  *)
(* of the vectors of RemoteCommands too: an entry is only ever pushed at   *)
(* their end.                                                              *)
VARIABLES asked,     \* how many commands were sent
          key,       \* [Asks -> the label it was sent under]
          home,      \* [Asks -> the transport it was sent over]
          task,      \* [Asks -> state of the command's task]
          told,      \* commands whose stop was signalled
          pending,   \* RemoteCommands::pending
          stops,     \* RemoteCommands::stops
          results,   \* RemoteCommands::results
          latest     \* history: the last command sent under each label, or 0

commandVars == <<asked, key, home, task, told, pending, stops, results, latest>>

Asks == 1..MaxAsks

(* ask = 0: the request was refused before any command existed.            *)
Results == [kind : {"none", "output", "failure"}, ask : 0..MaxAsks]

NoResult == [kind |-> "none", ask |-> 0]

CommandsTypeOK ==
  /\ asked \in 0..MaxAsks
  /\ key \in [Asks -> Labels]
  /\ home \in [Asks -> Links]
  /\ task \in [Asks -> {"none", "running", "answered", "stopped", "dead", "taken"}]
  /\ told \subseteq Asks /\ pending \subseteq Asks /\ stops \subseteq Asks
  /\ results \in [Labels -> Results]
  /\ latest \in [Labels -> 0..MaxAsks]

CommandsInit ==
  /\ asked = 0
  /\ key = [a \in Asks |-> CHOOSE k \in Labels : TRUE]
  /\ home = [a \in Asks |-> 1]
  /\ task = [a \in Asks |-> "none"]
  /\ told = {} /\ pending = {} /\ stops = {}
  /\ results = [k \in Labels |-> NoResult]
  /\ latest = [k \in Labels |-> 0]

-----------------------------------------------------------------------------
(* drain_answers and RemoteCommands::poll.                                 *)

(* Slip: a sender that was dropped is no answer.                           *)
Replied == {a \in pending : task[a] \in {"answered", "stopped"}}

(* An answer, or the sender is gone.                                       *)
Landed == {a \in pending : task[a] \in {"answered", "stopped", "dead"}}

LandedUnder(k) == {a \in Landed : key[a] = k}

ResultOf(a) ==
  [kind |-> IF task[a] = "answered" THEN "output" ELSE "failure", ask |-> a]

(* Slip: the stop of an answered command is kept.                          *)
StopsKept == stops

(* An answer takes every stop of its label with it.                        *)
StopsLeft == {a \in stops : LandedUnder(key[a]) = {}}

(* Under one label the last answer to be drained is the one that stays.    *)
ResultsLeft ==
  [k \in Labels |->
     IF LandedUnder(k) = {} THEN results[k]
     ELSE ResultOf(CHOOSE a \in LandedUnder(k) : \A b \in LandedUnder(k) : b <= a)]

TasksLeft == [a \in Asks |-> IF a \in Landed THEN "taken" ELSE task[a]]

PollCommands ==
  /\ Landed # {}
  /\ pending' = pending \ Landed
  /\ stops' = StopsLeft
  /\ results' = ResultsLeft
  /\ task' = TasksLeft
  /\ UNCHANGED <<asked, key, home, told, latest>>

-----------------------------------------------------------------------------
(* start_command and cancel.                                               *)

(* Slip: what the pane read last stays under its label.                    *)
SendKeeping(k) ==
  LET a == asked + 1
  IN  /\ a \in Asks
      /\ asked' = a
      /\ key' = [key EXCEPT ![a] = k]
      /\ home' = [home EXCEPT ![a] = link]
      /\ task' = [TasksLeft EXCEPT ![a] = "running"]
      /\ pending' = (pending \ Landed) \cup {a}
      /\ stops' = StopsLeft \cup {a}
      /\ results' = ResultsLeft
      /\ latest' = [latest EXCEPT ![k] = a]
      /\ UNCHANGED told

(* The old result goes, the commands already running under k stay.         *)
Send(k) ==
  LET a == asked + 1
  IN  /\ a \in Asks
      /\ asked' = a
      /\ key' = [key EXCEPT ![a] = k]
      /\ home' = [home EXCEPT ![a] = link]
      /\ task' = [TasksLeft EXCEPT ![a] = "running"]
      /\ pending' = (pending \ Landed) \cup {a}
      /\ stops' = StopsLeft \cup {a}
      /\ results' = [ResultsLeft EXCEPT ![k] = NoResult]
      /\ latest' = [latest EXCEPT ![k] = a]
      /\ UNCHANGED told

(* A tab without a host answers at once.                                   *)
RefuseAll(asks) ==
  /\ task' = TasksLeft
  /\ pending' = pending \ Landed
  /\ stops' = StopsLeft
  /\ results' = [k \in Labels |-> IF k \in asks THEN [kind |-> "failure", ask |-> 0]
                                 ELSE ResultsLeft[k]]
  /\ latest' = [k \in Labels |-> IF k \in asks THEN 0 ELSE latest[k]]
  /\ UNCHANGED <<asked, key, home, told>>

StartCommand(k) == IF backend = "ssh" THEN Send(k) ELSE RefuseAll({k})

Waiting(k) == latest[k] # 0 /\ results[k].kind = "none"

(* The panes of Alone hold their next request back: the sampler of the     *)
(* monitor while its probe is pending.                                     *)
Ask(k) ==
  /\ k \in Alone => ~Waiting(k)
  /\ StartCommand(k)

StopsOf(k) == {a \in stops : key[a] = k}

(* The first stop of the label is used, and used up.                       *)
Cancel(k) ==
  \E a \in StopsOf(k) :
    /\ \A b \in StopsOf(k) : a <= b
    /\ told' = told \cup {a}
    /\ stops' = stops \ {a}
    /\ UNCHANGED <<asked, key, home, task, pending, results, latest>>

-----------------------------------------------------------------------------
(* The task of a command: it answers, is stopped, or dies with the runtime *)
(* of its transport, which drops the sender it holds.                      *)

EndTask(a, state) ==
  /\ task[a] = "running"
  /\ task' = [task EXCEPT ![a] = state]
  /\ UNCHANGED <<asked, key, home, told, pending, stops, results, latest>>

HostAnswers(a) == Serves(home[a]) /\ EndTask(a, "answered")

TaskStops(a) == a \in told /\ EndTask(a, "stopped")

TaskDies(a) == ~Serves(home[a]) /\ EndTask(a, "dead")

TaskStep(a) == HostAnswers(a) \/ TaskStops(a) \/ TaskDies(a)

CommandsStep ==
  \/ \E k \in Labels : Ask(k) \/ Cancel(k)
  \/ PollCommands
  \/ \E a \in Asks : TaskStep(a)

-----------------------------------------------------------------------------
(* Properties.                                                             *)

(* "Run `command` under `key`, replacing any cached result"                *)
(* (crates/wassh-plugins/src/command.rs:37): what a pane reads under its   *)
(* label is the answer to its last command there.                          *)
ResultIsLatest ==
  \A k \in Labels : results[k].kind # "none" => results[k].ask = latest[k]

(* A stop that is kept is the stop of a command that is still running:     *)
(* cancel never spends itself on one that is over.                         *)
StopsAreOfRunning == stops \subseteq pending

(* "so a pane never waits on a request whose thread died" (session.rs,     *)
(* drain_answers): a command whose transport is gone is settled.           *)
DeadCommandsSettle ==
  \A a \in Asks : (task[a] = "running" /\ ~Serves(home[a])) ~> task[a] = "taken"
=============================================================================
