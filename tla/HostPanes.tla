------------------------------- MODULE HostPanes -------------------------------
(***************************************************************************)
(* Two panes that show a host: the Docker Manager, over the commands of a  *)
(* tab whose transport dies and is replaced, and the Connection Logger of  *)
(* the tabs on one host.  They share nothing, and neither do the two       *)
(* halves of the Docker Manager but their frames and the commands; so a    *)
(* behaviour shows one half or the logger, picked when it starts.          *)
(***************************************************************************)
EXTENDS DockerPane, ConnectionLog

CONSTANTS DetailSteps,  \* commands sent and transports started, together,
          UpdateSteps   \* while a behaviour shows a half of the Docker Manager

VARIABLE shown          \* the part a behaviour shows

hostVars == <<linkVars, commandVars, dockerVars, logVars, shown>>

HostTypeOK ==
  /\ LinkTypeOK /\ CommandsTypeOK /\ DockerTypeOK /\ LogTypeOK
  /\ shown \in {"details", "updates", "log"}

HostInit ==
  /\ LinkInit /\ CommandsInit /\ DockerInit /\ LogInit
  /\ shown \in {"details", "updates", "log"}

InDocker(A) ==
  /\ shown # "log" /\ A
  /\ UNCHANGED <<logVars, shown>>

DockerSteps == IF shown = "details" THEN DetailSteps ELSE UpdateSteps

HostNext ==
  \/ InDocker(LinkStep /\ asked + link' <= DockerSteps /\ UNCHANGED <<commandVars, dockerVars>>)
  \/ InDocker(TabStep /\ UNCHANGED linkVars)
  \/ /\ shown = "details"
     /\ InDocker(DetailStep /\ asked' + link <= DockerSteps /\ UNCHANGED linkVars)
  \/ /\ shown = "updates"
     /\ InDocker(UpdateStep /\ asked' + link <= DockerSteps /\ UNCHANGED linkVars)
  \/ shown = "log" /\ LogNext /\ UNCHANGED <<linkVars, commandVars, dockerVars, shown>>

HostSpec == HostInit /\ [][HostNext]_hostVars
=============================================================================
