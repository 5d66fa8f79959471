-------------------------------- MODULE FarEnd --------------------------------
(***************************************************************************)
(* What a connection has to do with that the program does not run: a       *)
(* Telnet server that negotiates (Telnet), the tmux or screen sessions of  *)
(* an SSH host (RemoteSession), and the hosts on the way to it (Jumps).    *)
(* These share nothing, so a behaviour shows one of them and leaves the    *)
(* others at rest.                                                         *)
(***************************************************************************)
EXTENDS Telnet, RemoteSession, Jumps

VARIABLE part   \* which of them runs

farVars == <<part, telnetVars, remoteVars, jumpVars>>

(* What a part at rest would choose is fixed.                              *)
FarInit ==
  /\ part \in {"telnet", "remote", "jumps"}
  /\ TelnetInit /\ RemoteInit /\ JumpsInit
  /\ part # "telnet" => /\ size = CHOOSE s \in Sizes : TRUE
                        /\ server = NewServer(CHOOSE a \in Agreements : TRUE)
  /\ part # "remote" => /\ kind = CHOOSE k \in Kinds : TRUE
                        /\ policy = CHOOSE p \in Policies : TRUE
                        /\ installed

FarNext ==
  /\ \/ part = "telnet" /\ TelnetNext /\ UNCHANGED <<remoteVars, jumpVars>>
     \/ part = "remote" /\ RemoteNext /\ UNCHANGED <<telnetVars, jumpVars>>
     \/ part = "jumps" /\ JumpsNext /\ UNCHANGED <<telnetVars, remoteVars>>
  /\ UNCHANGED part

FarSpec == FarInit /\ [][FarNext]_farVars

(* Every variable has its type.                                            *)
FarTypeOK == TelnetTypeOK /\ RemoteTypeOK /\ JumpsTypeOK
=============================================================================
