-------------------------------- MODULE Jumps --------------------------------
(***************************************************************************)
(* The jump hosts an SSH tab goes through: jump_chain in                   *)
(* crates/wassh/src/app/session.rs, which Shell calls whenever it opens a  *)
(* tab, and the chain as the tab keeps it and dials with.  A host names    *)
(* the host it is reached through; the chain is the hosts on that way,     *)
(* outermost first.  The tab resolves it once: reconnects dial the hosts   *)
(* and credentials it had when it was opened.  A host with a remote        *)
(* session is probed first, over a connection of its own.                  *)
(***************************************************************************)
EXTENDS Lists

CONSTANTS
  Hosts,     \* the hosts that may be saved
  NoJump,    \* jump_host_id of a connection that is dialled directly
  NoTab,     \* there is no connection to open a tab over
  MaxHops    \* eight in the code

ASSUME JumpsAssumption ==
  NoJump \notin Hosts /\ NoTab \notin Hosts \cup {NoJump} /\ MaxHops \in Nat

VARIABLES
  profiles,    \* the saved hosts: whether it is there, what it jumps through, and
               \* whether its settings and the vault have credentials for a hop
  tab,         \* the tab
  remembered   \* jump_host_id of the connection in tabs.json while the tab is
               \* open, and of the tab closed last while it is not

jumpVars == <<profiles, tab, remembered>>

Ways == Hosts \cup {NoJump}

NoProfile == [there |-> FALSE, jump |-> NoJump, usable |-> FALSE]

Phases == {"none", "asks", "probing", "dialled", "failed"}

(* jump is connection.jump_host_id; jumps and error are the chain, or that *)
(* there is none; named is what jump was when the chain was resolved.      *)
Tab(way, chain) ==
  [phase |-> "none", jump |-> way, jumps |-> chain.hops, error |-> chain.error, named |-> way]

Closed == Tab(NoJump, [hops |-> << >>, error |-> FALSE])

JumpsTypeOK ==
  /\ profiles \in [Hosts -> [there : BOOLEAN, jump : Ways, usable : BOOLEAN]]
  /\ tab \in [phase : Phases, jump : Ways, jumps : Seq(Hosts), error : BOOLEAN, named : Ways]
  /\ remembered \in Ways \cup {NoTab}

JumpsInit ==
  /\ profiles = [h \in Hosts |-> NoProfile]
  /\ tab = Closed
  /\ remembered = NoTab

-----------------------------------------------------------------------------
(* jump_chain: the hosts it has seen are those of the chain so far.  Any   *)
(* reason there is no chain is an error: a loop, more than MaxHops hosts,  *)
(* one that is gone and one without credentials.                           *)
Broken(walk) ==
  \/ walk.next \in Elements(walk.hops) \/ Len(walk.hops) >= MaxHops
  \/ ~profiles[walk.next].there \/ ~profiles[walk.next].usable

(* One turn of its loop.                                                   *)
Hop(walk) ==
  IF walk.error \/ walk.next = NoJump THEN walk
  ELSE IF Broken(walk) THEN [next |-> NoJump, hops |-> << >>, error |-> TRUE]
  ELSE [next |-> profiles[walk.next].jump, hops |-> <<walk.next>> \o walk.hops,
        error |-> FALSE]

(* The last turn finds that MaxHops are enough, or that they are not.      *)
Chain(way) ==
  LET walk[n \in 0..MaxHops + 1] ==
        IF n = 0 THEN [next |-> way, hops |-> << >>, error |-> FALSE] ELSE Hop(walk[n - 1])
  IN  walk[MaxHops + 1]

TabOver(way) == Tab(way, Chain(way))

(* Slip: the error of the chain is shown and the host dialled directly.    *)
BeginAnyway(t) == {[t EXCEPT !.phase = "dialled"]}

(* SessionEntry::begin: a chain that could not be resolved fails the tab;  *)
(* a probe runs first when the connection asks for one.                    *)
BeginOver(t) ==
  IF t.error THEN {[t EXCEPT !.phase = "failed"]}
  ELSE {[t EXCEPT !.phase = "dialled"], [t EXCEPT !.phase = "probing"]}

(* The hosts a connection of the tab goes through: capture_async, which    *)
(* runs the probe, connects to host and port and leaves jumps alone.       *)
Through(t) == IF t.phase = "probing" THEN << >> ELSE t.jumps

(* What a tab does with the password it has, or without one.               *)
Started(t) == BeginOver(t) \cup {[t EXCEPT !.phase = "asks"]}

-----------------------------------------------------------------------------
(* The saved hosts.                                                        *)

SavedHosts == {h \in Hosts : profiles[h].there}

(* What the dialog of host h offers to jump through.                       *)
Offered(h) == (SavedHosts \ {h}) \cup {NoJump}

(* Save in the host dialog.                                                *)
SaveJumpHost ==
  /\ \E h \in Hosts, usable \in BOOLEAN : \E way \in Offered(h) :
       profiles' = [profiles EXCEPT ![h] = [there |-> TRUE, jump |-> way, usable |-> usable]]
  /\ UNCHANGED <<tab, remembered>>

(* Apply to sessions in the dialog of the host the tab was opened for, and *)
(* Save in the dialog of the session: apply_connection takes the           *)
(* connection and leaves the chain, and the tabs are not saved.            *)
ApplyConnection ==
  /\ tab.phase # "none"
  /\ \/ \E h \in SavedHosts : \E way \in Offered(h) :
            tab' = [tab EXCEPT !.jump = way] /\ profiles' = [profiles EXCEPT ![h].jump = way]
     \/ \E way \in SavedHosts \cup {NoJump} :
            tab' = [tab EXCEPT !.jump = way] /\ UNCHANGED profiles
  /\ UNCHANGED remembered

(* HostsDocument::remove takes the host out of the others as well.         *)
DeleteJumpHost ==
  /\ \E gone \in SavedHosts :
       profiles' = [h \in Hosts |->
                      IF h = gone THEN NoProfile
                      ELSE IF profiles[h].jump = gone THEN [profiles[h] EXCEPT !.jump = NoJump]
                      ELSE profiles[h]]
  /\ UNCHANGED <<tab, remembered>>

-----------------------------------------------------------------------------
(* The tab.                                                                *)

(* start_ssh and open_ssh_prompt of the Shell: without a chain a message   *)
(* is shown and no tab opened.                                             *)
OpenOver(way, otherwise) ==
  LET fresh == TabOver(way)
  IN  IF fresh.error THEN UNCHANGED tab /\ remembered' = otherwise
      ELSE tab' \in Started(fresh) /\ remembered' = way

OpenHost ==
  /\ tab.phase = "none"
  /\ \E h \in SavedHosts : OpenOver(profiles[h].jump, remembered)
  /\ UNCHANGED profiles

(* reopen_closed: the entry is taken off the list before it is opened.     *)
ReopenClosed ==
  /\ tab.phase = "none" /\ remembered # NoTab
  /\ OpenOver(remembered, NoTab)
  /\ UNCHANGED profiles

CloseJumpTab ==
  /\ tab.phase # "none"
  /\ tab' = Closed /\ remembered' = tab.jump
  /\ UNCHANGED profiles

(* persist_tabs, for a change of another tab.                              *)
PersistJumpTab ==
  /\ tab.phase # "none"
  /\ remembered' = tab.jump
  /\ UNCHANGED <<profiles, tab>>

(* submit_login: the password is typed.                                    *)
SubmitPassword ==
  /\ tab.phase = "asks"
  /\ tab' \in BeginOver(tab)
  /\ UNCHANGED <<profiles, remembered>>

(* finish_probe, whatever the probe found.                                 *)
ProbeEnds ==
  /\ tab.phase = "probing"
  /\ tab' = [tab EXCEPT !.phase = "dialled"]
  /\ UNCHANGED <<profiles, remembered>>

(* SessionEntry::restart, by the user or the timer.                        *)
ReconnectTab ==
  /\ tab.phase # "none"
  /\ tab' \in Started(tab)
  /\ UNCHANGED <<profiles, remembered>>

(* The program ends, and restore_session opens the tab of tabs.json with   *)
(* the error of its chain if that cannot be resolved any more.             *)
RelaunchTab ==
  /\ tab.phase # "none"
  /\ LET back == TabOver(remembered)
     IN  tab' \in IF back.error THEN BeginOver(back) ELSE Started(back)
  /\ UNCHANGED <<profiles, remembered>>

JumpsNext ==
  \/ SaveJumpHost \/ ApplyConnection \/ DeleteJumpHost \/ OpenHost \/ ReopenClosed
  \/ CloseJumpTab \/ PersistJumpTab \/ SubmitPassword \/ ProbeEnds
  \/ ReconnectTab \/ RelaunchTab

JumpsSpec == JumpsInit /\ [][JumpsNext]_jumpVars

-----------------------------------------------------------------------------
(* The host a chain ends at: the one the target is reached from.           *)
Nearest(chain) == IF chain = << >> THEN NoJump ELSE chain[Len(chain)]

(* A session goes the way its host named when the tab was opened,          *)
(* restored or reopened, over each jump host once and no more than         *)
(* MaxHops of them.  It never falls back to dialling the host directly:    *)
(* not when the chain is broken at a launch, a password is typed or a      *)
(* reconnect comes after the hosts were edited or deleted.                 *)
JumpsAreTaken ==
  tab.phase = "dialled" =>
    /\ Nearest(Through(tab)) = tab.named
    /\ Len(tab.jumps) <= MaxHops
    /\ Distinct(tab.jumps)

(* "Jump hosts to traverse before reaching the target"                     *)
(* (crates/wassh-ssh/src/session.rs:90): so does its probe.  It does not   *)
(* hold: see the README.                                                   *)
ProbesJumpToo == tab.phase = "probing" => Nearest(Through(tab)) = tab.named

(* "everything else is used the next time this session connects"           *)
(* (session.rs:1081): after the settings of a tab were edited, its next    *)
(* connection goes the new way.  It does not hold: see the README.         *)
EditedWayIsTaken ==
  [][ReconnectTab /\ tab'.phase = "dialled" => Nearest(tab'.jumps) = tab'.jump]_jumpVars
=============================================================================
