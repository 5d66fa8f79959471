-------------------------------- MODULE Shell --------------------------------
(***************************************************************************)
(* The window of the program: Shell in crates/wassh/src/app/mod.rs, where  *)
(* the saved hosts, the tabs and the documents they are kept in meet.  The *)
(* shell edits its own copy of the hosts and passes each change to Config, *)
(* which keeps a second copy and writes it; the tabs are saved whenever    *)
(* they change.  Hosts, groups and tabs are all numbered from one counter, *)
(* next_id, which every launch starts at 1 again.                          *)
(***************************************************************************)
EXTENDS HostsDocument

CONSTANTS
  MaxId,      \* bound on next_id
  MaxItems    \* bound on the hosts made, the tabs opened and the groups, together

ASSUME ShellAssumption == MaxId \in Nat \ {0} /\ MaxItems \in Nat

VARIABLES
  hosts,     \* Shell.hosts
  config,    \* Config.hosts, and hosts.json with it
  next_id,   \* Shell.next_id
  made,      \* how many hosts the user made so far
  sessions,  \* Shell.sessions, the open tabs in their order
  active,    \* Shell.active, the place of the active tab, 0 for None
  tabs,      \* Config.tabs, and tabs.json with it
  opened,    \* how many tabs the user opened so far
  named,     \* the jump hosts that the connections of the tabs have named so far
  data       \* which tab wrote the plugin data under the scope tab:<id>, 0 for none

hostVars == <<hosts, config, made>>
tabVars == <<sessions, active, tabs, opened, named, data>>
shellVars == <<hosts, config, next_id, made, sessions, active, tabs, opened, named, data>>

Room == made + opened + Len(hosts.groups) < MaxItems

ShellInit ==
  /\ hosts = Normalized([hosts |-> << >>, groups |-> << >>, order |-> << >>])
  /\ config = hosts
  /\ next_id = 1 /\ made = 0
  /\ sessions = << >> /\ active = 0 /\ tabs = << >> /\ opened = 0 /\ named = {}
  /\ data = [i \in 1..MaxId |-> 0]

-----------------------------------------------------------------------------
(* The hosts.                                                              *)

(* Shell::save_host on the shell's document d.                             *)
SaveHost(d, h) ==
  /\ hosts' = Normalized(Upsert(d, h))
  /\ config' = Normalized(Upsert(config, h))

(* persist_hosts: the shell's document becomes Config's as it is.          *)
Persisted(d) == hosts' = d /\ config' = d

MadeHosts == HostIds(hosts) \ {Local}

HostOf(d, id) == d.hosts[CHOOSE i \in DOMAIN d.hosts : d.hosts[i].id = id]

MakeHost(jumps) ==
  /\ Room /\ next_id <= MaxId
  /\ \E jump \in jumps : SaveHost(hosts, Host(next_id, made + 1, NoGroup, jump))
  /\ made' = made + 1
  /\ UNCHANGED <<next_id, tabVars>>

(* New host and Save in its dialog, which offers every host but the draft  *)
(* itself as its jump host.  The dialog is modal, so next_id is the same   *)
(* when the draft is saved.                                                *)
NewHost == MakeHost({NoHost} \cup (MadeHosts \ {next_id}))

(* Save as host on a tab and Save: the draft has the connection of the     *)
(* tab, and with it a jump host that may be gone since.  The dialog shows  *)
(* that one as None, and nothing takes it out.  (Without a jump host, or   *)
(* with one picked in the dialog, the host is the one NewHost makes.)      *)
SaveAsHost == sessions # << >> /\ MakeHost(named)

(* Edit host and Save: what the dialog changes of it is the jump host; it  *)
(* leaves the one it had, there or gone, when none is picked.              *)
EditHost ==
  /\ \E id \in MadeHosts :
       \E jump \in {NoHost, HostOf(hosts, id).jump} \cup (MadeHosts \ {id}) :
         SaveHost(hosts, [HostOf(hosts, id) EXCEPT !.jump = jump])
  /\ UNCHANGED <<next_id, made, tabVars>>

(* The copy gets the next free id and goes beside its original, in the     *)
(* shell's document; save_host then appends it to Config's.                *)
DuplicateHost ==
  \E i \in DOMAIN hosts.hosts :
    \E id \in {n \in next_id..MaxId : n \notin HostIds(hosts)} :
      LET original == hosts.hosts[i]
          copy == [original EXCEPT !.id = id, !.who = made + 1]
          order == IF copy.group # NoGroup THEN hosts.order
                   ELSE Inserted(hosts.order, PlaceOf(hosts.order, original.id) + 1, id)
          beside == [hosts EXCEPT !.hosts = Inserted(@, i + 1, copy), !.order = order]
      IN  /\ Room
          /\ next_id..(id - 1) \subseteq HostIds(hosts)
          /\ next_id' = id + 1
          /\ made' = made + 1
          /\ SaveHost(Normalized(beside), copy)
          /\ UNCHANGED tabVars

DeleteHost ==
  /\ \E id \in MadeHosts :
       /\ hosts' = Remove(hosts, id)
       /\ config' = Normalized(Remove(config, id))
  /\ UNCHANGED <<next_id, made, tabVars>>

MoveHost ==
  /\ \E id \in HostIds(hosts) : \E group \in GroupIds(hosts) \cup {NoGroup} :
       LET order == Only(hosts.order, Elements(hosts.order) \ {id})
           moved == [i \in DOMAIN hosts.hosts |->
                       IF hosts.hosts[i].id = id
                       THEN [hosts.hosts[i] EXCEPT !.group = group] ELSE hosts.hosts[i]]
       IN  \E place \in IF group = NoGroup THEN 1..(Len(order) + 1) ELSE {1} :
             Persisted(Normalized(
               [hosts EXCEPT !.hosts = moved,
                             !.order = IF group = NoGroup
                                       THEN Inserted(order, place, id) ELSE order]))
  /\ UNCHANGED <<next_id, made, tabVars>>

NewGroup ==
  /\ Room /\ next_id <= MaxId
  /\ Persisted([hosts EXCEPT !.groups = Append(@, next_id)])
  /\ next_id' = next_id + 1
  /\ UNCHANGED <<made, tabVars>>

DeleteGroup ==
  /\ \E group \in GroupIds(hosts) :
       LET left == [i \in DOMAIN hosts.hosts |->
                      IF hosts.hosts[i].group = group
                      THEN [hosts.hosts[i] EXCEPT !.group = NoGroup] ELSE hosts.hosts[i]]
       IN  Persisted(Normalized(
             [hosts EXCEPT !.groups = Only(@, Elements(@) \ {group}), !.hosts = left]))
  /\ UNCHANGED <<next_id, made, tabVars>>

HostStep == NewHost \/ SaveAsHost \/ EditHost \/ DuplicateHost \/ DeleteHost \/ MoveHost
              \/ NewGroup \/ DeleteGroup

-----------------------------------------------------------------------------
(* The tabs.                                                               *)

Places == DOMAIN sessions

(* persist_tabs: the snapshots of the tabs as they will be.                *)
PersistTabs ==
  tabs' = [i \in DOMAIN sessions' |->
             [id |-> sessions'[i].id, who |-> sessions'[i].who, active |-> active' = i]]

(* A tab opens from a host, whose connection it copies, or from the menu,  *)
(* or a closed one opens again with the connection it had: with a new id   *)
(* every time.                                                             *)
OpenTab ==
  /\ Room /\ next_id <= MaxId
  /\ sessions' = Append(sessions, [id |-> next_id, who |-> opened + 1])
  /\ next_id' = next_id + 1
  /\ opened' = opened + 1
  /\ active' = Len(sessions')
  /\ named' \in {named} \cup {named \cup ({h.jump} \ {NoHost}) : h \in Elements(hosts.hosts)}
  /\ PersistTabs
  /\ UNCHANGED <<hostVars, data>>

(* The session dialog gives the tab a jump host, which is not saved (an    *)
(* edited host that is applied to its tabs does the same to them).         *)
EditTab ==
  /\ sessions # << >>
  /\ \E id \in MadeHosts : named' = named \cup {id}
  /\ UNCHANGED <<hostVars, next_id, sessions, active, tabs, opened, data>>

(* The place of the active tab stays, and with it another tab becomes the  *)
(* active one when the closed one was in front of it.                      *)
Close ==
  /\ \E i \in Places :
       /\ sessions' = SubSeq(sessions, 1, i - 1) \o SubSeq(sessions, i + 1, Len(sessions))
       /\ active' = IF active > Len(sessions') THEN Len(sessions') ELSE active
  /\ PersistTabs
  /\ UNCHANGED <<hostVars, next_id, opened, named, data>>

Select ==
  /\ active' \in Places
  /\ UNCHANGED sessions
  /\ PersistTabs
  /\ UNCHANGED <<hostVars, next_id, opened, named, data>>

(* Slip: the new order is not saved.                                       *)
ReorderUnsaved ==
  /\ \E i \in Places, j \in Places :
       /\ i # j
       /\ sessions' = Inserted(SubSeq(sessions, 1, i - 1) \o SubSeq(sessions, i + 1, Len(sessions)),
                               j, sessions[i])
       /\ active' = j
  /\ UNCHANGED <<hostVars, next_id, tabs, opened, named, data>>

(* A tab is dragged to another place, and becomes the active one.          *)
Reorder ==
  /\ \E i \in Places, j \in Places :
       /\ i # j
       /\ sessions' = Inserted(SubSeq(sessions, 1, i - 1) \o SubSeq(sessions, i + 1, Len(sessions)),
                               j, sessions[i])
       /\ active' = j
  /\ PersistTabs
  /\ UNCHANGED <<hostVars, next_id, opened, named, data>>

(* The next or previous tab, or a right click on one: the active tab       *)
(* changes and is not saved.                                               *)
Show ==
  /\ active' \in Places
  /\ UNCHANGED <<hostVars, next_id, sessions, tabs, opened, named, data>>

(* A plugin pane of the tab stores its data under tab:<id>; nothing ever   *)
(* removes what is there.                                                  *)
StoreData ==
  /\ \E i \in Places : data' = [data EXCEPT ![sessions[i].id] = sessions[i].who]
  /\ UNCHANGED <<hostVars, next_id, sessions, active, tabs, opened, named>>

TabStep == OpenTab \/ EditTab \/ Close \/ Select \/ Reorder \/ Show \/ StoreData

-----------------------------------------------------------------------------
(* The program ends and starts again, with reconnect_on_startup set or     *)
(* not.  Restored tabs keep their ids, and the counter is kept clear of    *)
(* them, and of nothing else.                                              *)

(* Slip: the counter starts at 1 whatever comes back.                      *)
ClearOfNothing(ids) == 1

(* The least number from 1 on that is above every id.                      *)
ClearOf(ids) == CHOOSE n \in 1..(MaxId + 1) :
                  (\A id \in ids : id < n) /\ (n = 1 \/ n - 1 \in ids)

Restored == [i \in DOMAIN tabs |-> [id |-> tabs[i].id, who |-> tabs[i].who]]

Restart ==
  /\ hosts' = Normalized(config) /\ config' = Normalized(config)
  /\ \/ /\ sessions' = Restored
        /\ next_id' = ClearOf({tabs[i].id : i \in DOMAIN tabs})
        /\ active' = IF tabs = << >> THEN 0
                     ELSE CHOOSE i \in DOMAIN tabs : tabs[i].active
     \/ sessions' = << >> /\ next_id' = 1 /\ active' = 0
  /\ UNCHANGED <<made, tabs, opened, named, data>>

ShellNext == HostStep \/ TabStep \/ Restart

ShellSpec == ShellInit /\ [][ShellNext]_shellVars

-----------------------------------------------------------------------------
(* Properties.                                                             *)

Document ==
  [hosts : Seq([id : 0..MaxId, who : 0..MaxItems, group : 0..MaxId, jump : 0..MaxId]),
   groups : Seq(1..MaxId), order : Seq(0..MaxId)]

ShellTypeOK ==
  /\ hosts \in Document /\ config \in Document
  /\ next_id \in 1..(MaxId + 1) /\ made \in 0..MaxItems /\ opened \in 0..MaxItems
  /\ sessions \in Seq([id : 1..MaxId, who : 1..MaxItems])
  /\ active \in 0..Len(sessions) /\ (active = 0 <=> sessions = << >>)
  /\ tabs \in Seq([id : 1..MaxId, who : 1..MaxItems, active : BOOLEAN])
  /\ named \subseteq 1..MaxId
  /\ data \in [1..MaxId -> 0..MaxItems]

SameHosts ==
  /\ Elements(hosts.hosts) = Elements(config.hosts)
  /\ Elements(hosts.groups) = Elements(config.groups)

(* Through every save, deletion, copy, move, group edit and restart, both  *)
(* copies of the hosts stay sound: no host in a group that is gone, every  *)
(* ungrouped host once in the order list, the local terminal first; and no *)
(* host behind a jump host that is gone, unless it is one that a tab has   *)
(* named, which Save as host copies whatever became of it.  And they stay  *)
(* the same hosts with the same contents in the same groups, which         *)
(* save_host and delete_host change one after the other, each by a         *)
(* computation of its own; their order may differ after a copy.            *)
HostsAreSound == Sound(hosts, named) /\ Sound(config, named) /\ SameHosts

(* "Remove duplicates and dangling references" (hosts.rs:99): the hosts    *)
(* that are saved jump through hosts that are there.                       *)
NoDanglingJumps == Sound(config, {})

(* No two open tabs have one id, restored ones and later ones included:    *)
(* every lookup by id (select, close, drag, the session dialog) finds the  *)
(* tab that was meant.                                                     *)
TabIdsAreUnique ==
  \A i, j \in DOMAIN sessions : i # j => sessions[i].id # sessions[j].id

(* tabs.json lists the open tabs in their order, so that a crash at any    *)
(* moment loses none and brings back none that was closed.                 *)
TabsAreSaved == sessions # << >> => Restored = sessions

(* A new host never takes the place of a saved one (mod.rs: "a new host    *)
(* built from the active session").                                        *)
Whos(d) == {d.hosts[i].who : i \in DOMAIN d.hosts}

NewHostsAreNew == [][made' > made => Whos(hosts) \subseteq Whos(hosts')]_shellVars

(* What a tab finds under its scope, it wrote itself (session.rs: "the     *)
(* saved host, or the tab itself").                                        *)
TabDataIsItsOwn ==
  \A i \in DOMAIN sessions : data[sessions[i].id] \in {0, sessions[i].who}
=============================================================================
