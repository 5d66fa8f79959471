---------------------------- MODULE HostsDocument ----------------------------
(***************************************************************************)
(* The document of saved hosts: HostsDocument in                           *)
(* crates/wassh-core/src/hosts.rs.  It holds the hosts and the groups in   *)
(* their order, and the order of the hosts that are in no group.  Of a     *)
(* host the model keeps its id, its group, its jump host and which of the  *)
(* hosts the user made it is; ids are numbers.                             *)
(***************************************************************************)
EXTENDS Lists

Local == 0     \* LOCAL_HOST_ID, the built-in terminal
NoGroup == 0
NoHost == 0    \* the local terminal is no jump host

Host(id, who, group, jump) == [id |-> id, who |-> who, group |-> group, jump |-> jump]

LocalHost == Host(Local, 0, NoGroup, NoHost)

HostIds(d) == {d.hosts[i].id : i \in DOMAIN d.hosts}

GroupIds(d) == Elements(d.groups)

IdList(hosts) == [i \in DOMAIN hosts |-> hosts[i].id]

(* The elements of s at the places P, in their order.                      *)
Kept(s, P) ==
  LET places == Only([i \in DOMAIN s |-> i], P)
  IN  [i \in DOMAIN places |-> s[places[i]]]

(* The places of a list where something stands for the first time.         *)
FirstPlaces(s) == {i \in DOMAIN s : \A j \in 1..(i - 1) : s[j] # s[i]}

Inserted(s, i, x) == SubSeq(s, 1, i - 1) \o <<x>> \o SubSeq(s, i, Len(s))

PlaceOf(s, x) == CHOOSE i \in DOMAIN s : s[i] = x /\ \A j \in 1..(i - 1) : s[j] # x

-----------------------------------------------------------------------------
(* normalized.                                                             *)

HostsOnce(d) ==
  LET once == Kept(d.hosts, FirstPlaces(IdList(d.hosts)))
  IN  IF Local \in HostIds(d) THEN once ELSE <<LocalHost>> \o once

(* The local terminal is in no group, and nothing is in one that is gone.  *)
Regrouped(hosts, groups) ==
  [i \in DOMAIN hosts |->
     IF hosts[i].id = Local \/ hosts[i].group \notin Elements(groups)
     THEN [hosts[i] EXCEPT !.group = NoGroup] ELSE hosts[i]]

Ungrouped(hosts) == Kept(IdList(hosts), {i \in DOMAIN hosts : hosts[i].group = NoGroup})

(* dedup: without an entry that follows itself.                            *)
Deduped(s) == Kept(s, {i \in DOMAIN s : i = 1 \/ s[i] # s[i - 1]})

(* What order lists, without the hosts that are gone, then the ungrouped   *)
(* hosts it misses; the grouped ones go last, and the local terminal goes  *)
(* to the front.                                                           *)
Ordered(order, hosts) ==
  LET ungrouped == Ungrouped(hosts)
      missing == Elements(ungrouped) \ Elements(order)
  IN  <<Local>> \o Only(Deduped(Only(order, Elements(IdList(hosts)))) \o Only(ungrouped, missing),
                       Elements(ungrouped) \ {Local})

Normalized(d) ==
  LET groups == Kept(d.groups, FirstPlaces(d.groups))
      hosts == Regrouped(HostsOnce(d), groups)
  IN  [hosts |-> hosts, groups |-> groups, order |-> Ordered(d.order, hosts)]

-----------------------------------------------------------------------------
(* upsert and remove.                                                      *)

Upsert(d, h) ==
  LET hosts == IF h.id \in HostIds(d)
               THEN [i \in DOMAIN d.hosts |-> IF d.hosts[i].id = h.id THEN h ELSE d.hosts[i]]
               ELSE Append(d.hosts, h)
      ungrouped == Ungrouped(hosts)
      missing == Elements(ungrouped) \ Elements(d.order)
  IN  [d EXCEPT !.hosts = hosts,
                !.order = Only(@, Elements(ungrouped)) \o Only(ungrouped, missing)]

Others(hosts, id) == {h \in Elements(hosts) : h.id # id}

(* Slip: the hosts that jumped through it are left as they are.            *)
RemoveOnly(d, id) ==
  IF id = Local THEN d
  ELSE [d EXCEPT !.hosts = Only(@, Others(@, id)), !.order = Only(@, Elements(@) \ {id})]

Remove(d, id) ==
  LET hosts == Only(d.hosts, Others(d.hosts, id))
  IN  IF id = Local THEN d
      ELSE [d EXCEPT
              !.hosts = [i \in DOMAIN hosts |->
                           IF hosts[i].jump = id THEN [hosts[i] EXCEPT !.jump = NoHost]
                           ELSE hosts[i]],
              !.order = Only(@, Elements(@) \ {id})]

-----------------------------------------------------------------------------
(* A document whose lists agree: every id once, no group that is not there *)
(* and no jump host that is not there, the ones in stale excepted; and the *)
(* ungrouped hosts, each once, in the order list, the local terminal in    *)
(* front.                                                                  *)
Sound(d, stale) ==
  /\ Distinct(IdList(d.hosts)) /\ Local \in HostIds(d)
  /\ \A i \in DOMAIN d.hosts :
       /\ d.hosts[i].group \in GroupIds(d) \cup {NoGroup}
       /\ d.hosts[i].jump \in HostIds(d) \cup {NoHost} \cup stale
  /\ Distinct(d.order) /\ d.order # << >> /\ d.order[1] = Local
  /\ Elements(d.order) =
       {d.hosts[i].id : i \in {j \in DOMAIN d.hosts : d.hosts[j].group = NoGroup}}
=============================================================================
