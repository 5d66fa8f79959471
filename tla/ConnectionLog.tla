----------------------------- MODULE ConnectionLog -----------------------------
(***************************************************************************)
(* When was this host up: SessionEntry::record_status collects the status  *)
(* changes of a tab (crates/wassh/src/app/session.rs), and the Connection  *)
(* Logger pane (crates/wassh-plugins/src/connection_logger.rs) folds them  *)
(* into a log that is kept as plugin data of the host.  Every frame hands  *)
(* the pane the whole history of its tab.  Tabs of one host share the file *)
(* and nothing else: each pane reads it once, when it is first drawn.      *)
(***************************************************************************)
EXTENDS Naturals, Sequences

CONSTANTS HostTabs,    \* tabs open on one host
          MaxEvents,   \* status changes over the life of the model
          HistoryCap,  \* MAX_STATUS_HISTORY
          MaxEntries   \* the setting maxEntries

ASSUME ConnectionLogAssumption ==
  /\ MaxEvents \in Nat
  /\ HistoryCap \in Nat \ {0} /\ MaxEntries \in Nat \ {0}

VARIABLES clock,          \* now_ms, in units
          changes,        \* how many status changes there were
          statusHistory,  \* SessionEntry::status_history of each tab
          log,            \* ConnectionLogger of each tab: entries, connected_since
          loaded,         \* ConnectionLogger::loaded of each tab
          logData         \* the log in the plugin data of the host

logVars == <<clock, changes, statusHistory, log, loaded, logData>>

LogKinds == {"Connected", "Reconnecting", "Disconnected", "Failed"}

Times == 1..(MaxEvents + 1)

Never == 0

Events == [at : Times, kind : LogKinds]

(* Of a duration the entry keeps when the session began.                   *)
LogEntries == [at : Times, kind : LogKinds, since : Times \cup {Never}]

NoLog == [entries |-> << >>, since |-> Never]

LogTypeOK ==
  /\ clock \in Times /\ changes \in 0..MaxEvents
  /\ statusHistory \in [HostTabs -> Seq(Events)]
  /\ log \in [HostTabs -> [entries : Seq(LogEntries), since : Times \cup {Never}]]
  /\ loaded \in [HostTabs -> BOOLEAN]
  /\ logData \in Seq(LogEntries)

LogInit ==
  /\ clock = 1 /\ changes = 0
  /\ statusHistory = [t \in HostTabs |-> << >>]
  /\ log = [t \in HostTabs |-> NoLog]
  /\ loaded = [t \in HostTabs |-> FALSE]
  /\ logData = << >>

Newest(s, n) == IF Len(s) <= n THEN s ELSE SubSeq(s, Len(s) - n + 1, Len(s))

-----------------------------------------------------------------------------
(* record_status, once per frame: a status that differs from the last one. *)

Follows(kind, s) ==
  /\ s # << >> => s[Len(s)].kind # kind
  /\ kind = "Reconnecting" => s # << >> /\ s[Len(s)].kind \in {"Disconnected", "Failed"}

RecordStatus(t, kind) ==
  /\ changes < MaxEvents
  /\ Follows(kind, statusHistory[t])
  /\ changes' = changes + 1
  /\ clock' \in {clock, clock + 1}
  /\ statusHistory' =
       [statusHistory EXCEPT ![t] = Newest(Append(@, [at |-> clock', kind |-> kind]), HistoryCap)]
  /\ UNCHANGED <<log, loaded, logData>>

-----------------------------------------------------------------------------
(* The frames of the pane.                                                 *)

(* Slip: the last entry is told apart by its time alone.                   *)
OfferedAtOnce(entries, event) ==
  entries # << >> /\ entries[Len(entries)].at = event.at

OfferedAgain(entries, event) ==
  /\ entries # << >>
  /\ entries[Len(entries)].at = event.at
  /\ entries[Len(entries)].kind = event.kind

(* merge.                                                                  *)
Merge(l, event) ==
  LET since == IF event.kind = "Connected" THEN event.at ELSE l.since
      began == IF event.kind = "Connected" THEN Never ELSE since
      entry == [at |-> event.at, kind |-> event.kind, since |-> began]
  IN  IF OfferedAgain(l.entries, event) THEN [l EXCEPT !.since = since]
      ELSE [entries |-> Newest(Append(l.entries, entry), MaxEntries),
            since |-> IF event.kind = "Connected" THEN since ELSE Never]

(* absorb: every event of the history, whatever was absorbed before.       *)
Absorbed(l, s) ==
  LET after[n \in 0..Len(s)] == IF n = 0 THEN l ELSE Merge(after[n - 1], s[n])
  IN  after[Len(s)]

(* load.                                                                   *)
Loaded(entries) ==
  LET last == entries[Len(entries)]
  IN  [entries |-> entries,
       since |-> IF entries # << >> /\ last.kind = "Connected" THEN last.at ELSE Never]

Before(t) == IF loaded[t] THEN log[t] ELSE Loaded(logData)

(* show, and persist_plugin_data behind it: the file is written when the   *)
(* pane holds another log than before.                                     *)
ShowLog(t, enabled, cleared) ==
  LET absorbed == IF enabled THEN Absorbed(Before(t), statusHistory[t]) ELSE Before(t)
      after == IF cleared THEN NoLog ELSE absorbed
  IN  /\ log' = [log EXCEPT ![t] = after]
      /\ loaded' = [loaded EXCEPT ![t] = TRUE]
      /\ logData' = IF after.entries = Before(t).entries THEN logData ELSE after.entries
      /\ UNCHANGED <<clock, changes, statusHistory>>

(* The tab is closed, or the application ends, and the host is opened anew.*)
Reopened(t) ==
  /\ statusHistory' = [statusHistory EXCEPT ![t] = << >>]
  /\ log' = [log EXCEPT ![t] = NoLog]
  /\ loaded' = [loaded EXCEPT ![t] = FALSE]
  /\ UNCHANGED <<clock, changes, logData>>

LogNext ==
  \E t \in HostTabs :
    \/ \E kind \in LogKinds : RecordStatus(t, kind)
    \/ \E enabled, cleared \in BOOLEAN : ShowLog(t, enabled, cleared)
    \/ Reopened(t)

-----------------------------------------------------------------------------
(* Properties.                                                             *)

At(entries) == {[at |-> entries[i].at, kind |-> entries[i].kind] : i \in DOMAIN entries}

(* Whatever was stored, cleared or pushed off before, a frame leaves every *)
(* recent change of its tab in the log ("complete even for events that     *)
(* happened while the pane was closed").                                   *)
FramesLogEverything ==
  [][\A t \in HostTabs :
       ShowLog(t, TRUE, FALSE) =>
         At(Newest(statusHistory[t], MaxEntries)) \subseteq At(log'[t].entries)]_logVars

(* "The same event can be offered again after a restart; only the newest   *)
(* entry can be a duplicate because events arrive in order"                *)
(* (connection_logger.rs, merge): a change is in the log once.             *)
LoggedOnce ==
  \A t \in HostTabs :
    \A i, j \in DOMAIN log[t].entries :
      LET a == log[t].entries[i]
          b == log[t].entries[j]
      IN  i # j => <<a.at, a.kind>> # <<b.at, b.kind>>

(* "so the history survives restarts and is complete" (connection_logger.rs *)
(* above the imports): what one tab stored, a frame of another one keeps.  *)
StoredLogIsKept ==
  [][\A t \in HostTabs :
       ShowLog(t, TRUE, FALSE) /\ Len(logData') < MaxEntries =>
         At(logData) \subseteq At(logData')]_logVars
=============================================================================
