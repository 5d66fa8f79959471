# Formal models of WaSSH

TLA+ modules, TLC configurations and TLAPS proofs for WaSSH, the Rust SSH
client in `src/` (crates under `src/crates`, third-party window code under
`src/vendor`). Paths below are relative to `src/crates/`. All definitions are
read off the Rust code; a comment above a definition names the function it
stands for, and `PROJECT.json` ("map") gives its lines.

## 1. Inventory

### 1.1 How the program runs

One UI thread runs `Shell::frame` (`wassh/src/app/mod.rs`): it handles the
input of the frame, pumps every session, books and runs reconnects, and draws.
Everything slow happens on other threads, which answer through `mpsc` channels
that the UI thread drains without blocking and which ask for a repaint through
`wassh-core/src/wake.rs`. There is no lock around the UI state. Two things are
really shared between threads: the known-hosts table (`Arc<KnownHosts>`, a
mutex inside) and the files of the data directory.

```
 panes (agent, MQTT, files, dock)
   │  keyed commands, forwards, file requests: vectors of receivers, polled
   ▼
 Shell (frame) ─► SessionEntry ── SshCommand / Disconnect ─► SSH thread ─► server
   │  ▲              ▲   │                                     │  │
   │  user           │   └── host-key answer (oneshot) ───────►│  │
   │                 └────── SshEvent (mpsc) ──────────────────┘  │
   ▼                                                              ▼
 Config ─► JsonDocument ─► write_atomic ◄── KnownHosts::persist ◄─┘
 Secrets ─► secrets.json ─────┘
```

### 1.2 Components

| component (code) | state | operations | hard behaviour | what makes it correct |
|---|---|---|---|---|
| **Session vocabulary** `wassh-core/src/session.rs` | none | `is_retryable`, `allows_retry`, `backoff_delay` | — | a down tab is retryable in every state booking leaves it in |
| **SSH transport** `wassh-ssh/src/session.rs` | one thread: step of the connect chain, key shown, oneshot for the answer, pending Disconnect | dial, ask, authenticate, forwards, shell, end | runs on after its handle was dropped; 120 s key timeout inside a connect timeout; several threads at once | records only accepted keys; once dropped, ends unless a call without a timeout keeps it; says Closed once |
| **Session tab** `wassh/src/app/session.rs`, `mod.rs` | status, backend, banner, login prompt, `suppress_close`, probe, retry timer and counter | open, pump, respond, login, restart, close, schedule reconnects | batches of events from a thread that has gone on since; timers that outlive their reason; flags for events that never come | the banner belongs to the current transport; no retry over a live transport; closes only when the server ended it; keeps retrying |
| **Atomic writes** `wassh-store/src/atomic.rs` | temporary file, target | create, write, sync, rename, clean up | every call fails, crash anywhere, other writers | old document or new one, never another; on Unix an Err changed nothing |
| **Known hosts** `wassh-ssh/src/known_hosts.rs` | table (mutex), file | load, get, remember, persist (forget: unused) | change, snapshot and write in three steps of several threads; restart | only accepted keys; what was remembered is on disk |
| **Documents** `wassh-store/src/document.rs`, `config.rs`, handlers in `mod.rs` | value and dirty flag of settings, hosts, tabs; `.corrupt` files | open, set, save, flush | failing saves, unreadable files, files of older versions, quitting | a clean document is on disk; nothing is torn or silently thrown away |
| **Hosts document** `wassh-core/src/hosts.rs`, `connection.rs` | hosts, groups, order; one copy in Shell, one in Config | normalized, upsert, remove, duplicate, move | two copies edited by two computations; ids from a counter that restarts at 1 | both copies and the file agree; no dangling group, no jump host deleted behind a host's back; a new host replaces none |
| **Tab strip** `mod.rs`, `wassh-core/src/tabs.rs` | sessions, active index, counter, `tabs.json` | open, close, reorder, select, restore | index arithmetic, ids restored from disk | ids are unique; the saved tabs are the open ones |
| **Remote commands, forwards** `app/session.rs`, `exec.rs`, `tunnels.rs`, `app/local_exec.rs` | keyed lists: pending, results, stops | start, poll, cancel | the same key asked again; a transport replaced meanwhile | an answer belongs to the latest request of its key; nobody waits for ever |
| **Remote files** `app/session.rs`, `sftp.rs`, `local_files.rs` | one request slot, transfer queue, active row, listing, packing thread | request, poll, stop, retry, zip | late answers, stop racing success, dead tasks | the slot frees; each transfer ends in one way; the viewer shows what the file holds |
| **Secrets vault** `secrets.rs`, `mod.rs` | sealed file, key file, plain text of older builds | open, set, forget, migrate | key file written in place, migration that stops half-way, a vault that cannot be opened | what was sealed can be opened; what was forgotten stays forgotten |
| **Backup** `backup.rs`, `zip.rs` | data directory | export, import | import stops half-way | import is all or nothing, or says what it did |
| **Jump chains, probe** `remote_session.rs`, `app/session.rs`, `mod.rs` | the chain a tab keeps; the presence a probe found | resolve, probe, plan, enter | cycles, hosts edited or deleted since; sessions that come and go between probe and command | never connects directly when a chain is asked for; enters no session somebody is in unless told to |
| **AI agent** `wassh-plugins/src/ai_agent/` | phase, history, tool queue, approvals, injected messages | start, poll, approve, answer, stop, repair | tools that answer late, stop in every phase, histories cut and reopened | every call is answered once, in its place |
| **Telnet** `wassh-telnet/` | option states, filter, commands | negotiate, resize, end | chunks that end anywhere, resizes that race the negotiation, end of the session | streams are faithful; every question is answered; the server knows the size |
| **MQTT** `wassh-mqtt/`, `wassh-plugins/src/mqtt.rs` | forward asked for, client, its events | connect, drain, reconnect | the forward's transport is replaced; the client dies silently | the pane hears the end; it dials the forward that is up |
| **Pane layout** `wassh-core/src/layout.rs`, `wassh-ui/src/dock.rs` | dock trees, floating pane, drag, what is saved | toggle, drop, split, remove, restore | tree surgery; a crash between a change and its save | each plugin once; no pane lost by moving another; a crash brings the panes back |
| **Serial, local shell** `wassh-serial/`, `wassh-term/src/pty.rs` | reader thread | read, write, exit | reader dies alone | the tab learns of the end |
| **Status history** `app/session.rs`, `connection_logger.rs` | capped list of a tab; the log of its host, in memory and stored | record, absorb, clear, load | the whole list is offered every frame; two tabs on one host | every change is in the log, once |
| **Docker Manager** `wassh-plugins/src/docker.rs` | selected container, details, logs, action, pull queue, updates | select, act, pull, inspect, recreate, poll | clicks that change what an answer on its way is taken for; refused commands | an answer is used for the container it was asked for; nothing waits for ever |
| **Terminal emulation**, **other plugin panes**, **UI**, **settings/theme/time**, **platform** | drawing, formats, OS calls | | | left out, see section 7 |

`PROJECT.json` lists the same components with their files and status, and the
hazards with the line where each bites.

## 2. Modules

| module | models |
|---|---|
| `Lists` | lists as the documents, the docks and the filter use them: what `retain` keeps, what a loop over one computes |
| `SessionStatus` | statuses, `is_retryable`, reconnect policies |
| `SshTransport` | the SSH threads, their channels, the recorded and the presented host keys |
| `SessionTab` | extends `SshTransport` with the tab, the frame loop and the user; `Spec`, `FairSpec` |
| `DataDir` | what a file of the data directory may be besides a document, and whether the program is the Windows build |
| `AtomicWrite` | abstract: a document changes in one step and an Err changed nothing; if `Lossy`, a call may first empty its path, and then save it or fail |
| `FileValues`, `AtomicFile` | `write_atomic` system call by system call; implements `AtomicWrite` |
| `KnownHosts` | the table, its snapshots and its file, over an instance of `AtomicFile` |
| `Documents` | the configuration documents and the handlers that save them, over an instance of `AtomicFile` |
| `HostsDocument` | `normalized`, `upsert`, `remove` as operators on documents, and `Sound`, what a document of hosts must satisfy, given the jump hosts that may be gone |
| `Shell` | extends `HostsDocument` with the window: both copies of the hosts, the tabs, the counter they share, and restarts |
| `Vault` | the key file, the sealed file, the plain text of older builds, migration, deletion of hosts, backup and restore |
| `Store` | composes the five above: everything in the data directory |
| `TabBackend` | the transport of a tab as its services see it: up, dead, dropped, replaced |
| `TabCommands` | the keyed commands of a tab and their tasks |
| `AgentLoop` | extends `TabCommands` with the loop of the AI agent |
| `BrokerPane` | the forward of a tab, the MQTT pane and the thread of its client |
| `RemoteFiles` | the slot, the queue, the listing and the packing of the remote files of a tab |
| `PaneLayout` | the docks, the floating pane, dragging, and what is saved of it |
| `Panes` | composes the five above over one transport |
| `DockerPane` | extends `TabCommands` with the Docker Manager: one container, pulls, updates |
| `ConnectionLog` | the status history of the tabs on one host and the log their Connection Loggers keep |
| `HostPanes` | composes the two above |
| `Telnet` | one Telnet connection: filter, thread, handle, and a negotiating server |
| `RemoteSession` | tabs that probe a host for its tmux or screen session and then enter, make or avoid it |
| `Jumps` | the chain of jump hosts of a tab: resolved, kept, dialled, while the saved hosts change |
| `FarEnd` | composes the three above: what a connection meets at its far end and on the way |
| `SessionTabProofs` | theorems about `SessionTab`: types and trust; then banners, retries and ends |
| `ListProofs` | lemmas about lists of any length, induction over them among them; the proofs of `Store`, `Panes` and `FarEnd` rest on it |
| `StoreProofs` | theorems about `AtomicFile`, `KnownHosts`, `Documents`, `Vault` and `Shell`, and about `Store`, which composes them |
| `TabCommandsProofs` | what every step does to the commands of a tab; the next two rest on it |
| `PanesProofs` | theorems about the MQTT pane, the commands, the agent and its history, the remote files and the layout in `Panes` |
| `HostPanesProofs` | theorems about `HostPanes`: the Docker Manager and the log |
| `FarEndProofs` | theorems about `RemoteSession`, `Jumps` and `Telnet` in `FarEnd` |
| `TelnetAskProofs` | the theorem that a Telnet server's questions are answered, on top of the one before |
| `MCSessionTab`, `MCStore`, `MCFarEnd`, `MCHostPanes` | model values, symmetry and a view for TLC |

`FileValues` holds the constants and the assumption of `AtomicFile`, whose
definitions the others take by INSTANCE.

Operators introduced by a comment `Slip:` are plausible mistakes in the
operator that follows them. Nothing in a specification uses them; they are
the mutants that show that a property depends on the code it is about.

### 2.1 SshTransport and SessionTab

A *slot* is one `wassh-ssh` thread. `thread[s].pc` is where it waits:

| `pc` | code (`wassh-ssh/src/session.rs`) |
|---|---|
| `start`, `begin` | thread spawned; `run` and `connect_and_shell` up to their status events |
| `dial` | `connect_chain`: connect and handshake of connection `hop`, until `check_server_key` |
| `ask` | `check_server_key` waits for the answer: 120 s at most, and the connect timeout goes on around it |
| `auth` | `authenticate` |
| `reach` | `channel_open_direct_tcpip` to the next hop |
| `tunnels`, `open` | starting the forwards; opening the shell channel |
| `shell` | the select loop, with nothing to write |
| `write` | the select loop, with writes or resizes ahead of any Disconnect |
| `leave` | `handle.disconnect` after the loop, `Closed` next |
| `hangup` | `Error` sent, `Closed` next |
| `ended` | the thread has returned |

`queue[s]` is the event channel. `held` says that the tab still owns the
handle; `DropThread` and `DropQueue` are `Drop for SshSession`: a Disconnect is
queued, the receiver is gone, later events are swallowed. A waiting Disconnect
is read in the select loop only, as in the code: a thread that is still
connecting notices it when it gets there, and one that is writing when the
server has taken the bytes. Connecting and the handshake of each hop carry
timeouts; logging in, reaching the next hop, the forwards, opening the shell,
writing and leaving do not (`Untimed`), so a peer that keeps the connection
alive and answers nothing keeps the thread. A slot whose thread has ended and
whose handle is gone is reused; `Slots` bounds how many threads exist at once.
`known` is the shared table and `serverKey` what each host presents (it may be
replaced at any time: `RotateKey`).

The tab's variables are the fields of `SessionEntry` that decide anything
(`status`, `cur` for `backend`, `prompt` for `host_key_prompt`, `login`,
`suppress` for `suppress_close`, `password`, `probe`, `retry` for `retry_at`,
`attempt` for `reconnect_attempt`, `mode`, `jumpError`) plus the window's
`focused`. `frame` is the program counter of the UI thread:

* `idle`: between frames. User actions happen here: `OpenTab`, `CloseTab`,
  `Reconnect`, `RespondHostKey`, `SubmitLogin`, `CancelLogin`,
  `ApplyConnection`, `FocusChange`.
* `drain`, `apply`: `SessionEntry::pump`. `Drain` takes the whole channel, as
  `SshSession::events` does, and the events are applied one at a time while the
  threads go on.
* `SettleExit` / `SettleKept`: the end of `pump`, and `Shell::pump` closing the
  tab of a shell that exited.
* `schedule`: the body of `schedule_reconnects`, one action for each way
  through it (`RunRetry`, `DropTimer`, `BookRetry`, `LeaveTimer`).

`approved` is a history variable: the (host, key) pairs the user accepted.

### 2.2 AtomicFile, KnownHosts, Documents

`AtomicFile!job[w]` is the call a thread is in: next system call, path, bytes,
content of its temporary file. Every system call succeeds or fails; `Crash`
stops all writers. The temporary files of two calls never collide (process id
and an atomic counter), so each call has its own. `Windows` adds the
`#[cfg(target_os = "windows")]` block. The result of removing the temporary file
after a failed rename is not looked at (atomic.rs:37), so `Cleanup` keeps it or
not: with it the second rename can succeed, without it it cannot. Between the two
the path is empty. `AtomicWrite` has a phase "removed" for that, which only a
`Lossy` (Windows) call enters; it ends in Ok or Err, and only the crash or the Err
leaves the document lost.

`KnownHosts` splits `remember` where the mutex is released: `Remember` (first
critical section), `Persist` (second one, the snapshot), `Write` (the system
calls, without the lock), `Remembered` (the caller, which prints a failure and
goes on). `Restart` is the end of the process and the next `load`.

`Documents` is the UI thread: `Launch`, the three `Open…` actions for the three
arms of `open_lenient`, `Opened`; `Set`, `Write`, `SaveReturns`, `SaveAgain` for
`set` and the saves the handlers of Shell do after it (`Handlers`: settings and
`persist_hosts` save again whatever `set` returned, tabs only after an Ok,
`save_host`/`delete_host` not at all); `Quit`, `FlushNext`, `FlushReturns`,
`Flushed` for the flush on the way out, which stops at the first error; `Die`
and `Damage` for what happens from outside. `Norm` is `normalized()`: any
idempotent function on documents. `Fallback` says whether this part runs in the
Windows build, apart from `Windows`, so that one run looks at both builds.

### 2.3 HostsDocument and Shell

A host keeps its id, group and jump host, and `who`, a number that tells hosts
apart that were made at different times; a group is its id. `Normalized`,
`Upsert` and `Remove` are `HostsFile::normalized`, `upsert` and `remove`. In
`Shell`, `hosts` is the window's copy and `config` that of `Config` and the
file: `SaveHost` changes each by its own computation as `save_host` does,
`Persisted` overwrites the second by the first as `persist_hosts` does. Every
operation of the host list and of the tab strip is one action, since the UI
thread runs it without a break; the saves succeed (`Documents` has the saves
that fail). `next_id` numbers hosts, groups and tabs. `Restart` takes the tabs
back or not (`reconnect_on_startup`), which is where old ids come from. `data`
is what plugin panes stored under `tab:<id>`. A host comes from `NewHost`, whose
dialog offers the hosts there are as its jump host, or from `SaveAsHost`, which
copies the connection of the active tab. Of the connections of the tabs `Shell`
keeps only `named`: the jump hosts that any of them has had, from the host it was
opened from (`OpenTab`) or from its dialog (`EditTab`). A tab may outlive the host
it names, and be closed, reopened and restored with it, so `named` only grows.

### 2.4 Vault

A scope (a host or the program itself) has one secret, a document that may
hold it as text, and a blob in `secrets.json`. `OpenVault` is
`SecretStore::open` with each of its failures, the creation of a key that is cut
short among them; `SealNext` and `EndSealing` are the migration of plain text,
one secret at a time, with each write failing or not. `SaveSecret`,
`SaveDocument`, `SavePaneSecret` and `ForgetHost` are the dialogs, the panes and
`delete_host`; `ExportBackup` and `ImportBackup` are `backup.rs`, the import
stopping or tearing a file at any place; `VaultDies` is the end of the program
anywhere. `promised` is a history variable: the secret the user was left to
believe is saved. Where the code is known to drop one (section 6), nothing is
promised, so that the property is about everything else; each such place says so.

### 2.5 The services of a tab

`TabBackend` is what is left of `SessionTab` when seen by the tasks of a tab:
`link` counts the transports, `alive` says that the current one's runtime
serves requests, and tasks die with it.

* `TabCommands`: a command is a number in the order of sending, which is the
  order of the vectors `pending` and `stops`. `Ask`, `PollCommands`, `Cancel`
  are `start_command`, `drain_answers` and `cancel`; `TaskDies` is a task
  whose runtime is gone. `latest` is a history variable.
* `AgentLoop`: `phase` and `waiting` are `Agent::phase`; the history is a sequence
  of messages with the calls they make or answer. Replies arrive, are cut off
  or fail; calls are run at once, ask for approval, run a command or a file
  request or a worker; the user answers, stops, clicks the stop of a command,
  injects messages, rewinds, opens another chat. `Repaired` is
  `repair_history`. `left` records the commands the agent stopped waiting for.
* `BrokerPane`: forwards are bound, fail or die on the transport they were
  asked over; `address`, `ferror` and `fpending` are the maps of
  `RemoteForwards` for the only key in use; `Connect`, `Drain` and
  `ClickReconnect` are the pane, `ClientMoves` the thread of the client with
  the events it sends.
* `RemoteFiles`: `fs` is the struct of that name. Each request of `SftpAccess`
  is an action that says what it does to the slot and the queue, and
  `PollFiles` is `poll_files`: listing, packing, the slot's answer, the next
  transfer, the reload. Jobs answer, fail, or die with their transport.
* `PaneLayout`: a dock is the sequence of its leaves in render order. `stored`
  is `plugin_layout` in `tabs.json`.
* `Panes` puts them over one transport. The parts share nothing but the
  transport, so a behaviour picks one part (`part`) and keeps the others at
  rest: their states add up and do not multiply.

* `DockerPane`: `unread` are the labels whose attempts are ahead of what was
  handled, so `Takes` is when `take` returns an outcome; `aim` is a history
  variable, the container a command was sent for. Each poll of a frame and each
  click is an action; `PollPull` and `PollUpdate` are the queues of pulls and of
  updates, with the next request they start in the same step. `replaced` is a
  history variable: an update was queued over one under way.
* `ConnectionLog`: `RecordStatus` is `record_status`; `ShowLog` a frame of the
  pane, which loads the stored log the first time, merges the whole history of
  its tab (`Merge`, folded by `Absorbed`), clears it on a click, and stores what
  is new; `Reopened` is a tab or an application that is opened anew.
* `HostPanes` shows one of three parts (`shown`): containers one by one, images
  and updates, or the log.

### 2.6 Telnet, RemoteSession, Jumps

`Step` is the filter's byte automaton (`codec.rs`), `Feed` runs it along a
chunk (`Along` of `Lists` is the loop); the thread takes commands (`TakeWrite`,
`TakeResize`, `TakeDisconnect`), reads chunks of any length, and ends in each way
the select loop does. The server is external: it negotiates by RFC 854, asks about options by itself, asks
for the terminal type, reads what arrives message by message (`Collected` puts
the bytes together, `Handled` answers them in order), and may hang up.

In `RemoteSession` several tabs use one session name of one host. A tab probes
(`BeginRemote`, `HostLists`, `ProbeFails`), plans (`Plan` in `FinishProbe`), and
the host runs the command over the tab's new transport (`HostRuns`); between any
two of these the other tabs and the host do anything else. `Found` is
`classify`, with what it cannot tell apart. The multiplexer is external:
`Enterable` and `Creates` say what the commands of `attach_command` and
`reattach_command` do with the sessions that are there. A client whose
connection broke stays attached until the host notices (`Ghost`).

In `Jumps` the saved hosts (`profiles`) are edited and deleted while one tab is
open, waits for a password, is probed, dialled, reconnected, closed, reopened or
restored. `ChainFrom` is `jump_chain`; `tab.jumps` is the chain the tab keeps,
`Through` what a connection of the tab goes through. `named` is a history
variable: what the connection named when the chain was resolved.

## 3. Runs

"Passes" means that TLC explored every reachable state of the instance.

| run | specification | checks |
|---|---|---|
| `tab_login` | `SessionTab`: password host, 2 threads, 1 host, 2 keys, OnFocus | `TypeOK`; `PromptIsCurrent`; `OnlyAcceptedKeysRecorded` |
| `tab_probe` | `SessionTab`: password host behind a jump host with tmux/screen probe, one forward, chain that may not resolve, policy and focus that change, 2 threads | `RetrySparesLiveTransport`; `TabClosesOnlyOnServerEnd` |
| `tab_live` | `SessionTab!FairSpec`: key login, Always, one forward, 2 threads | `ConnectedHasTransport`; `DownTabKeepsTrying`; `AttemptsResolve`; `DroppedThreadsEnd` |
| `store` | `Store`: all five parts | `StoreTypeOK`; `WritesAreAtomic`; `OnlyAcceptedKeysKept`; `DiskIsOldOrNew`, `CleanUnlessFailed`; `HostsAreSound`, `TabIdsAreUnique`, `TabsAreSaved`; `SecretsAreKept` |
| `panes` | `Panes`: all four parts, 2 transports | `TypeOK`; `RequestsAreAccepted`, `OnlyLeftCommandsMixUp`, `StopsAreOfRunning`; `PaneHearsTheEnd`; `ContentIsCurrent`, `StoppedHadNotLanded`; `PanesAreUnique`, `PanesStayOpen`, `CrashRestoresPanes` |
| `panes_live` | `Panes!FairSpec`: agent, MQTT pane, files, 2 transports | `DeadCommandsSettle`; `ForwardWaitEnds`; `QueueMoves` |
| `host_panes` | `HostPanes`: all three parts, 2 transports, 2 containers, 2 tabs | `HostTypeOK`; `UpdatesTakeTurns`, `CreditsWhatRan`; `FramesLogEverything` |
| `far_end` | `FarEnd`: all three parts | `FarTypeOK`; `StreamsAreFaithful`, `AsksAreAnswered`; `SharedOnlyByRace`; `JumpsAreTaken` |
| `tab_swallowed`, `new_host`, `broker_address`, `log_once` | as needed for the disagreement | one property each, violated: section 6 |

What the properties say:

* `PromptIsCurrent`: the banner on screen is the question the transport behind
  the tab is waiting on (or has just given up, with `Closed` under way), so an
  answer never reaches a question that was not shown.
* `OnlyAcceptedKeysRecorded`: a recorded key is one the user accepted for that
  host. Violating it takes a dropped or timed-out thread, a second one and an
  answer in the wrong moment.
* `RetrySparesLiveTransport`: an automatic reconnect never drops a transport
  that still works, nor a password being typed.
* `TabClosesOnlyOnServerEnd`: `SessionEnd::Requested` counts as "by the shell",
  yet the app's own Disconnect never closes the tab that replaced the transport.
* `ConnectedHasTransport`: a tab that says Connected has a transport beyond
  authentication, or the news of its end is in the channel.
* `DownTabKeepsTrying`, `AttemptsResolve`, `DroppedThreadsEnd`: a down tab under
  Always is retried for ever; an attempt the user leaves alone ends, or its thread
  stands for ever at one call of the login that has no timeout; a dropped thread
  ends, or stands for ever at such a call. Nothing else holds either up: no
  question that nobody answers any more, no timer, no session that the server
  keeps open.
* `WritesAreAtomic`, `DiskIsOldOrNew`: what a crash or a failed write leaves. On
  Windows `WritesAreAtomic` lets a call empty its path between removing the target
  and the second rename, for good if it then fails: that is what the code does, and
  section 6 says so.
* `OnlyAcceptedKeysKept`: neither table nor file holds a key the user did not
  accept for that very host and port.
* `CleanUnlessFailed`: a document that does not count as dirty is on disk,
  except after a save that failed on a document that counted as written.
* `HostsAreSound`: both copies of the hosts have no dangling group and list every
  ungrouped host once; a jump host that is gone is one that a tab has named, which
  Save as host copies (section 6); and they hold the same hosts in the same groups,
  though each is computed on its own. (Their order may differ: section 6.)
* `TabIdsAreUnique`, `TabsAreSaved`: ids stay unique although a restart brings
  old ones back to a counter that starts at 1; `tabs.json` lists the open tabs.
* `SecretsAreKept`: a secret the user believes saved can be opened or is still
  in a document as text, through failed reads and writes, interrupted
  migrations, restored backups and launches that cannot open the vault.
* `RequestsAreAccepted`: what is sent to the provider answers every call once,
  right behind the turn that made it: however a run was stopped, cut off,
  rewound or opened again.
* `OnlyLeftCommandsMixUp`, `StopsAreOfRunning`: a result under a key that is of
  another command is of one the agent had given up, and a stop that is kept is of
  a command that runs; nothing else mixes commands up.
* `DeadCommandsSettle`, `ForwardWaitEnds`, `QueueMoves`: no
  pane waits for ever on something whose transport is gone; only a transport that
  is up and does not answer can keep it waiting.
* `PaneHearsTheEnd`: a client that ended has said so after all it said before.
* `ContentIsCurrent`: the viewer is not given what this tab has overwritten, but
  for writes that were stopped, died or were dropped (section 6).
* `StoppedHadNotLanded`: "stopped" is never said of a transfer that had landed.
* `PanesAreUnique`, `PanesStayOpen`, `CrashRestoresPanes`: a plugin has one pane
  at most; moving a pane loses no other; what a crash brings back is what was
  on the screen, but for panes closed by their own button.
* `StreamsAreFaithful`: no byte is lost, doubled or taken for a command, however
  the stream is cut into chunks; an orderly end loses nothing.
* `UpdatesTakeTurns`: an action, an inspect or a script the Docker Manager waits
  for is one whose answer it will still take, and never do two steps of updates
  run at once, whatever was clicked over them, refused, or cut off.
* `CreditsWhatRan`: a container loses its mark when the script made for it ended,
  but for updates queued over one under way (section 6).
* `FramesLogEverything`: whatever was stored, cleared, capped or logged in the
  same millisecond, a frame leaves the recent changes of its tab in the log.
* `AsksAreAnswered`: when nothing is on the way, the server
  that negotiated NAWS has the size of the terminal and all its questions were
  answered.
* `SharedOnlyByRace`: "Force detach others" leaves nobody else in a session, dead
  connections included; under "Do not attach" two tabs meet in one only if tmux
  let one in because its probe had found the session detached. Plans that are
  out of date when they run do no more than that.
* `JumpsAreTaken`: a tab is dialled over the jump hosts its connection named when
  it was opened, reopened or restored, each once, and never around them, however
  the hosts were edited or deleted since.

Every property of a passing run has a mutant in `PROJECT.json` that violates it.

### Bounds

* `Slots = {s1, s2}`: one thread behind the tab and one that was dropped and
  still runs. A dropped thread's events go nowhere and the tab holds at most one
  handle, so a third thread adds no interaction; while both slots are taken
  `StartSsh` may still fail, as a thread that cannot be spawned does. The
  theorems of section 5 hold for any number.
* `Hops ≤ 2`, `Keys ≤ 2`: a jump host and a target; an accepted and another key.
  The rotating keys and the second hop are in different runs: together they give
  ten million states and passed as well, in the same time as everything else
  here.
* `Tunnels ≤ 1`: every forward sends Connected, before the shell is open.
* `MaxAttempt ≤ 2`: the counter saturates; it feeds the backoff only.
* `store`: two writers, two documents, two contents; two SSH threads, endpoints
  and keys: enough for every overlap of two calls and for writes to the same and
  to different targets. Three values of a document, one of which normalisation
  rewrites. `MaxId = 3`, `MaxItems = 3`: hosts, groups and tabs that use up the
  counter together, with ids that come back after a restart; three hosts give
  every order and every jump host. Two scopes (the program's and a host's), one
  secret, two keys: a key that replaces another and blobs of both. With two
  secrets `VaultSpec` alone was checked too.
* `VIEW StoreView` leaves `aside` and `kept` out: `Documents` writes them and
  neither its guards nor the properties of the run read them.
* `panes`: two transports (the dead one and its successor), two commands, two
  calls, four messages of history, two forwards and brokers, one transfer in the
  queue beside the slot and one dropped write, three panes. `AgentSteps = 3`: over a
  conversation, commands and transports together: two commands over one transport, or one
  with a transport that is replaced. `FileLinks` is the number of transports while files move. For
  files one transport is enough in the safety run, since the tasks of a dead
  transport die in every state; `panes_live` has two, and the ZIP downloads, which
  take the slot as a change of a file does. The theorems about the files (section
  5) hold for every set of requests. `QueueMoves` and the
  other liveness properties use smaller histories and fewer kinds of requests.
* `far_end`, Telnet: sizes with and without an escaped byte, one byte of user data that
  needs the escape, one of output, one resize, one question beside the
  negotiation, one cut of the connection; servers that agree to ECHO and NAWS or to
  SGA only. Chunks end anywhere.
* `far_end`, RemoteSession: three tabs (one in the session and two that find it as
  it was) and two sessions, for screen makes a second of the same name. Jumps:
  three hosts and `MaxHops = 2` (eight in the code), so that a chain may be too
  long, loop, and be in order; one tab, since tabs share only the saved hosts,
  and one remembered connection.
* `host_panes`: two containers with an image each; four commands, which two pulls,
  an inspect and a script use up. `DetailSteps` and `UpdateSteps` count commands and
  transports together: for single containers two commands, or one with a transport
  that is replaced; for updates four, or three with a transport that is replaced. Two tabs, three changes of
  status, a history of two and a log of three: each cap is met.
* `CHECK_DEADLOCK FALSE` stands where the system may stop: in the `panes` and
  `host_panes` runs, when the bounded calls, commands or transports are used up and
  nothing runs, and in `far_end`, when the Telnet connection has ended.
* Symmetry is used over threads, over the keys of `KnownHosts`, over the tabs of
  `RemoteSession`, and over the containers and the tabs of `HostPanes`, in invariant and action-property runs only.

### Fairness

`SessionTab!FairSpec` asks for weak fairness of

* the frame loop: the shell repaints at least every second, and every thread
  wakes it when it sends;
* the retry timer and the probe thread, which answers or dies with its channel;
* what a thread is sure to do by itself (`ThreadProgress`): the steps that wait
  for nobody, the calls that carry a timeout (connecting and the handshake of
  each hop; the question to the user, 120 s), and reading a waiting Disconnect in
  the select loop, where `tokio::select!` picks among ready branches at random.

Nothing is asked of the user, of the server or of an SSH agent: `ThreadAnswered`
has the steps that need one of them, among them the return of every call without
a timeout (`authenticate`, `channel_open_direct_tcpip`, `tunnels::start`,
`channel_open_session`, `writer.data`, `disconnect`; `inactivity_timeout` is None,
and keep-alives only end a peer that answers none). They may never happen, and
`AttemptsResolve` and `DroppedThreadsEnd` say what is left then. `AttemptsResolve`
is about behaviours in which the user has stopped clicking; otherwise Reconnect
can be pressed for ever.

`Panes!FairSpec` asks for weak fairness of the polls of each frame, of the
panes' own frames, of the thread that packs an archive, and of tasks whose
transport is gone (the channel closes when the runtime drops the task). Nothing on
a live transport need ever answer, neither a command nor a file request nor a
forward: the properties say so (`SlotServed`, `ForwardServed`). Nor is anything
asked of the user or of the model.

## 4. Abstractions

* Terminal data, status texts, reasons and error texts are left out: no
  decision looks at them.
* Keyboard-interactive challenges: the application never selects that method.
* Host-key policies other than `Ask`: the application always sets it
  (`app/session.rs:681`); the others serve tests.
* In `SessionTab` only the probe's outcome in time matters; the command it selects
  is in `RemoteSession`, where logins succeed or fail at will and any host key is
  taken, as the probe does (`AcceptNew` over a table of its own).
* tmux and screen do what their manuals say of the commands the code builds; a
  session has one name, and all tabs of `RemoteSession` have the same settings.
* `AuthMethod`, the remote session kind and the hosts of the chain are fixed per
  instance (`PasswordAuth`, `RemoteSession`, `Hops`).
* In `SshTransport` the known-hosts table is one variable, changed in one step:
  the lock makes it so. `KnownHosts` models what `SshTransport` leaves out, the
  snapshots and the file. A known-hosts file damaged from outside, which `load`
  reads as empty, is not modelled: `write_atomic` does not produce one.
* A crash is the end of the process. The directory is not synced, so a power cut
  may undo the last rename; that is not modelled.
* One instance of the application.
* Of a host the id, group and jump host; settings, tags, names and colours are
  carried along by the code unchanged.
* The cipher of the vault is ideal: a blob opens under the key that sealed it
  and under no other. A scope has one secret. The saves of the documents in
  `Vault` and `Shell` succeed, a dialog's vault write and document save are one
  step, and there is one backup, made of a directory with a whole key and no
  text left.
* `TabBackend` lets a transport die and be replaced at any time; `SessionTab`
  says when it does. Every behaviour of the latter is one of the former.
* What a tool call does and whether it needs permission is a free choice, as
  are the contents of messages; a reply arrives whole.
* Paths and byte counts of transfers are left out; one directory is listed.
* A dock's tree is the order of its leaves: every split is made at the root
  along the axis of its edge, so the shape adds no more.
* In `DockerPane` a container runs an image of its own, and what a command prints is
  told apart by the container it was sent for. The polls of one frame are steps of
  their own: they touch different fields. The lists, the engine, statistics, one-off
  changes and the retry under sudo use labels of their own and are left out.
* In `ConnectionLog` times are small numbers that may repeat; an entry keeps when
  its session began in place of a duration.
* A terminal size and a terminal type are one byte each; the filter treats the
  two bytes of a dimension alike.

## 5. Proofs

Checked by TLAPS for every value of the constants allowed by the modules'
assumptions; each says that the "nothing" values are not values, that numbers
are numbers and that sets of flags are sets of flags.

* `SessionTabProofs!TypeCorrect`: `Spec => []TypeOK`. One lemma per group of
  actions: what a thread's step, an app operation on a handle, a frame step and
  a user step preserve.
* `SessionTabProofs!KeysTrusted`: `Spec => []OnlyAcceptedKeysRecorded`, for any
  number of threads, hops and keys. The property is not inductive: a thread
  records the key whose answer is in its oneshot, so one needs `AnswerInv` (a
  yes in the oneshot was given for the key the thread shows), so `QuestionInv`
  (the banner, and a banner event on its way, is the only one, and its thread
  still stands at that very question or has given up), so `HandleInv` (only the
  current thread has a live channel) and `PhaseInv` (what the tab holds in each
  phase). Their conjunction `TrustInv` is inductive together with `TypeOK`. Answering is safe because `AskUser` is the
  only step that opens a question and a thread that has asked sends no second
  one before it is answered.
* The rest of `SessionTabProofs`: `PromptIsCurrent` (`BannerIsCurrent`), `RetrySparesLiveTransport`
  (`RetriesSpareTheLiving`), `TabClosesOnlyOnServerEnd` (`ExitsAreTheServers`) and,
  where no password is typed, `ConnectedHasTransport` (`ConnectedIsTrue`; with a
  password the flag of disagreement 1 refutes it, so the hypothesis cannot go).
  A frame applies events while their thread goes on, so `EndInv` says of every event
  on its way what it still tells about the thread (`StreamInv`: a Connected was said
  by a thread that had logged in, a Closed by one that has ended), that a thread which
  asked or said Connected does not end without a Closed behind it (`FarewellInv`),
  what a tab on its way out has read (`ExitInv`), and that a status which allows a
  retry is that of a transport that is over (`RetryInv`). It is inductive on top of
  `TypeOK` and `TrustInv`.
* `StoreProofs!JobsHoldTheirBytes`: `Spec => [](TypeOK /\ JobInv)`: what a
  thread renames is exactly what it was given, and in the Windows fallback its
  temporary file holds that or, when its removal worked, nothing.
* `StoreProofs!CallsAreAtomic`: `AtomicFile` implements `AtomicWrite` with
  `Lossy` equal to `Windows`, under the mapping `View` (a call is "writing"
  until its rename or its failure, and "removed" between removing the target and
  the second rename). Each system call maps to a step of the abstract specification
  or to a stutter: `Rename` and a second rename that succeeds to `Commit`, the
  failures to `Fail`, removing the target to `Remove`, everything else to nothing.
  That the second rename commits the right bytes is `JobInv`. On Unix `Lossy` is
  FALSE, so a path is never empty on the way and a failing call changes nothing; on
  Windows the theorem promises neither.
* `StoreProofs!KeptKeysAccepted`: `TrustSpec => []OnlyAcceptedKeysKept`:
  every snapshot on its way to the disk is an accepted table (`SnapshotInv`),
  and by `JobInv` of the instance nothing else is renamed.
* `StoreProofs`, documents: types (`DocumentsTypeCorrect`), `DiskIsOldOrNew` without the
  Windows fallback (`OldOrNew`), `CleanUnlessFailed` with and without it
  (`CleanIsWritten`), for any of the three documents, any values and any
  normalisation. `DocInv` adds to the types and to the `JobInv` of the instance
  what a call under way means for its document: its data is the document's
  value, a call that has saved has put it in the file (`Saving`), and no call
  runs outside the phases that write (`Still`). On top of it stand `OldUntilNew`
  (only the rename changes the file) and `Clean`, which in the opening phase says
  that every document is either still to be opened or settled; so the proof
  needs that `InOrder` lists them all. `OldOrNew` assumes `~Fallback` because the
  fallback does lose documents (section 6).
* `StoreProofs`, tabs: `TabsAreUnique` and `TabsAreKept`, for any bound on the counter.
  Ids come from the counter and a restart brings old ones back, so `TabInv` says
  that the counter is above every open tab, and that the saved tabs have ids of
  their own too, for a restart without tabs leaves an old list in the file.
  That `ClearOf` has a value is the least-number principle (`WFMin`); the rest
  is about removing from and inserting into lists.
* `StoreProofs`, hosts: `HostsAreSound` (`HostsHold`) and the types of the window
  (`ShellTypeCorrect`). Between a handler's edit and `normalized` a document is less
  than sound, so the lemmas say of each edit that it leaves the document `Ready` (each
  id once, nothing behind a jump host that is gone and that no tab has named) and of
  `normalized` that it makes any such document sound and takes from its hosts only the groups that are gone
  (`Grounded`). The inductive invariant `HostInv` is that the window's copy and the
  one on disk agree in this sense; they are compared as sets of hosts, because their
  orders may differ (section 6).
* `StoreProofs!StoreTypeCorrect`: `StoreTypeOK`, every variable of the store.
* `StoreProofs`, vault: types (`VaultTypeCorrect`) and `SecretsAreKept` (`SecretsKept`).
  What is on disk says too little about the next write of the vault, which
  writes what is in memory, so `VaultInv` adds: memory agrees with the disk on
  every promised secret (`Loaded`), text is never older than the promise about
  it (`TextIsPromised`), a migration without errors has sealed all it has passed
  (`Sealing`), and the backup keeps the promises it was made under (`Backed`).
* `StoreProofs!StoreRunsItsParts`: a behaviour of `Store`, whichever part it shows, is
  one of `AtomicFile`, of `KnownHosts`, of `Documents`, of `Shell` and of `Vault`: a
  step of another part is a stutter, and the part that is at rest starts as its own
  specification does. `StoreKeepsItsPromises` puts the theorems above together through
  it: `WritesAreAtomic`, `OnlyAcceptedKeysKept`, `CleanUnlessFailed`, `HostsAreSound`,
  `TabIdsAreUnique`, `TabsAreSaved` and `SecretsAreKept` of the very specification the
  `store` run checks.
* `TabCommandsProofs`: lemmas only. Whatever the panes, the frames, the host and the
  transports do to the commands, `CommandsInv` holds: a pending command was sent, and
  a result is the answer to one that was sent and is not pending any more, or a
  refusal. The lemmas `SendMoves`, `RefuseMoves` and `PollMoves` say what a step does,
  in the terms the panes' proofs use.
* `PanesProofs`, MQTT and commands: the types of the MQTT pane (`BrokerTypeCorrect`),
  `PaneHearsTheEnd` (`TheEndIsHeard`) and `StopsAreOfRunning` (`StopsOutliveNothing`)
  in every behaviour of `Panes`.
* `PanesProofs!AnswersAreTheAgents`: `OnlyLeftCommandsMixUp`. `AgentInv` says, for each
  label of the agent, that a command running under it was left or is the one the phase
  waits on, and that a result of an earlier command was left. Every step of the agent
  is one of three: it sends the commands of the next phase, leaves the one it waited
  for, or moves neither (`AgentKinds`).
* `PanesProofs!RequestsAreTaken`: `RequestsAreAccepted` for a provider that names every
  call (`UniqueIds`; with calls numbered per reply it is false, section 6). `AgentSound`
  says that the history is sound up to the calls of its last reply that are still
  open, and that while the agent works these are the call in hand and the queue, in
  order. `Repaired` closes what a stop, a rewind or a chat that was left kept open.
* `PanesProofs`, layout: `PanesAreUnique` (`OnePanePerPlugin`), `CrashRestoresPanes`
  (`CrashBringsThePanesBack`) and `PanesStayOpen` (`PanesGoOneByOne`). `LayoutInv`: on the
  screen and in what is saved each plugin has one leaf, the overlay one pane.
  `LayoutMoves` says what any step can be: it closes one pane, which need not be saved,
  or it puts one somewhere and saves, or it takes a layout over.
* `PanesProofs!TypesAreCorrect`: `TypeOK`, every variable of `Panes`.
* `PanesProofs`, files: `FilesTypeOK` (`FilesTypeCorrect`), `ContentIsCurrent`
  (`ReadIsCurrent`) and `StoppedHadNotLanded` (`StoppedWasNotThere`). A handler is a
  composition of functions on the struct, so `FilesInv` is proved of each function and
  not of each action. It says what the two slots hold, that every other job is a
  write nobody hears of (`SlotsInv`), that there are no more of those than the bound
  lets through, and that what was read is out of date only by a write that ended in
  the slot, or slipped (`AgingInv`). That a job is free for the next request is
  counting (`FreshIsFree`): the two slots and the dropped writes do not fill the table.
* `HostPanesProofs`: types (`HostTypeCorrect`), `UpdatesTakeTurns`
  (`UpdatesAreOneAtATime`), `CreditsWhatRan` (`UnmarkedWasUpdated`) and
  `FramesLogEverything` (`LogIsComplete`). `CreditsWhatRan` exempts the updates that a
  click queued over others under way (`replaced`): there the code credits the wrong
  container (section 6, `UpdatedIsRecreated`), and the theorem says that it does so
  nowhere else. The queue of updates and the commands that
  run for it are tied together only by the labels whose answer was not handled yet:
  `DockerInv` says that every command that runs is unhandled and that what is unhandled
  runs or has its answer (`NothingIsLost`), that an inspect and a script are open
  together only when both were refused (`OneStepAtATime`), and that only the first
  container of the queue is worked on, and what runs is aimed at it. For the log, an
  append moves every entry back by one (`AppendHolds`), so the newest `MaxEntries`
  events of a tab are there after the fold over its history, by induction on how far
  back an event is.
* `FarEndProofs!SharersRaced`: `SharedOnlyByRace`. It rests on where the shells of a tab
  are: at most one in all sessions, and only while the tab is attached or probes with
  its old shell still there (`OneShell`), so a tab that is let in somewhere comes from
  nowhere else. On top of that `RemoteInv` says that under "Force detach others" the
  clients of a session are one, that under "Do not attach" two tabs in one session
  raced, and that a tab that waits for its shell has a command to run.
* `FarEndProofs!NoJumpIsSkipped`: `JumpsAreTaken`, for any hosts and any bound on the
  chain. `ChainFrom` is a loop that may end in an error, so the lemmas are about each
  length of the walk: it names each host once, and either fails or ends at a host that
  names no other. `JumpsSound` says the same of the chain the tab keeps.
* `FarEndProofs!StreamsStayFaithful`: `StreamsAreFaithful`, for every list of bytes, every
  cutting into chunks and every negotiation. The property speaks of what has arrived;
  the invariant speaks of what will have when the bytes on the way are read:
  `ToTerminal` runs the filter along them (what it adds to the terminal's data makes
  the host's whole output, and it ends between two commands), `ToHost` runs the server
  along the bytes to it and then along the commands the thread has not taken. That a
  chunk may end anywhere is `FeedBoth`: feeding two pieces is feeding the whole. That
  answers in between change no data is that each is a list of commands (`AllOrders`),
  which the other side collects and hands on as such.
* `TelnetAskProofs!AsksGetAnswers`: `AsksAreAnswered`, for any set of options the server
  agrees to, any it asks about, and any order of questions, answers, chunks and resizes.
  The property speaks of a moment when nothing is on the way; the invariant runs both
  ends ahead to one. Feed the filter all that is on its way: then what is on the way to
  the server, together with what the filter would have said, holds an answer to every
  open question, and the filter knows of NAWS whenever the server has it or asks for it
  (`Accord`, by way of `Agreed`). Two facts keep it so. A message answers one question
  at most (`AnswerFits`), and a question is open only while its option is not on, so a
  message that is read settles the question it answers and takes no answer away from
  another. And the client never says DO NAWS (`NawsAsked`), so the server never does
  NAWS itself and never says WONT to it, which the filter would take for the end of its
  own. For the size, the server
  run along the bytes to it has seen the one the filter knows, once NAWS is on, and the
  commands the thread has not taken lead from that to the size of the terminal (`Told`):
  a resize before the server's DO is told with the answer to it, one after it by itself.
  `AskInv` is inductive on top of `ToTerminal` and `ToHost`, which say that whole
  commands arrive.
* `FarEndProofs!FarTypesCorrect`: `FarTypeOK`, every variable of the three parts; the
  filter holds back no answer and no data between two reads.
* `ListProofs`: lemmas only. The library's theorems of induction take an operator,
  which no installed prover can instantiate; `UpTo` and `ByAppending` state induction
  over numbers and over lists as facts about a set, so that they can be cited. With
  them stands what `Only` (a filtered list) and `Along` (a loop over a list) do to
  every list; the modules use these two, and not `SelectSeq` or a fold, where
  something is proved about the result.

Only model-checked, and why:

* Liveness (`DownTabKeepsTrying`, `AttemptsResolve`, `DroppedThreadsEnd`,
  `DeadCommandsSettle`, `ForwardWaitEnds`, `QueueMoves`): fairness and ENABLED are out
  of the prover's reach.
* `ConnectedHasTransport` with a typed password: in general false (section 6).
* `DiskIsOldOrNew` in the Windows build: false (section 6).

No module with a theorem reaches a RECURSIVE operator.

## 6. Disagreements between code and documentation

`PROJECT.json` ("findings") quotes the lines. With a run that ends in a
counterexample:

1. `tab_swallowed`: `retry_login` sets `suppress_close` for a `Closed` of a
   transport it drops at once. The flag then swallows the `Closed` of the next
   session, if Connected and Closed arrive in one frame: the tab stays Connected
   over a thread that has ended.
2. `new_host`: a new host takes `next_id` without advancing it, so two hosts made
   one after the other have one id and the second replaces the first.
3. `broker_address`: after a reconnect of the tab, the MQTT pane's "start over"
   dials the loopback address of the forward that died with the old transport.
4. `log_once`: the Connection Logger passes over a change that is the last entry of
   the log, but is handed the whole history of its tab in every frame; from the
   second change on, each frame logs all of them again.

Without a run of their own; the property named is in the module, and TLC
violates it when it is added to a run:

* `AttemptsCountFromLogin` (`SessionTab`): the batch of item 1 leaves the attempt
  counter as it was before the login.
* `RemovedOnlyToBeReplaced` (`AtomicFile`): the Windows fallback removes the
  temporary file, then the target, then renames the temporary file, which is there
  only if removing it failed.
* `NoDanglingJumps` (`Shell`): Save as host copies the jump host of the tab, which
  may be deleted since; the dialog shows it as None and keeps it, and `normalized`,
  which removes "duplicates and dangling references", looks at groups only.
* `ChangesReachTheFile` (`KnownHosts`): two threads that remember keys may write
  their snapshots in the other order; every write succeeds and a key is missing
  after a restart.
* `CleanMeansSaved`, `UnreadableIsKept` (`Documents`): `set` changes the value
  first, and a save that fails leaves it marked as written; an unreadable
  document whose rename fails is reported as kept, and overwritten.
* `ForgottenStaysForgotten`, `StillInTheSettings` (`Vault`): a deleted host's
  secret comes back when the vault could not be written; saving the options
  strips passwords that the migration could not seal.
* `TabDataIsItsOwn` (`Shell`): plugin data under `tab:<id>` outlives its tab, and
  a later tab with that id finds it.
* `RunningRowIsRunning` (`RemoteFiles`): a transfer whose task dies with its
  transport leaves its row on the screen as running.
* `ResultIsLatest` (`TabCommands`): the answer to an earlier command lands under
  the key of a later one.
* `RequestsAreAccepted` (`AgentLoop`, with `UniqueIds = FALSE`, four calls and six
  messages): a provider that names no calls gets `call_<index>`; two replies use
  one id, and a call that was dropped is taken for answered.
* `StoredLogIsKept` (`ConnectionLog`): the panes of two tabs on one host each write
  the log they hold, and the last one to do so wins.
* `UpdatedIsRecreated`, `PanelsShowTheirBox` (`DockerPane`): a click on another row
  replaces the queue of updates, or what is selected, while the answer for the
  container before is on its way, and that answer is taken for the new one's: the
  wrong container counts as updated, or its details stand under another name.
* `TurnsLineUp` (`AgentLoop`): the turns of the pane and the messages of the
  provider stop lining up.
* `EditedWayIsTaken` (`Jumps`): the settings of an open tab are promised to count
  from its next connection, but the chain of jump hosts is the one it was opened
  with.
* `ProbesJumpToo` (`Jumps`): the probe of a host behind a jump host dials the host
  directly, and fails where it cannot be reached so.
* `PlanEndsInShell` (`RemoteSession`): after a probe that failed the plan is to make
  a session, which tmux refuses if there is one; a missing tool may be taken for
  a missing session. The command ends and the tab closes with it.
* `LayoutIsSaved` (`PaneLayout`): neither a moved splitter nor a pane closed by
  its own button is saved when it happens.

Read in the code while modelling, and part of the models as the code has them:

* *Vault.* A pane's secret that is written after a failed migration is replaced
  at the next launch by the old text of the document. After a restore and before
  the restart, vault writes seal under the old key and overwrite the restored
  file. If the settings cannot be saved after a migration, the text is migrated
  again at the next launch.
* *Agent.* Stopping a command cancels the oldest command of its key, not the one
  waited for. A failed existence probe counts as "does not exist". A failed or
  stopped upload is reported as written. A failed remote read leaves its call
  waiting. An injected message survives `clear`.
* *Files.* A queued transfer is lost when it is started over a closed backend. A
  listing that is in flight when a transfer lands is taken as fresh. A write
  that was stopped, died or was dropped does not forget the cached content.
* *MQTT.* A `Closed` that is read with an `Error` replaces Failed by
  Disconnected.
* *Shell.* A group made after a restart may get the id of an existing group. The
  place of a copied host differs between the two copies of the document. The
  active tab chosen by the keyboard or the context menu is not saved. Closing a
  tab in front of the active one makes another tab active.
* *Layout.* Floating a pane closes whatever other pane floats.
* *Telnet.* A DONT is not acknowledged, a repeated DO is acknowledged again, and
  output that shares a chunk with a question is lost if the reply cannot be
  written.
* *tmux and screen.* A tab that reconnects under "Do not attach" before the host
  has noticed that its old connection is gone finds its own client attached and
  opens a plain shell beside it.
* *Reconnects.* The reconnect policy and the focus are read when a retry is
  booked and not when it runs (`wassh/src/app/mod.rs:1920`); a rejected password
  ends the thread without the `Closed` its event promises
  (`wassh-ssh/src/session.rs:231`, `667`).

## 7. Not modelled

* *Serial and local terminal sessions*: a reader thread and a synchronous writer
  each; the tab's pump treats them as it does an SSH session that needs no
  login.
* *MQTT packets*: ids, acknowledgements, keep-alive and the codec, and the
  messages and topics of the pane.
* *The agent's stream, its wire formats, web and search tools* and the rules of
  permissions: text processing and HTTP.
* *Bytes of the SSH channels, exec, SFTP and forwards*: they run as tasks of the
  thread's runtime and decide nothing in the tab.
* *The Docker Manager's lists, engine, statistics and sudo prompt, and the graphs of
  the Connection Logger*: requests that go the way of those modelled, and
  arithmetic on a log.
* *The terminal emulation, the other plugin panes, the dialogs and the UI*: a wrapper around
  a VT parser and immediate-mode drawing, no state but what the tab collected.
  They are more than half of the repository's lines, and nothing in them is
  concurrent or kept.
* *Settings, theme, time, colours*: plain data.
* *Operating-system glue, X11 byte forwarding, `gallery.rs`, `spike.rs`, the
  vendored crates.*
* `KnownHosts::forget`, `JsonDocument::open`, `update`, `get_mut`, and
  `split_leaf` and `set_ratio` of the layout have no caller outside the tests.
* A second instance of the application over the same data directory: the code
  has no protocol for it.

## 8. What could come next

1. A trust store as an abstract specification that `SessionTab` and `KnownHosts`
   both implement, to join the two.
2. `TabBackend` as a proved abstraction of `SessionTab`.
3. The packet layer of the MQTT client.
