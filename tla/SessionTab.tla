------------------------------ MODULE SessionTab ------------------------------
(***************************************************************************)
(* One SSH tab of the application: SessionEntry of                         *)
(* crates/wassh/src/app/session.rs with the parts of Shell                 *)
(* (crates/wassh/src/app/mod.rs) that pump it every frame, close it when   *)
(* its shell exits and schedule its reconnects, composed with the          *)
(* background threads of SshTransport.                                     *)
(*                                                                         *)
(* The UI thread is `frame`: it is "idle" between frames, when the user's  *)
(* clicks and keys are handled.  A frame drains the current handle's       *)
(* channel into `batch` at once (SshSession::events returns a Vec),        *)
(* applies the events one by one, settles the outcome and schedules        *)
(* retries.  Threads run in between all of it.                             *)
(***************************************************************************)
EXTENDS SshTransport, FiniteSets

CONSTANTS NoPrompt,
          PasswordAuth,   \* AuthMethod::Password (else a key or the agent)
          RemoteSession,  \* tmux/screen: a probe runs before the transport
          JumpErrors,     \* subset of BOOLEAN: did resolving the jump chain fail
          Modes,          \* reconnect policies the host may be saved with
          FocusStates,    \* what the window system may report: subset of BOOLEAN
          MaxAttempt      \* bound: the attempt counter saturates here

ASSUME TabAssumption ==
  /\ PasswordAuth \in BOOLEAN
  /\ RemoteSession \in BOOLEAN
  /\ JumpErrors \subseteq BOOLEAN
  /\ FocusStates \subseteq BOOLEAN
  /\ Modes \subseteq ReconnectModes
  /\ MaxAttempt \in Nat \ {0}
  /\ \A h \in 1..Hops, k \in Keys : NoPrompt # <<h, k>>

VARIABLES
  open,        \* the tab exists
  status,
  cur,         \* Backend::Ssh(handle to this slot), or NoSlot
  prompt,      \* host_key_prompt: <<hop, key>> or NoPrompt
  login,       \* LoginPrompt: "none", "active" (typing) or "sent"
  suppress,    \* suppress_close
  password,    \* secrets.password is not empty
  probe,       \* "none", "running" or "done" (answer in the channel)
  retry,       \* retry_at: "none", "booked" or "due"
  attempt,     \* reconnect_attempt
  mode,        \* connection.reconnect
  jumpError,   \* jump_error is set
  focused,     \* the window has focus
  frame,       \* where the UI thread is
  batch,       \* events drained and not yet applied
  exit,        \* pumped.closed: "none", "kept" or "shell"
  approved     \* history: <<hop, key>> pairs the user accepted, now or in an
               \* earlier run

tabVars == <<open, status, cur, prompt, login, suppress, password, probe,
             retry, attempt, mode, jumpError, focused, frame, batch, exit,
             approved>>
vars == <<transportVars, tabVars>>

Frames == {"idle", "drain", "apply", "schedule"}

Prompts == (1..Hops) \X Keys

TabTypeOK ==
  /\ open \in BOOLEAN
  /\ status \in Statuses
  /\ cur \in Slots \cup {NoSlot}
  /\ prompt \in Prompts \cup {NoPrompt}
  /\ login \in {"none", "active", "sent"}
  /\ suppress \in BOOLEAN
  /\ password \in BOOLEAN
  /\ probe \in {"none", "running", "done"}
  /\ retry \in {"none", "booked", "due"}
  /\ attempt \in 0..MaxAttempt
  /\ mode \in Modes
  /\ jumpError \in BOOLEAN
  /\ focused \in BOOLEAN
  /\ frame \in Frames
  /\ batch \in Seq(Events)
  /\ exit \in {"none", "kept", "shell"}
  /\ approved \in SUBSET Prompts

TypeOK == TransportTypeOK /\ TabTypeOK

Init ==
  /\ TransportInit
  /\ open = FALSE
  /\ status = "Idle"
  /\ cur = NoSlot
  /\ prompt = NoPrompt
  /\ login = "none"
  /\ suppress = FALSE
  /\ password = FALSE
  /\ probe = "none"
  /\ retry = "none"
  /\ attempt = 0
  /\ mode \in Modes
  /\ jumpError = FALSE
  /\ focused \in FocusStates
  /\ frame = "idle"
  /\ batch = << >>
  /\ exit = "none"
  /\ approved = {<<h, known[h]>> : h \in {g \in 1..Hops : known[g] # NoKey}}

-----------------------------------------------------------------------------
(* Opening and reopening the transport.                                    *)

(* start_ssh: a new thread replaces the old handle, or none could be       *)
(* started.                                                                *)
StartSsh ==
  \/ /\ \E s \in Slots : Spawn(cur, s) /\ cur' = s
     /\ status' = "Connecting"
  \/ /\ Drop(cur)
     /\ cur' = NoSlot
     /\ status' = "Failed"

(* begin: a jump chain that did not resolve fails at once; a host with a   *)
(* remote session is probed first and keeps the old backend meanwhile.     *)
Begin(jump) ==
  \/ /\ jump
     /\ Drop(cur)
     /\ cur' = NoSlot
     /\ status' = "Failed"
     /\ probe' = "none"
  \/ /\ ~jump /\ RemoteSession
     /\ status' = "Connecting"
     /\ probe' = "running"
     /\ UNCHANGED <<thread, queue, cur>>
  \/ /\ ~jump /\ ~RemoteSession
     /\ StartSsh
     /\ probe' = "none"

(* prompt_login: the password is asked for in the terminal.                *)
PromptLogin ==
  /\ login' = "active"
  /\ status' = "Authenticating"
  /\ Drop(cur)
  /\ cur' = NoSlot

(* Slip: the banner of the old transport stays up.                         *)
RestartKeepsBanner ==
  /\ prompt' = prompt
  /\ suppress' = FALSE
  /\ IF PasswordAuth /\ ~password
     THEN PromptLogin /\ probe' = "none"
     ELSE Begin(jumpError) /\ login' = "none"
  /\ UNCHANGED password

(* SessionEntry::restart with the secrets the session already has.         *)
Restart ==
  /\ prompt' = NoPrompt
  /\ suppress' = FALSE
  /\ IF PasswordAuth /\ ~password
     THEN PromptLogin /\ probe' = "none"
     ELSE Begin(jumpError) /\ login' = "none"
  /\ UNCHANGED password

-----------------------------------------------------------------------------
(* The user, between two frames.                                           *)

Handling == open /\ frame = "idle"

(* Shell::open for an SSH host (also reopen_closed and restore_session):   *)
(* with a saved password, a key or the agent it connects, otherwise the    *)
(* new tab asks.  Only a restored tab is opened on a broken jump chain, to *)
(* show why it cannot connect.                                             *)
OpenTab(stored, jump) ==
  /\ ~open /\ frame = "idle"
  /\ open' = TRUE
  /\ password' = stored
  /\ jumpError' = jump
  /\ IF PasswordAuth /\ ~stored /\ ~jump
     THEN PromptLogin /\ UNCHANGED probe
     ELSE Begin(jump) /\ UNCHANGED login
  /\ UNCHANGED <<known, serverKey, prompt, suppress, retry, attempt, mode,
                 focused, frame, batch, exit, approved>>

(* SessionEntry::disconnect as part of Shell::close; the entry is gone     *)
(* afterwards, so its fields go back to those of no tab.                   *)
CloseEntry ==
  /\ open' = FALSE
  /\ Drop(cur)
  /\ cur' = NoSlot
  /\ status' = "Idle"
  /\ prompt' = NoPrompt
  /\ login' = "none"
  /\ suppress' = FALSE
  /\ password' = FALSE
  /\ probe' = "none"
  /\ retry' = "none"
  /\ attempt' = 0
  /\ jumpError' = FALSE
  /\ exit' = "none"

CloseTab ==
  /\ Handling
  /\ CloseEntry
  /\ UNCHANGED <<known, serverKey, mode, focused, frame, batch, approved>>

(* Command::Reconnect and the banner's button: any state may be restarted. *)
Reconnect ==
  /\ Handling
  /\ Restart
  /\ UNCHANGED <<known, serverKey, open, retry, attempt, mode, jumpError,
                 focused, frame, batch, exit, approved>>

RespondHostKey(accept) ==
  /\ Handling
  /\ prompt # NoPrompt
  /\ IF cur # NoSlot THEN Answer(cur, accept) ELSE UNCHANGED thread
  /\ prompt' = NoPrompt
  /\ status' = IF accept THEN status ELSE "Disconnected"
  /\ approved' = IF accept THEN approved \cup {prompt} ELSE approved
  /\ UNCHANGED <<queue, known, serverKey, open, cur, login, suppress, password,
                 probe, retry, attempt, mode, jumpError, focused, frame, batch,
                 exit>>

(* submit_login; typing nothing leaves an empty password behind.           *)
SubmitLogin(typed) ==
  /\ Handling
  /\ login = "active"
  /\ login' = "sent"
  /\ password' = typed
  /\ Begin(jumpError)
  /\ UNCHANGED <<known, serverKey, open, prompt, suppress, retry, attempt, mode,
                 jumpError, focused, frame, batch, exit, approved>>

(* cancel_login, through disconnect.                                       *)
CancelLogin ==
  /\ Handling
  /\ login = "active"
  /\ login' = "none"
  /\ Drop(cur)
  /\ cur' = NoSlot
  /\ prompt' = NoPrompt
  /\ suppress' = FALSE
  /\ status' = IF status \in {"Failed", "Disconnected"} THEN status ELSE "Closed"
  /\ UNCHANGED <<known, serverKey, open, password, probe, retry, attempt, mode,
                 jumpError, focused, frame, batch, exit, approved>>

(* apply_connection: the host was edited while its tab is open.            *)
ApplyConnection ==
  /\ Handling
  /\ mode' \in Modes \ {mode}
  /\ UNCHANGED <<transportVars, open, status, cur, prompt, login, suppress,
                 password, probe, retry, attempt, jumpError, focused, frame,
                 batch, exit, approved>>

FocusChange ==
  /\ frame = "idle"
  /\ focused' \in FocusStates \ {focused}
  /\ UNCHANGED <<transportVars, open, status, cur, prompt, login, suppress,
                 password, probe, retry, attempt, mode, jumpError, frame, batch,
                 exit, approved>>

-----------------------------------------------------------------------------
(* The clock and the probe thread.                                         *)

RetryDue ==
  /\ retry = "booked"
  /\ retry' = "due"
  /\ UNCHANGED <<transportVars, open, status, cur, prompt, login, suppress,
                 password, probe, attempt, mode, jumpError, focused, frame,
                 batch, exit, approved>>

ProbeAnswers ==
  /\ probe = "running"
  /\ probe' = "done"
  /\ UNCHANGED <<transportVars, open, status, cur, prompt, login, suppress,
                 password, retry, attempt, mode, jumpError, focused, frame,
                 batch, exit, approved>>

-----------------------------------------------------------------------------
(* One frame: SessionEntry::pump, then Shell::pump's bookkeeping, then     *)
(* schedule_reconnects.                                                    *)

(* A probe that still runs ends the pump early.                            *)
PumpProbing ==
  /\ Handling
  /\ probe = "running"
  /\ frame' = "schedule"
  /\ UNCHANGED <<transportVars, open, status, cur, prompt, login, suppress,
                 password, probe, retry, attempt, mode, jumpError, focused,
                 batch, exit, approved>>

(* finish_probe opens the transport; the pump then goes on to drain it.    *)
FinishProbe ==
  /\ Handling
  /\ probe = "done"
  /\ probe' = "none"
  /\ StartSsh
  /\ frame' = "drain"
  /\ UNCHANGED <<known, serverKey, open, prompt, login, suppress, password,
                 retry, attempt, mode, jumpError, focused, batch, exit,
                 approved>>

Drain ==
  /\ \/ Handling /\ probe = "none"
     \/ frame = "drain"
  /\ IF cur = NoSlot
     THEN UNCHANGED <<queue, batch>>
     ELSE /\ batch' = queue[cur]
          /\ queue' = [queue EXCEPT ![cur] = << >>]
  /\ frame' = "apply"
  /\ UNCHANGED <<thread, known, serverKey, open, status, cur, prompt, login,
                 suppress, password, probe, retry, attempt, mode, jumpError,
                 focused, exit, approved>>

(* The next event of the batch, when it is of this kind.                   *)
Applying(kind) ==
  /\ frame = "apply"
  /\ batch # << >>
  /\ Head(batch).kind = kind
  /\ batch' = Tail(batch)

ApplyStatus ==
  /\ Applying("Status")
  /\ status' = Head(batch).val
  /\ UNCHANGED <<transportVars, open, cur, prompt, login, suppress, password,
                 probe, retry, attempt, mode, jumpError, focused, frame, exit,
                 approved>>

ApplyHostKeyPrompt ==
  /\ Applying("HostKeyPrompt")
  /\ prompt' = <<Head(batch).hop, Head(batch).key>>
  /\ UNCHANGED <<transportVars, open, status, cur, login, suppress, password,
                 probe, retry, attempt, mode, jumpError, focused, frame, exit,
                 approved>>

(* retry_login prompts again when the password was typed here.             *)
ApplyAuthFailed ==
  /\ Applying("AuthFailed")
  /\ IF login # "none"
     THEN /\ suppress' = TRUE
          /\ PromptLogin
          /\ UNCHANGED exit
     ELSE /\ status' = "Failed"
          /\ exit' = "kept"
          /\ UNCHANGED <<thread, queue, cur, login, suppress>>
  /\ UNCHANGED <<known, serverKey, open, prompt, password, probe, retry,
                 attempt, mode, jumpError, focused, frame, approved>>

(* Slip: a failed transport always keeps its status.                       *)
ClosedStatusKept(end) == IF ByShell(end) THEN "Closed" ELSE status

(* A failed transport keeps its status, unless it was up.                  *)
ClosedStatus(end) ==
  CASE ByShell(end) -> "Closed"
    [] ~ByShell(end) /\ status = "Connected" -> "Disconnected"
    [] OTHER -> status

ApplyClosed ==
  LET end == Head(batch).val
  IN  /\ Applying("Closed")
      /\ IF suppress
         THEN suppress' = FALSE /\ UNCHANGED <<status, prompt, exit>>
         ELSE /\ status' = ClosedStatus(end)
              /\ prompt' = NoPrompt
              /\ exit' = IF ByShell(end) THEN "shell" ELSE "kept"
              /\ UNCHANGED suppress
      /\ UNCHANGED <<transportVars, open, cur, login, password, probe, retry,
                     attempt, mode, jumpError, focused, frame, approved>>

ApplyError ==
  /\ Applying("Error")
  /\ login' = "none"
  /\ suppress' = FALSE
  /\ status' = "Failed"
  /\ exit' = "kept"
  /\ UNCHANGED <<transportVars, open, cur, prompt, password, probe, retry,
                 attempt, mode, jumpError, focused, frame, approved>>

(* The end of pump: a session that is up forgets its failures.  A shell    *)
(* that exited takes its tab with it.                                      *)
Settled == frame = "apply" /\ batch = << >>

SettleExit ==
  /\ Settled
  /\ exit = "shell"
  /\ CloseEntry
  /\ frame' = "idle"
  /\ UNCHANGED <<known, serverKey, mode, focused, batch, approved>>

SettleKept ==
  /\ Settled
  /\ exit # "shell"
  /\ IF status = "Connected"
     THEN attempt' = 0 /\ retry' = "none" /\ login' = "none" /\ suppress' = FALSE
     ELSE UNCHANGED <<attempt, retry, login, suppress>>
  /\ exit' = "none"
  /\ frame' = "schedule"
  /\ UNCHANGED <<transportVars, open, status, cur, prompt, password, probe,
                 mode, jumpError, focused, batch, approved>>

(* schedule_reconnects, one action per way through its loop body.          *)
Scheduling == frame = "schedule" /\ frame' = "idle"

(* Slip: the status is not looked at when the timer is due.                *)
DueWhatever == retry = "due" /\ prompt = NoPrompt

(* Slip: Reconnecting, the state booking leaves behind, is forgotten.      *)
DueForgetful == retry = "due" /\ status \in Retryable \ {"Reconnecting"} /\ prompt = NoPrompt

DueNow == retry = "due" /\ status \in Retryable /\ prompt = NoPrompt

RunRetry ==
  /\ Scheduling
  /\ DueNow
  /\ retry' = "none"
  /\ Restart
  /\ UNCHANGED <<known, serverKey, open, attempt, mode, jumpError, focused,
                 batch, exit, approved>>

DropTimer ==
  /\ Scheduling
  /\ status \notin Retryable
  /\ retry' = "none"
  /\ UNCHANGED <<transportVars, open, status, cur, prompt, login, suppress,
                 password, probe, attempt, mode, jumpError, focused, batch,
                 exit, approved>>

MayBook ==
  /\ status \in Retryable
  /\ retry = "none"
  /\ prompt = NoPrompt
  /\ AllowsRetry(mode, focused)

BookRetry ==
  /\ Scheduling
  /\ MayBook
  /\ attempt' = IF attempt < MaxAttempt THEN attempt + 1 ELSE attempt
  /\ retry' = "booked"
  /\ status' = "Reconnecting"
  /\ UNCHANGED <<transportVars, open, cur, prompt, login, suppress, password,
                 probe, mode, jumpError, focused, batch, exit, approved>>

LeaveTimer ==
  /\ Scheduling
  /\ status \in Retryable
  /\ ~DueNow
  /\ ~MayBook
  /\ UNCHANGED <<transportVars, open, status, cur, prompt, login, suppress,
                 password, probe, retry, attempt, mode, jumpError, focused,
                 batch, exit, approved>>

FrameStep ==
  \/ PumpProbing \/ FinishProbe \/ Drain
  \/ ApplyStatus \/ ApplyHostKeyPrompt \/ ApplyAuthFailed \/ ApplyClosed
  \/ ApplyError
  \/ SettleExit \/ SettleKept
  \/ RunRetry \/ DropTimer \/ BookRetry \/ LeaveTimer

UserStep ==
  \/ \E stored \in BOOLEAN, jump \in JumpErrors : OpenTab(stored, jump)
  \/ CloseTab
  \/ Reconnect
  \/ \E accept \in BOOLEAN : RespondHostKey(accept)
  \/ \E typed \in BOOLEAN : SubmitLogin(typed)
  \/ CancelLogin
  \/ ApplyConnection
  \/ FocusChange

Thread(s) == ThreadStep(s) /\ UNCHANGED tabVars

Rotate == RotateKey /\ UNCHANGED tabVars

Next ==
  \/ FrameStep
  \/ UserStep
  \/ RetryDue
  \/ ProbeAnswers
  \/ \E s \in Slots : Thread(s)
  \/ Rotate

Fairness ==
  /\ WF_vars(FrameStep)
  /\ WF_vars(RetryDue)
  /\ WF_vars(ProbeAnswers)
  /\ \A s \in Slots : WF_vars(ThreadProgress(s) /\ UNCHANGED <<serverKey, tabVars>>)

Spec == Init /\ [][Next]_vars

FairSpec == Spec /\ Fairness

-----------------------------------------------------------------------------
(* Properties.                                                             *)

(* An event of this kind has been sent and not yet applied.                *)
Pending(kind) ==
  \/ \E i \in DOMAIN batch : batch[i].kind = kind
  \/ cur # NoSlot /\ \E i \in DOMAIN queue[cur] : queue[cur][i].kind = kind

(* A host-key banner on screen always belongs to the thread behind the tab *)
(* and shows the very key that thread waits for, or that thread has just   *)
(* given up (timeout) and its Closed is on the way to take the banner      *)
(* down: an answer can never reach a question that was not shown.          *)
PromptIsCurrent ==
  prompt # NoPrompt =>
    /\ cur # NoSlot
    /\ \/ /\ thread[cur].pc = "ask"
          /\ thread[cur].answer = "none"
          /\ prompt = <<thread[cur].hop, thread[cur].key>>
       \/ thread[cur].pc = "hangup"
       \/ Pending("Closed")

(* check_server_key records a key only after the user accepted that key    *)
(* for that host, whatever was dropped, timed out, rotated or restarted in *)
(* between.                                                                *)
OnlyAcceptedKeysRecorded ==
  \A h \in 1..Hops : known[h] # NoKey => <<h, known[h]>> \in approved

(* An automatic reconnect replaces a transport only when it is over or has *)
(* been refused by the user, and never while the user types a password.    *)
RetrySparesLiveTransport ==
  [][RunRetry =>
       /\ login # "active"
       /\ \/ cur = NoSlot
          \/ thread[cur].pc \in {"hangup", "ended"}
          \/ thread[cur].pc = "ask" /\ thread[cur].answer = "no"]_vars

(* Shell::pump closes a tab by itself only when the server ended the       *)
(* session; the app's own Disconnect (SessionEnd::Requested counts as      *)
(* by_shell) never comes back to close the tab that replaced the transport.*)
TabClosesOnlyOnServerEnd ==
  [][SettleExit =>
       /\ cur # NoSlot
       /\ thread[cur].pc = "ended"
       /\ thread[cur].end \in {"Exited", "Closed"}]_vars

(* Between frames a tab that says Connected has a transport, or the news   *)
(* of its end is still in the channel.                                     *)
ConnectedHasTransport ==
  (status = "Connected" /\ frame = "idle") =>
    /\ cur # NoSlot
    /\ \/ thread[cur].pc \in {"tunnels", "open", "shell", "write", "leave", "hangup"}
       \/ Pending("Closed")

(* suppress_close: "True when the next `Closed` event belongs to a rejected *)
(* password and must not end the tab" (crates/wassh/src/app/session.rs:293- *)
(* 294): the Closed it swallows is never that of a session that logged in.  *)
SuppressedCloseWasRejected ==
  [][ApplyClosed /\ suppress => status # "Connected"]_vars

(* reconnect_attempt: "How many reconnects have been attempted since the   *)
(* last successful login".  A tab goes from Connected to Disconnected when *)
(* its transport fails, so the retry booked then is the first one since    *)
(* the login.                                                              *)
AttemptsCountFromLogin ==
  [][( /\ BookRetry
       /\ status = "Disconnected"
       /\ cur # NoSlot /\ thread[cur].pc = "ended" /\ queue[cur] = << >>)
     => attempt' = 1]_vars

(* A tab that stays down under the Always policy keeps trying.             *)
DownTabKeepsTrying ==
  <>[](open /\ status \in Retryable /\ mode = "Always") => []<><<RunRetry>>_vars

(* Once the user stops clicking, an attempt connects, fails, asks for a    *)
(* password or takes its tab with it, whatever was replaced or timed out   *)
(* before; all that can keep it for ever is one call of the login that has *)
(* no timeout and that the server (or the agent) never answers.            *)
Trying == status \in {"Connecting", "Authenticating"} /\ login # "active"

LoginUnanswered == cur # NoSlot /\ thread[cur].pc \in Untimed \ {"write", "leave"}

AttemptsResolve ==
  <>[][~UserStep]_vars => (Trying ~> (~Trying \/ [](Trying /\ LoginUnanswered)))

(* A thread whose handle was dropped ends, unless one of its calls without *)
(* a timeout never returns: a question nobody will answer any more, a      *)
(* session the server keeps open and a Disconnect behind other commands    *)
(* do not keep it.                                                         *)
DroppedThreadsEnd ==
  \A s \in Slots :
    ~thread[s].held ~> (thread[s].pc = "ended" \/ [](thread[s].pc \in Untimed))

-----------------------------------------------------------------------------
(* The inductive strengthening of OnlyAcceptedKeysRecorded.                *)

(* One handle: the thread behind the tab.  A channel nobody reads is empty.*)
HandleInv ==
  /\ \A s \in Slots : thread[s].held <=> s = cur
  /\ \A s \in Slots : s # cur => queue[s] = << >>

(* What the tab holds in each phase of its life.                           *)
PhaseInv ==
  /\ ~open => cur = NoSlot /\ prompt = NoPrompt /\ login = "none" /\ probe = "none"
  /\ login = "active" => cur = NoSlot /\ probe = "none"
  /\ probe # "none" => prompt = NoPrompt
  /\ frame # "idle" => open
  /\ frame \in {"drain", "apply"} => probe = "none"
  /\ frame # "apply" => batch = << >>

(* Thread s stands at this very question and has no answer yet, or gave up.*)
Waits(s, hop, key) ==
  /\ thread[s].pc \in {"ask", "hangup", "ended"}
  /\ thread[s].pc = "ask" =>
       /\ thread[s].answer = "none"
       /\ thread[s].hop = hop
       /\ thread[s].key = key

(* Neither a question nor a rejected password is on its way.               *)
Quiet(q) == \A i \in DOMAIN q : q[i].kind \notin {"HostKeyPrompt", "AuthFailed"}

(* A question on its way is the only one, and s waits for its answer.      *)
AsksOnce(q, s) ==
  \A i \in DOMAIN q :
    q[i].kind = "HostKeyPrompt" =>
      /\ Waits(s, q[i].hop, q[i].key)
      /\ \A j \in DOMAIN q : j # i => q[j].kind \notin {"HostKeyPrompt", "AuthFailed"}

Asks(q) == \E i \in DOMAIN q : q[i].kind = "HostKeyPrompt"

Rejects(q) == \E i \in DOMAIN q : q[i].kind = "AuthFailed"

QuestionInv ==
  /\ cur = NoSlot => prompt = NoPrompt /\ ~Asks(batch)
  /\ cur # NoSlot =>
       /\ AsksOnce(queue[cur], cur)
       /\ AsksOnce(batch, cur)
       /\ Asks(batch) => Quiet(queue[cur])
       /\ Rejects(batch) \/ Rejects(queue[cur]) => thread[cur].pc = "ended"
       /\ prompt # NoPrompt =>
            Quiet(batch) /\ Quiet(queue[cur]) /\ Waits(cur, prompt[1], prompt[2])

(* A yes in the oneshot is the user's answer to the key the thread shows.  *)
AnswerInv ==
  \A s \in Slots :
    (thread[s].pc = "ask" /\ thread[s].answer = "yes")
      => <<thread[s].hop, thread[s].key>> \in approved

(* Who may speak to which thread, which questions are on their way, and    *)
(* what the answers in flight stand for; with it OnlyAcceptedKeysRecorded  *)
(* is inductive.                                                           *)
TrustInv ==
  /\ HandleInv
  /\ PhaseInv
  /\ QuestionInv
  /\ AnswerInv
  /\ OnlyAcceptedKeysRecorded
=============================================================================
