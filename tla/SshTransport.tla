----------------------------- MODULE SshTransport -----------------------------
(***************************************************************************)
(* The background SSH threads of crates/wassh-ssh/src/session.rs.  Every   *)
(* SshSession::connect spawns one thread; the app keeps a handle to it (a  *)
(* command sender, an event receiver and the host-key decision slot) and   *)
(* drops the handle when it opens another transport.  A dropped thread     *)
(* runs on until it notices.                                               *)
(*                                                                         *)
(* A slot is one thread.  A slot whose thread has ended and whose handle   *)
(* is gone is reused, so |Slots| bounds only how many threads exist at     *)
(* once.                                                                   *)
(*                                                                         *)
(* Abstracted away: terminal output (SshEvent::Data only feeds the         *)
(* emulator), keyboard-interactive challenges (the app never selects that  *)
(* method), SFTP/exec/forward requests (they spawn tasks of their own and  *)
(* leave the session loop running).                                        *)
(***************************************************************************)
EXTENDS SessionStatus, Sequences

CONSTANTS Slots,      \* threads that can exist at the same time
          NoSlot,     \* no transport: Backend::Closed
          Hops,       \* connections in the chain: the jump hosts and the target
          Keys,       \* host-key fingerprints
          NoKey,      \* "nothing recorded for this host"
          Tunnels     \* port forwards started before the shell

ASSUME TransportAssumption ==
  /\ Hops \in Nat \ {0}
  /\ Tunnels \in Nat
  /\ NoKey \notin Keys
  /\ NoSlot \notin Slots

VARIABLES thread,     \* [Slots -> Threads]
          queue,      \* [Slots -> Seq(Events)]: the mpsc channel of each handle
          known,      \* the shared KnownHosts: [1..Hops -> Keys \cup {NoKey}]
          serverKey   \* the key each host presents (environment)

transportVars == <<thread, queue, known, serverKey>>

Ends == {"Exited", "Closed", "Failed", "Requested"}

(* Slip: every end counts as the shell's.                                  *)
ByShellAlways(end) == end \in Ends

ByShell(end) == end # "Failed"

(* SshEvent, without the payloads no decision looks at.                    *)
Event(kind, val, hop, key) == [kind |-> kind, val |-> val, hop |-> hop, key |-> key]

StatusEvent(s)        == Event("Status", s, 0, NoKey)
PromptEvent(hop, key) == Event("HostKeyPrompt", "", hop, key)
ClosedEvent(end)      == Event("Closed", end, 0, NoKey)
AuthFailedEvent       == Event("AuthFailed", "", 0, NoKey)
ErrorEvent            == Event("Error", "", 0, NoKey)

Events == {StatusEvent(st) : st \in Statuses}
            \cup {PromptEvent(hop, key) : hop \in 1..Hops, key \in Keys}
            \cup {ClosedEvent(end) : end \in Ends}
            \cup {AuthFailedEvent, ErrorEvent}

(* Where the thread is: most names are the await it stands at.  "reach" is *)
(* the channel through which the next hop is dialled; "write" is a write   *)
(* or a resize ahead of any Disconnect in the command channel; "leave" is  *)
(* handle.disconnect after the select loop.                                *)
PCs == {"start", "begin", "reach", "dial", "ask", "auth", "tunnels", "open",
        "shell", "write", "leave", "hangup", "ended"}

(* hop, key, answer: the connection being made, the fingerprint it showed, *)
(* and the answer sitting in the oneshot.  left: forwards still to start.  *)
(* stop: a Disconnect (or the closed command channel) is waiting.          *)
(* held: the app still owns the handle.                                    *)
Threads == [pc : PCs, hop : 1..Hops, key : Keys \cup {NoKey},
            answer : {"none", "yes", "no"}, left : 0..Tunnels,
            end : Ends, stop : BOOLEAN, held : BOOLEAN]

NewThread == [pc |-> "start", hop |-> 1, key |-> NoKey, answer |-> "none",
              left |-> Tunnels, end |-> "Failed", stop |-> FALSE, held |-> TRUE]

FreeThread == [NewThread EXCEPT !.pc = "ended", !.held = FALSE, !.stop = TRUE]

Free(s) == thread[s] = FreeThread

TransportTypeOK ==
  /\ thread \in [Slots -> Threads]
  /\ queue \in [Slots -> Seq(Events)]
  /\ known \in [1..Hops -> Keys \cup {NoKey}]
  /\ serverKey \in [1..Hops -> Keys]

(* EventSink::send: a receiver that is gone swallows the event.            *)
Send(s, e) ==
  queue' = IF thread[s].held THEN [queue EXCEPT ![s] = Append(@, e)] ELSE queue

TransportInit ==
  /\ thread = [s \in Slots |-> FreeThread]
  /\ queue = [s \in Slots |-> << >>]
  /\ known \in [1..Hops -> Keys \cup {NoKey}]
  /\ serverKey \in [1..Hops -> Keys]

-----------------------------------------------------------------------------
(* One disjunct per outcome the thread can meet at each await.             *)

To(s, pc) == thread' = [thread EXCEPT ![s].pc = pc]

(* A thread that returns leaves nothing behind but its handle, if any.     *)
Finish(s, end) ==
  thread' = [thread EXCEPT ![s] = IF @.held THEN [NewThread EXCEPT !.pc = "ended", !.end = end]
                                  ELSE FreeThread]

(* The Err arm of run for anything but rejected credentials: Error now,    *)
(* Closed next; only russh::Error::Disconnect names the server as the one  *)
(* who ended the session.                                                  *)
Fails(s, ends) ==
  /\ \E end \in ends :
       thread' = [thread EXCEPT ![s] = [@ EXCEPT !.pc = "hangup", !.end = end, !.hop = 1,
                                                 !.key = NoKey, !.answer = "none"]]
  /\ Send(s, ErrorEvent)
  /\ UNCHANGED known

(* The last event of a session, with the end it came to.                   *)
SaysClosed(s) ==
  /\ Finish(s, thread[s].end)
  /\ Send(s, ClosedEvent(thread[s].end))
  /\ UNCHANGED known

HangUp(s) == thread[s].pc = "hangup" /\ SaysClosed(s)

RuntimeFails(s) ==
  /\ thread[s].pc = "start"
  /\ Finish(s, "Failed")
  /\ Send(s, ErrorEvent)
  /\ UNCHANGED known

Start(s) ==
  /\ thread[s].pc = "start"
  /\ To(s, "begin")
  /\ Send(s, StatusEvent("Connecting"))
  /\ UNCHANGED known

BeginChain(s) ==
  /\ thread[s].pc = "begin"
  /\ To(s, "dial")
  /\ Send(s, StatusEvent("Authenticating"))
  /\ UNCHANGED known

(* The Ask policy of check_server_key: the recorded key lets the handshake *)
(* go on, anything else prompts.                                           *)
KeyMatches(s) ==
  /\ thread[s].pc = "dial"
  /\ known[thread[s].hop] = serverKey[thread[s].hop]
  /\ To(s, "auth")
  /\ UNCHANGED <<queue, known>>

AskUser(s) ==
  LET hop == thread[s].hop
      key == serverKey[hop]
  IN  /\ thread[s].pc = "dial"
      /\ known[hop] # key
      /\ thread' = [thread EXCEPT ![s].pc = "ask", ![s].key = key, ![s].answer = "none"]
      /\ Send(s, PromptEvent(hop, key))
      /\ UNCHANGED known

DialFails(s) == thread[s].pc = "dial" /\ Fails(s, {"Closed", "Failed"})

(* Slip: the key is read again when the answer arrives.                    *)
KeyAcceptedReread(s) ==
  /\ thread[s].pc = "ask"
  /\ thread[s].answer = "yes"
  /\ thread' = [thread EXCEPT ![s].pc = "auth", ![s].key = NoKey, ![s].answer = "none"]
  /\ known' = [known EXCEPT ![thread[s].hop] = serverKey[thread[s].hop]]
  /\ UNCHANGED queue

KeyAccepted(s) ==
  /\ thread[s].pc = "ask"
  /\ thread[s].answer = "yes"
  /\ thread' = [thread EXCEPT ![s].pc = "auth", ![s].key = NoKey, ![s].answer = "none"]
  /\ known' = [known EXCEPT ![thread[s].hop] = thread[s].key]
  /\ UNCHANGED queue

(* Slip: the wait for the answer has no timeout.                           *)
KeyRefusedByUser(s) ==
  /\ thread[s].pc = "ask"
  /\ thread[s].answer = "no"
  /\ Fails(s, {"Failed"})

(* A rejection, or one of the two timeouts (120 s for the answer, the      *)
(* connect timeout around the whole handshake).                            *)
KeyRefused(s) ==
  /\ thread[s].pc = "ask"
  /\ Fails(s, {"Failed"})

(* Slip: the chain is walked one hop too far.                              *)
NextHopPastEnd(s) ==
  /\ thread[s].pc = "auth"
  /\ thread[s].hop <= Hops
  /\ thread' = [thread EXCEPT ![s].pc = "reach", ![s].hop = @ + 1]
  /\ Send(s, StatusEvent("Authenticating"))
  /\ UNCHANGED known

NextHop(s) ==
  /\ thread[s].pc = "auth"
  /\ thread[s].hop < Hops
  /\ thread' = [thread EXCEPT ![s].pc = "reach", ![s].hop = @ + 1]
  /\ Send(s, StatusEvent("Authenticating"))
  /\ UNCHANGED known

(* The hop before opens a channel to this one, or does not.                *)
ReachHop(s) ==
  /\ thread[s].pc = "reach"
  /\ To(s, "dial")
  /\ UNCHANGED <<queue, known>>

ReachFails(s) == thread[s].pc = "reach" /\ Fails(s, {"Closed", "Failed"})

TargetReached(s) ==
  /\ thread[s].pc = "auth"
  /\ thread[s].hop = Hops
  /\ To(s, "tunnels")
  /\ UNCHANGED <<queue, known>>

Rejected(s) ==
  /\ thread[s].pc = "auth"
  /\ Finish(s, "Failed")
  /\ Send(s, AuthFailedEvent)
  /\ UNCHANGED known

AuthFails(s) == thread[s].pc = "auth" /\ Fails(s, {"Closed", "Failed"})

(* Every forward reports Connected, whether it came up or not.             *)
StartTunnel(s) ==
  /\ thread[s].pc = "tunnels"
  /\ thread[s].left > 0
  /\ thread' = [thread EXCEPT ![s].left = @ - 1]
  /\ Send(s, StatusEvent("Connected"))
  /\ UNCHANGED known

TunnelsDone(s) ==
  /\ thread[s].pc = "tunnels"
  /\ thread[s].left = 0
  /\ To(s, "open")
  /\ UNCHANGED <<queue, known>>

(* Writes and resizes may have been queued while the shell was coming up.  *)
OpenShell(s) ==
  /\ thread[s].pc = "open"
  /\ \E pc \in {"shell", "write"} : To(s, pc)
  /\ Send(s, StatusEvent("Connected"))
  /\ UNCHANGED known

OpenFails(s) == thread[s].pc = "open" /\ Fails(s, {"Closed", "Failed"})

(* Only the app, through its handle, gives the thread something to write.  *)
BeginWrite(s) ==
  /\ thread[s].pc = "shell"
  /\ thread[s].held
  /\ To(s, "write")
  /\ UNCHANGED <<queue, known>>

(* The last write ahead of a Disconnect, or of the next pause, is through. *)
WriteDone(s) ==
  /\ thread[s].pc = "write"
  /\ To(s, "shell")
  /\ UNCHANGED <<queue, known>>

WriteFails(s) == thread[s].pc = "write" /\ Fails(s, {"Closed", "Failed"})

(* The select loop is left with the reason the session ended.              *)
ShellEnds(s, end) ==
  /\ thread' = [thread EXCEPT ![s].pc = "leave", ![s].end = end]
  /\ UNCHANGED <<queue, known>>

(* Exit status, EOF/close and a vanished connection come from the server,  *)
(* between two writes or when there are none.                              *)
ServerEnds(s) ==
  /\ thread[s].pc \in {"shell", "write"}
  /\ \E end \in {"Exited", "Closed", "Failed"} : ShellEnds(s, end)

StopSeen(s) ==
  /\ thread[s].pc = "shell"
  /\ thread[s].stop
  /\ ShellEnds(s, "Requested")

(* The connection is told goodbye; whether that worked is not looked at.   *)
Leave(s) == thread[s].pc = "leave" /\ SaysClosed(s)

(* The awaits no timeout is put around: they last as long as the server,   *)
(* or the agent asked for a signature, cares to keep the thread waiting,   *)
(* and the command channel is not looked at meanwhile.                     *)
Untimed == {"auth", "reach", "tunnels", "open", "write", "leave"}

(* What the thread is sure to do by itself: the steps that wait for nobody,*)
(* the connect and handshake calls and the question to the user, which     *)
(* carry timeouts, and the select loop, which reads a waiting Disconnect.  *)
ThreadProgress(s) ==
  \/ HangUp(s) \/ RuntimeFails(s) \/ Start(s) \/ BeginChain(s)
  \/ KeyMatches(s) \/ AskUser(s) \/ DialFails(s)
  \/ KeyAccepted(s) \/ KeyRefused(s)
  \/ TunnelsDone(s)
  \/ StopSeen(s)

(* What it does once an await without a timeout returns, or when the       *)
(* server ends the session.                                                *)
ThreadAnswered(s) ==
  \/ NextHop(s) \/ ReachHop(s) \/ ReachFails(s)
  \/ TargetReached(s) \/ Rejected(s) \/ AuthFails(s)
  \/ StartTunnel(s) \/ OpenShell(s) \/ OpenFails(s)
  \/ BeginWrite(s) \/ WriteDone(s) \/ WriteFails(s)
  \/ ServerEnds(s) \/ Leave(s)

ThreadStep(s) ==
  /\ ThreadProgress(s) \/ ThreadAnswered(s)
  /\ UNCHANGED serverKey

(* The administrator of some host replaces its key.                        *)
RotateKey ==
  \E h \in 1..Hops : \E k \in Keys \ {serverKey[h]} :
    /\ serverKey' = [serverKey EXCEPT ![h] = k]
    /\ UNCHANGED <<thread, queue, known>>

-----------------------------------------------------------------------------
(* What the app does through its handle.                                   *)

(* respond_host_key takes the sender out of the slot: only the first       *)
(* answer to a thread that still waits is heard.                           *)
Answer(s, accept) ==
  thread' = IF thread[s].pc = "ask" /\ thread[s].answer = "none"
            THEN [thread EXCEPT ![s].answer = IF accept THEN "yes" ELSE "no"]
            ELSE thread

(* Slip: dropping the handle does not tell the thread.                     *)
DropThreadSilently(s) ==
  IF s = NoSlot THEN thread
  ELSE [thread EXCEPT ![s] = IF @.pc = "ended" THEN FreeThread ELSE [@ EXCEPT !.held = FALSE]]

(* The thread table and the channels once the handle of s is dropped       *)
(* (Drop for SshSession queues a Disconnect and the receiver goes away).   *)
DropThread(s) ==
  IF s = NoSlot THEN thread
  ELSE [thread EXCEPT ![s] = IF @.pc = "ended" THEN FreeThread
                             ELSE [@ EXCEPT !.held = FALSE, !.stop = TRUE]]

DropQueue(s) == IF s = NoSlot THEN queue ELSE [queue EXCEPT ![s] = << >>]

(* SshSession::connect: s is spawned and the handle of old is replaced.    *)
Spawn(old, s) ==
  /\ Free(s)
  /\ thread' = [DropThread(old) EXCEPT ![s] = NewThread]
  /\ queue' = DropQueue(old)

Drop(old) == thread' = DropThread(old) /\ queue' = DropQueue(old)
=============================================================================
