--------------------------- MODULE SessionTabProofs ---------------------------
(***************************************************************************)
(* Machine-checked facts about SessionTab for any number of threads, hops, *)
(* keys and forwards.  First its type invariant, and that a host key is    *)
(* recorded only after the user accepted that key for that host (TrustInv  *)
(* is inductive).  Then how a transport ends and what its tab makes of     *)
(* that: a banner belongs to the question its thread waits on, a tab       *)
(* closes by itself only when the server ended the session, a retry spares *)
(* a transport that is alive, and a tab that says Connected has one.       *)
(* EndInv, on top of TrustInv, is the inductive invariant behind all four. *)
(***************************************************************************)
EXTENDS SessionTab, SequenceTheorems, TLAPS

USE TransportAssumption, TabAssumption

-----------------------------------------------------------------------------
(* Type correctness.                                                       *)

(* The events the threads send are events, and an event of a kind carries  *)
(* what that kind carries.                                                 *)
LEMMA EventTypes ==
  /\ \A st \in Statuses : StatusEvent(st) \in Events
  /\ \A hop \in 1..Hops, key \in Keys : PromptEvent(hop, key) \in Events
  /\ \A end \in Ends : ClosedEvent(end) \in Events
  /\ AuthFailedEvent \in Events
  /\ ErrorEvent \in Events
  BY DEF Events

(* An event of a kind carries what that kind carries.                      *)
LEMMA EventFields ==
  ASSUME NEW e \in Events
  PROVE  /\ e.kind = "Status" => e.val \in Statuses
         /\ e.kind = "HostKeyPrompt" => e.hop \in 1..Hops /\ e.key \in Keys
         /\ e.kind = "Closed" => e.val \in Ends
  <1> USE DEF Event, StatusEvent, PromptEvent, ClosedEvent, AuthFailedEvent, ErrorEvent
  <1>1. CASE \E st \in Statuses : e = StatusEvent(st)
    BY <1>1
  <1>2. CASE \E hop \in 1..Hops : \E key \in Keys : e = PromptEvent(hop, key)
    <2>1. PICK hop \in 1..Hops, key \in Keys : e = PromptEvent(hop, key)
      BY <1>2
    <2>2. e.kind = "HostKeyPrompt" /\ e.hop = hop /\ e.key = key
      BY <2>1
    <2> QED BY <2>1, <2>2
  <1>3. CASE \E end \in Ends : e = ClosedEvent(end)
    BY <1>3
  <1>4. CASE e = AuthFailedEvent
    BY <1>4
  <1>5. CASE e = ErrorEvent
    BY <1>5
  <1> HIDE DEF Event, StatusEvent, PromptEvent, ClosedEvent, AuthFailedEvent, ErrorEvent
  <1> QED BY <1>1, <1>2, <1>3, <1>4, <1>5 DEF Events

(* Sending an event keeps the channels typed.                              *)
LEMMA SendType ==
  ASSUME TransportTypeOK, NEW s \in Slots, NEW e \in Events, Send(s, e)
  PROVE  queue' \in [Slots -> Seq(Events)]
  BY DEF TransportTypeOK, Send

(* The fields of a thread have their types.                                *)
LEMMA ThreadFields ==
  ASSUME TransportTypeOK, NEW s \in Slots
  PROVE  /\ thread[s] \in Threads
         /\ thread[s].pc \in PCs
         /\ thread[s].hop \in 1..Hops
         /\ thread[s].key \in Keys \cup {NoKey}
         /\ thread[s].answer \in {"none", "yes", "no"}
         /\ thread[s].left \in 0..Tunnels
         /\ thread[s].end \in Ends
         /\ thread[s].stop \in BOOLEAN
         /\ thread[s].held \in BOOLEAN
  BY DEF TransportTypeOK, Threads

(* Any thread record may replace any other.                                *)
LEMMA ThreadUpdate ==
  ASSUME TransportTypeOK, NEW s \in Slots, NEW r \in Threads,
         thread' = [thread EXCEPT ![s] = r]
  PROVE  thread' \in [Slots -> Threads]
  BY DEF TransportTypeOK

(* Fresh, free and finished threads are threads.                           *)
LEMMA NewThreadType ==
  /\ NewThread \in Threads
  /\ FreeThread \in Threads
  /\ \A end \in Ends : [NewThread EXCEPT !.pc = "ended", !.end = end] \in Threads
  <1>1. 1 \in 1..Hops /\ Tunnels \in 0..Tunnels
    OBVIOUS
  <1>2. NewThread \in Threads
    BY <1>1 DEF NewThread, Threads, PCs, Ends
  <1>3. FreeThread \in Threads
    BY <1>2 DEF FreeThread, Threads, PCs
  <1>4. \A end \in Ends : [NewThread EXCEPT !.pc = "ended", !.end = end] \in Threads
    BY <1>2 DEF Threads, PCs
  <1> QED BY <1>2, <1>3, <1>4

(* Moving a thread to another await keeps the table typed.                 *)
LEMMA ToType ==
  ASSUME TransportTypeOK, NEW s \in Slots, NEW pc \in PCs, To(s, pc)
  PROVE  thread' \in [Slots -> Threads]
  <1>1. [thread[s] EXCEPT !.pc = pc] \in Threads
    BY ThreadFields DEF Threads
  <1>2. thread' = [thread EXCEPT ![s] = [thread[s] EXCEPT !.pc = pc]]
    BY DEF To
  <1> QED BY <1>1, <1>2, ThreadUpdate

(* So does its return,                                                     *)
LEMMA FinishType ==
  ASSUME TransportTypeOK, NEW s \in Slots, NEW end \in Ends, Finish(s, end)
  PROVE  thread' \in [Slots -> Threads]
  <1> DEFINE r == IF thread[s].held THEN [NewThread EXCEPT !.pc = "ended", !.end = end]
                  ELSE FreeThread
  <1>1. r \in Threads
    BY NewThreadType
  <1>2. thread' = [thread EXCEPT ![s] = r]
    BY DEF Finish
  <1> QED BY <1>1, <1>2, ThreadUpdate

(* Dropping a handle keeps both tables typed.                              *)
LEMMA DropType ==
  ASSUME TransportTypeOK, NEW s \in Slots \cup {NoSlot}
  PROVE  /\ DropThread(s) \in [Slots -> Threads]
         /\ DropQueue(s) \in [Slots -> Seq(Events)]
  <1>1. DropQueue(s) \in [Slots -> Seq(Events)]
    BY DEF DropQueue, TransportTypeOK
  <1>2. CASE s = NoSlot
    BY <1>1, <1>2 DEF DropThread, TransportTypeOK
  <1>3. CASE s \in Slots
    <2> DEFINE r == IF thread[s].pc = "ended" THEN FreeThread
                    ELSE [thread[s] EXCEPT !.held = FALSE, !.stop = TRUE]
    <2>1. r \in Threads
      <3>1. [thread[s] EXCEPT !.held = FALSE, !.stop = TRUE] \in Threads
        BY <1>3, ThreadFields, ZenonT(30) DEF Threads
      <3> QED BY <3>1, NewThreadType
    <2>2. DropThread(s) = [thread EXCEPT ![s] = r]
      BY <1>3 DEF DropThread
    <2> HIDE DEF r
    <2>3. [thread EXCEPT ![s] = r] \in [Slots -> Threads]
      BY <2>1 DEF TransportTypeOK
    <2> QED BY <1>1, <2>2, <2>3
  <1> QED BY <1>2, <1>3

(* A thread that failed is a thread.                                       *)
LEMMA HangupType ==
  ASSUME TransportTypeOK, NEW s \in Slots, NEW end \in Ends
  PROVE  [thread[s] EXCEPT !.pc = "hangup", !.end = end, !.hop = 1, !.key = NoKey,
                           !.answer = "none"] \in Threads
  <1>1. 1 \in 1..Hops
    OBVIOUS
  <1> QED BY <1>1, ThreadFields, ZenonT(30) DEF Threads, PCs

(* So is one that has left its select loop.                                *)
LEMMA LeavesType ==
  ASSUME TransportTypeOK, NEW s \in Slots, NEW end \in Ends
  PROVE  [thread[s] EXCEPT !.pc = "leave", !.end = end] \in Threads
  BY ThreadFields, ZenonT(30) DEF Threads, PCs

(* The Err arm of run keeps the transport typed.                           *)
LEMMA FailsType ==
  ASSUME TransportTypeOK, NEW s \in Slots, NEW ends \in SUBSET Ends, Fails(s, ends),
         UNCHANGED serverKey
  PROVE  TransportTypeOK'
  <1>1. thread' \in [Slots -> Threads]
    <2>1. PICK end \in ends :
            thread' = [thread EXCEPT ![s] = [@ EXCEPT !.pc = "hangup", !.end = end,
                                             !.hop = 1, !.key = NoKey, !.answer = "none"]]
      BY DEF Fails
    <2> QED BY <2>1, HangupType, ThreadUpdate
  <1>2. queue' \in [Slots -> Seq(Events)]
    BY SendType, EventTypes DEF Fails
  <1> QED BY <1>1, <1>2 DEF Fails, TransportTypeOK

(* Every step of a thread keeps the transport typed.                       *)
LEMMA ThreadStepType ==
  ASSUME TransportTypeOK, NEW s \in Slots, ThreadStep(s)
  PROVE  TransportTypeOK'
  <1> USE DEF Statuses, Ends
  <1>0. serverKey' \in [1..Hops -> Keys]
    BY DEF ThreadStep, TransportTypeOK
  <1>1. CASE SaysClosed(s)
    <2>1. thread' \in [Slots -> Threads]
      BY <1>1, ThreadFields, FinishType DEF SaysClosed
    <2>2. queue' \in [Slots -> Seq(Events)]
      BY <1>1, ThreadFields, SendType, EventTypes DEF SaysClosed
    <2> QED BY <1>0, <1>1, <2>1, <2>2 DEF SaysClosed, TransportTypeOK
  <1>2. CASE RuntimeFails(s)
    <2>1. thread' \in [Slots -> Threads]
      BY <1>2, FinishType DEF RuntimeFails
    <2>2. queue' \in [Slots -> Seq(Events)]
      BY <1>2, SendType, EventTypes DEF RuntimeFails
    <2> QED BY <1>0, <1>2, <2>1, <2>2 DEF RuntimeFails, TransportTypeOK
  <1>3. CASE Start(s)
    <2>1. queue' \in [Slots -> Seq(Events)]
      BY <1>3, SendType, EventTypes DEF Start
    <2>2. thread' \in [Slots -> Threads]
      BY <1>3, ToType DEF Start, PCs
    <2> QED BY <1>0, <1>3, <2>1, <2>2 DEF Start, TransportTypeOK
  <1>4. CASE BeginChain(s)
    <2>1. queue' \in [Slots -> Seq(Events)]
      BY <1>4, SendType, EventTypes DEF BeginChain
    <2>2. thread' \in [Slots -> Threads]
      BY <1>4, ToType DEF BeginChain, PCs
    <2> QED BY <1>0, <1>4, <2>1, <2>2 DEF BeginChain, TransportTypeOK
  <1>5. CASE KeyMatches(s)
    BY <1>0, <1>5, ToType DEF KeyMatches, TransportTypeOK, PCs
  <1>6. CASE AskUser(s)
    <2>1. thread[s].hop \in 1..Hops /\ serverKey[thread[s].hop] \in Keys
      BY DEF TransportTypeOK, Threads
    <2>2. queue' \in [Slots -> Seq(Events)]
      BY <1>6, <2>1, SendType, EventTypes DEF AskUser
    <2>3. thread' \in [Slots -> Threads]
      <3> DEFINE r == [thread[s] EXCEPT !.pc = "ask", !.key = serverKey[thread[s].hop],
                                        !.answer = "none"]
      <3>1. r \in Threads
        BY <2>1, ThreadFields, ZenonT(30) DEF Threads, PCs
      <3>2. thread' = [thread EXCEPT ![s] = r]
        BY <1>6 DEF AskUser
      <3> QED BY <3>1, <3>2, ThreadUpdate
    <2> QED BY <1>0, <1>6, <2>2, <2>3 DEF AskUser, TransportTypeOK
  <1>7. CASE KeyAccepted(s)
    <2>1. thread' \in [Slots -> Threads]
      BY <1>7 DEF KeyAccepted, TransportTypeOK, Threads, PCs
    <2>2. known' \in [1..Hops -> Keys \cup {NoKey}]
      BY <1>7 DEF KeyAccepted, TransportTypeOK, Threads
    <2> QED BY <1>0, <1>7, <2>1, <2>2 DEF KeyAccepted, TransportTypeOK
  <1>8. CASE NextHop(s)
    <2>1. queue' \in [Slots -> Seq(Events)]
      BY <1>8, SendType, EventTypes DEF NextHop
    <2>2. thread' \in [Slots -> Threads]
      <3> DEFINE r == [thread[s] EXCEPT !.pc = "reach", !.hop = @ + 1]
      <3>1. thread[s].hop + 1 \in 1..Hops
        BY <1>8, TransportAssumption, ThreadFields DEF NextHop
      <3>2. r \in Threads
        BY <3>1, ThreadFields DEF Threads, PCs
      <3>3. thread' = [thread EXCEPT ![s] = r]
        BY <1>8 DEF NextHop
      <3> QED BY <3>2, <3>3, ThreadUpdate
    <2> QED BY <1>0, <1>8, <2>1, <2>2 DEF NextHop, TransportTypeOK
  <1>9. CASE TargetReached(s)
    BY <1>0, <1>9, ToType DEF TargetReached, TransportTypeOK, PCs
  <1>10. CASE Rejected(s)
    <2>1. thread' \in [Slots -> Threads]
      BY <1>10, FinishType DEF Rejected
    <2>2. queue' \in [Slots -> Seq(Events)]
      BY <1>10, SendType, EventTypes DEF Rejected
    <2> QED BY <1>0, <1>10, <2>1, <2>2 DEF Rejected, TransportTypeOK
  <1>11. CASE StartTunnel(s)
    <2>1. queue' \in [Slots -> Seq(Events)]
      BY <1>11, SendType, EventTypes DEF StartTunnel
    <2>2. thread' \in [Slots -> Threads]
      <3> DEFINE r == [thread[s] EXCEPT !.left = @ - 1]
      <3>1. r \in Threads
        BY <1>11, ThreadFields DEF StartTunnel, Threads
      <3>2. thread' = [thread EXCEPT ![s] = r]
        BY <1>11 DEF StartTunnel
      <3> QED BY <3>1, <3>2, ThreadUpdate
    <2> QED BY <1>0, <1>11, <2>1, <2>2 DEF StartTunnel, TransportTypeOK
  <1>12. CASE TunnelsDone(s)
    BY <1>0, <1>12, ToType DEF TunnelsDone, TransportTypeOK, PCs
  <1>13. CASE OpenShell(s)
    <2>1. queue' \in [Slots -> Seq(Events)]
      BY <1>13, SendType, EventTypes DEF OpenShell
    <2>2. thread' \in [Slots -> Threads]
      BY <1>13, ToType DEF OpenShell, PCs
    <2> QED BY <1>0, <1>13, <2>1, <2>2 DEF OpenShell, TransportTypeOK
  <1>14. CASE \E end \in Ends : ShellEnds(s, end)
    <2>0. PICK end \in Ends : ShellEnds(s, end)
      BY <1>14
    <2>1. thread' = [thread EXCEPT ![s] = [thread[s] EXCEPT !.pc = "leave", !.end = end]]
      BY <2>0 DEF ShellEnds
    <2>2. thread' \in [Slots -> Threads]
      BY <2>1, LeavesType, ThreadUpdate
    <2> QED BY <1>0, <2>0, <2>2 DEF ShellEnds, TransportTypeOK
  <1>15. CASE \E ends \in SUBSET Ends : Fails(s, ends)
    BY <1>0, <1>15, FailsType DEF ThreadStep
  <1>16. CASE ReachHop(s) \/ BeginWrite(s) \/ WriteDone(s)
    BY <1>0, <1>16, ToType DEF ReachHop, BeginWrite, WriteDone, TransportTypeOK, PCs
  <1> QED
    BY <1>1, <1>2, <1>3, <1>4, <1>5, <1>6, <1>7, <1>8, <1>9, <1>10, <1>11, <1>12,
       <1>13, <1>14, <1>15, <1>16
    DEF ThreadStep, ThreadProgress, ThreadAnswered, HangUp, Leave, ServerEnds, WriteFails,
        StopSeen, DialFails, ReachFails, KeyRefused, AuthFails, OpenFails

(* The ways the tab replaces its transport.                                *)
LEMMA SwapType ==
  ASSUME TypeOK
  PROVE  /\ Drop(cur) => /\ thread' \in [Slots -> Threads]
                         /\ queue' \in [Slots -> Seq(Events)]
         /\ StartSsh => /\ thread' \in [Slots -> Threads]
                        /\ queue' \in [Slots -> Seq(Events)]
                        /\ cur' \in Slots \cup {NoSlot}
                        /\ status' \in Statuses
         /\ \A jump \in BOOLEAN : Begin(jump) =>
              /\ thread' \in [Slots -> Threads]
              /\ queue' \in [Slots -> Seq(Events)]
              /\ cur' \in Slots \cup {NoSlot}
              /\ status' \in Statuses
              /\ probe' \in {"none", "running", "done"}
         /\ PromptLogin =>
              /\ thread' \in [Slots -> Threads]
              /\ queue' \in [Slots -> Seq(Events)]
              /\ cur' \in Slots \cup {NoSlot}
              /\ status' \in Statuses
              /\ login' \in {"none", "active", "sent"}
  <1>0. TransportTypeOK /\ cur \in Slots \cup {NoSlot} /\ status \in Statuses
    BY DEF TypeOK, TabTypeOK
  <1>1. Drop(cur) => /\ thread' \in [Slots -> Threads]
                     /\ queue' \in [Slots -> Seq(Events)]
    BY <1>0, DropType DEF Drop
  <1>2. ASSUME NEW s \in Slots, Spawn(cur, s)
        PROVE  thread' \in [Slots -> Threads] /\ queue' \in [Slots -> Seq(Events)]
    <2>1. DropThread(cur) \in [Slots -> Threads] /\ DropQueue(cur) \in [Slots -> Seq(Events)]
      BY <1>0, DropType
    <2> QED BY <1>2, <2>1, NewThreadType DEF Spawn
  <1>3. StartSsh => /\ thread' \in [Slots -> Threads]
                    /\ queue' \in [Slots -> Seq(Events)]
                    /\ cur' \in Slots \cup {NoSlot}
                    /\ status' \in Statuses
    BY <1>1, <1>2 DEF StartSsh, Statuses
  <1>4. ASSUME NEW jump \in BOOLEAN, Begin(jump)
        PROVE  /\ thread' \in [Slots -> Threads]
               /\ queue' \in [Slots -> Seq(Events)]
               /\ cur' \in Slots \cup {NoSlot}
               /\ status' \in Statuses
               /\ probe' \in {"none", "running", "done"}
    BY <1>0, <1>1, <1>3, <1>4 DEF Begin, Statuses, TransportTypeOK
  <1>5. PromptLogin =>
              /\ thread' \in [Slots -> Threads]
              /\ queue' \in [Slots -> Seq(Events)]
              /\ cur' \in Slots \cup {NoSlot}
              /\ status' \in Statuses
              /\ login' \in {"none", "active", "sent"}
    BY <1>1 DEF PromptLogin, Statuses
  <1> QED BY <1>1, <1>3, <1>4, <1>5

(* A restart, prompting or connecting, keeps the tab typed.                *)
LEMMA RestartType ==
  ASSUME TypeOK, Restart
  PROVE  /\ thread' \in [Slots -> Threads]
         /\ queue' \in [Slots -> Seq(Events)]
         /\ cur' \in Slots \cup {NoSlot}
         /\ status' \in Statuses
         /\ prompt' = NoPrompt
         /\ suppress' = FALSE
         /\ probe' \in {"none", "running", "done"}
         /\ login' \in {"none", "active", "sent"}
         /\ password' = password
  <1>1. jumpError \in BOOLEAN
    BY DEF TypeOK, TabTypeOK
  <1>2. CASE PasswordAuth /\ ~password
    BY <1>2, SwapType DEF Restart
  <1>3. CASE ~(PasswordAuth /\ ~password)
    BY <1>1, <1>3, SwapType DEF Restart
  <1> QED BY <1>2, <1>3

(* Closing the tab keeps it typed.                                         *)
LEMMA CloseEntryType ==
  ASSUME TypeOK, CloseEntry, UNCHANGED <<known, serverKey, mode, focused, batch, approved>>,
         frame' \in Frames
  PROVE  TypeOK'
  <1>1. TransportTypeOK'
    BY SwapType DEF CloseEntry, TypeOK, TransportTypeOK
  <1>2. 0 \in 0..MaxAttempt
    OBVIOUS
  <1>3. TabTypeOK'
    BY <1>2 DEF CloseEntry, TypeOK, TabTypeOK, Statuses
  <1> QED BY <1>1, <1>3 DEF TypeOK

(* So do the initial states.                                               *)
LEMMA InitType == Init => TypeOK
  <1> SUFFICES ASSUME Init PROVE TypeOK
    OBVIOUS
  <1>1. TransportTypeOK
    <2>1. thread \in [Slots -> Threads]
      BY NewThreadType DEF Init, TransportInit
    <2>2. queue \in [Slots -> Seq(Events)]
      BY DEF Init, TransportInit
    <2> QED BY <2>1, <2>2 DEF Init, TransportInit, TransportTypeOK
  <1>2. approved \in SUBSET Prompts
    <2>1. \A h \in {g \in 1..Hops : known[g] # NoKey} : <<h, known[h]>> \in Prompts
      BY <1>1 DEF Prompts, TransportTypeOK
    <2> QED BY <2>1 DEF Init
  <1>3. 0 \in 0..MaxAttempt
    OBVIOUS
  <1>4. TabTypeOK
    <2>1. focused \in BOOLEAN /\ mode \in Modes /\ batch \in Seq(Events)
      BY DEF Init
    <2>2. /\ open \in BOOLEAN /\ suppress \in BOOLEAN /\ password \in BOOLEAN
          /\ jumpError \in BOOLEAN /\ attempt \in 0..MaxAttempt
      BY <1>3 DEF Init
    <2>3. /\ status \in Statuses /\ cur \in Slots \cup {NoSlot}
          /\ prompt \in Prompts \cup {NoPrompt} /\ login \in {"none", "active", "sent"}
          /\ probe \in {"none", "running", "done"} /\ retry \in {"none", "booked", "due"}
          /\ frame \in Frames /\ exit \in {"none", "kept", "shell"}
      BY DEF Init, Statuses, Frames
    <2> QED BY <1>2, <2>1, <2>2, <2>3 DEF TabTypeOK
  <1> QED BY <1>1, <1>4 DEF TypeOK

(* The head and the tail of a batch.                                       *)
LEMMA HeadTail ==
  ASSUME TypeOK, batch # << >>
  PROVE  Head(batch) \in Events /\ Tail(batch) \in Seq(Events)
  BY DEF TypeOK, TabTypeOK

(* A step of the UI thread keeps the type invariant.                       *)
LEMMA FrameStepType == TypeOK /\ FrameStep => TypeOK'
  <1> SUFFICES ASSUME TypeOK, FrameStep PROVE TypeOK'
    OBVIOUS
  <1>0. TransportTypeOK /\ (UNCHANGED transportVars => TransportTypeOK')
    BY DEF TypeOK, TransportTypeOK, transportVars
  <1> USE DEF TypeOK, TabTypeOK, Frames
  <1>1. CASE PumpProbing
    BY <1>0, <1>1 DEF PumpProbing
  <1>2. CASE FinishProbe
    <2>1. TransportTypeOK'
      BY <1>0, <1>2, SwapType DEF FinishProbe, TransportTypeOK
    <2> QED BY <1>2, <2>1, SwapType DEF FinishProbe
  <1>3. CASE Drain
    <2>1. CASE cur = NoSlot
      BY <1>0, <1>3, <2>1 DEF Drain, TransportTypeOK
    <2>2. CASE cur # NoSlot
      <3>1. batch' = queue[cur] /\ queue' = [queue EXCEPT ![cur] = << >>]
        BY <1>3, <2>2 DEF Drain
      <3>2. batch' \in Seq(Events) /\ queue' \in [Slots -> Seq(Events)]
        BY <1>0, <2>2, <3>1 DEF TransportTypeOK
      <3>3. TransportTypeOK'
        BY <1>0, <1>3, <3>2 DEF Drain, TransportTypeOK
      <3> QED BY <1>3, <3>2, <3>3 DEF Drain
    <2> QED BY <2>1, <2>2
  <1>4. CASE ApplyStatus
    <2>1. status' \in Statuses /\ batch' \in Seq(Events)
      BY <1>4, HeadTail, EventFields DEF ApplyStatus, Applying
    <2> QED BY <1>0, <1>4, <2>1 DEF ApplyStatus
  <1>5. CASE ApplyHostKeyPrompt
    <2>1. prompt' \in Prompts /\ batch' \in Seq(Events)
      BY <1>5, HeadTail, EventFields DEF ApplyHostKeyPrompt, Applying, Prompts
    <2> QED BY <1>0, <1>5, <2>1 DEF ApplyHostKeyPrompt
  <1>6. CASE ApplyAuthFailed
    <2>1. batch' \in Seq(Events)
      BY <1>6, HeadTail DEF ApplyAuthFailed, Applying
    <2>2. CASE login # "none"
      <3>1. TransportTypeOK'
        BY <1>0, <1>6, <2>2, SwapType DEF ApplyAuthFailed, TransportTypeOK
      <3> QED BY <1>6, <2>1, <2>2, <3>1, SwapType DEF ApplyAuthFailed
    <2>3. CASE login = "none"
      <3>1. TransportTypeOK'
        BY <1>0, <1>6, <2>3 DEF ApplyAuthFailed, TransportTypeOK
      <3> QED BY <1>6, <2>1, <2>3, <3>1 DEF ApplyAuthFailed, Statuses
    <2> QED BY <2>2, <2>3
  <1>7. CASE ApplyClosed
    <2>1. batch' \in Seq(Events)
      BY <1>7, HeadTail DEF ApplyClosed, Applying
    <2>2. /\ status' \in Statuses /\ prompt' \in Prompts \cup {NoPrompt}
          /\ exit' \in {"none", "kept", "shell"} /\ suppress' \in BOOLEAN
      BY <1>7 DEF ApplyClosed, ClosedStatus, Statuses
    <2> QED BY <1>0, <1>7, <2>1, <2>2 DEF ApplyClosed
  <1>8. CASE ApplyError
    <2>1. batch' \in Seq(Events)
      BY <1>8, HeadTail DEF ApplyError, Applying
    <2>2. /\ login' \in {"none", "active", "sent"} /\ suppress' \in BOOLEAN
          /\ exit' \in {"none", "kept", "shell"}
      BY <1>8 DEF ApplyError
    <2>3. status' \in Statuses
      BY <1>8 DEF ApplyError, Statuses
    <2>4. UNCHANGED <<transportVars, open, cur, prompt, password, probe, retry,
                      attempt, mode, jumpError, focused, frame, approved>>
      BY <1>8 DEF ApplyError
    <2> QED BY <1>0, <2>1, <2>2, <2>3, <2>4
  <1>9. CASE SettleExit
    BY <1>9, CloseEntryType DEF SettleExit
  <1>10. CASE SettleKept
    <2>1. 0 \in 0..MaxAttempt
      OBVIOUS
    <2>2. /\ attempt' \in 0..MaxAttempt /\ retry' \in {"none", "booked", "due"}
          /\ login' \in {"none", "active", "sent"} /\ suppress' \in BOOLEAN
      BY <1>10, <2>1 DEF SettleKept
    <2> QED BY <1>0, <1>10, <2>2 DEF SettleKept
  <1>11. CASE RunRetry
    <2>1. TransportTypeOK'
      BY <1>0, <1>11, RestartType DEF RunRetry, TransportTypeOK
    <2>2. /\ cur' \in Slots \cup {NoSlot} /\ status' \in Statuses /\ prompt' = NoPrompt
          /\ suppress' = FALSE /\ probe' \in {"none", "running", "done"}
          /\ login' \in {"none", "active", "sent"} /\ password' = password
      BY <1>11, RestartType DEF RunRetry
    <2>3. /\ UNCHANGED <<open, attempt, mode, jumpError, focused, batch, exit, approved>>
          /\ retry' = "none" /\ frame' = "idle"
      BY <1>11 DEF RunRetry, Scheduling
    <2>4. TabTypeOK'
      BY <2>2, <2>3
    <2> QED BY <2>1, <2>4
  <1>12. CASE DropTimer
    BY <1>0, <1>12 DEF DropTimer, Scheduling
  <1>13. CASE BookRetry
    BY <1>0, <1>13 DEF BookRetry, Scheduling, Statuses
  <1>14. CASE LeaveTimer
    BY <1>0, <1>14 DEF LeaveTimer, Scheduling
  <1> QED BY <1>1, <1>2, <1>3, <1>4, <1>5, <1>6, <1>7, <1>8, <1>9, <1>10, <1>11,
             <1>12, <1>13, <1>14 DEF FrameStep

(* So does everything the user does.                                       *)
LEMMA UserStepType == TypeOK /\ UserStep => TypeOK'
  <1> SUFFICES ASSUME TypeOK, UserStep PROVE TypeOK'
    OBVIOUS
  <1>0. TransportTypeOK /\ (UNCHANGED transportVars => TransportTypeOK')
    BY DEF TypeOK, TransportTypeOK, transportVars
  <1> USE DEF TypeOK, TabTypeOK, Frames
  <1>1. ASSUME NEW stored \in BOOLEAN, NEW jump \in JumpErrors, OpenTab(stored, jump)
        PROVE  TypeOK'
    <2>0. jump \in BOOLEAN
      OBVIOUS
    <2>1. CASE PasswordAuth /\ ~stored /\ ~jump
      <3>1. TransportTypeOK'
        BY <1>0, <1>1, <2>1, SwapType DEF OpenTab, TransportTypeOK
      <3> QED BY <1>1, <2>0, <2>1, <3>1, SwapType DEF OpenTab
    <2>2. CASE ~(PasswordAuth /\ ~stored /\ ~jump)
      <3>1. TransportTypeOK'
        BY <1>0, <1>1, <2>0, <2>2, SwapType DEF OpenTab, TransportTypeOK
      <3> QED BY <1>1, <2>0, <2>2, <3>1, SwapType DEF OpenTab
    <2> QED BY <2>1, <2>2
  <1>2. CASE CloseTab
    BY <1>2, CloseEntryType DEF CloseTab
  <1>3. CASE Reconnect
    <2>1. TransportTypeOK'
      BY <1>0, <1>3, RestartType DEF Reconnect, TransportTypeOK
    <2>2. /\ cur' \in Slots \cup {NoSlot} /\ status' \in Statuses /\ prompt' = NoPrompt
          /\ suppress' = FALSE /\ probe' \in {"none", "running", "done"}
          /\ login' \in {"none", "active", "sent"} /\ password' = password
      BY <1>3, RestartType DEF Reconnect
    <2>3. UNCHANGED <<open, retry, attempt, mode, jumpError, focused, frame, batch, exit,
                      approved>>
      BY <1>3 DEF Reconnect
    <2>4. TabTypeOK'
      BY <2>2, <2>3
    <2> QED BY <2>1, <2>4
  <1>4. ASSUME NEW accept \in BOOLEAN, RespondHostKey(accept)
        PROVE  TypeOK'
    <2>1. thread' \in [Slots -> Threads]
      <3>1. ASSUME cur \in Slots, Answer(cur, accept)
            PROVE  thread' \in [Slots -> Threads]
        <4> DEFINE r == [thread[cur] EXCEPT !.answer = IF accept THEN "yes" ELSE "no"]
        <4>1. r \in Threads
          BY <1>0, <3>1, ThreadFields DEF Threads
        <4>2. thread' = [thread EXCEPT ![cur] = r] \/ thread' = thread
          BY <3>1 DEF Answer
        <4> QED BY <1>0, <3>1, <4>1, <4>2, ThreadUpdate DEF TransportTypeOK
      <3> QED BY <1>0, <1>4, <3>1 DEF RespondHostKey, TransportTypeOK
    <2>2. TransportTypeOK'
      BY <1>0, <1>4, <2>1 DEF RespondHostKey, TransportTypeOK
    <2>3. status' \in Statuses /\ approved' \in SUBSET Prompts
      BY <1>4 DEF RespondHostKey, Statuses
    <2> QED BY <1>4, <2>2, <2>3 DEF RespondHostKey
  <1>5. ASSUME NEW typed \in BOOLEAN, SubmitLogin(typed)
        PROVE  TypeOK'
    <2>1. TransportTypeOK'
      BY <1>0, <1>5, SwapType DEF SubmitLogin, TransportTypeOK
    <2> QED BY <1>5, <2>1, SwapType DEF SubmitLogin
  <1>6. CASE CancelLogin
    <2>1. TransportTypeOK'
      BY <1>0, <1>6, SwapType DEF CancelLogin, TransportTypeOK
    <2>2. status' \in Statuses
      BY <1>6 DEF CancelLogin, Statuses
    <2>3. /\ login' \in {"none", "active", "sent"}
          /\ cur' \in Slots \cup {NoSlot} /\ prompt' \in Prompts \cup {NoPrompt}
          /\ suppress' \in BOOLEAN
      BY <1>6 DEF CancelLogin
    <2>4. UNCHANGED <<open, password, probe, retry, attempt, mode, jumpError, focused,
                      frame, batch, exit, approved>>
      BY <1>6 DEF CancelLogin
    <2> QED BY <2>1, <2>2, <2>3, <2>4
  <1>7. CASE ApplyConnection
    BY <1>0, <1>7 DEF ApplyConnection
  <1>8. CASE FocusChange
    BY <1>0, <1>8 DEF FocusChange
  <1> QED BY <1>1, <1>2, <1>3, <1>4, <1>5, <1>6, <1>7, <1>8 DEF UserStep

(* TypeOK is inductive: no drop, restart, late event or retry takes a      *)
(* field of the tab or of a thread out of its type.                        *)
THEOREM TypeCorrect == Spec => []TypeOK
  <1>1. TypeOK /\ [Next]_vars => TypeOK'
    <2> SUFFICES ASSUME TypeOK, [Next]_vars PROVE TypeOK'
      OBVIOUS
    <2>1. CASE FrameStep
      BY <2>1, FrameStepType
    <2>2. CASE UserStep
      BY <2>2, UserStepType
    <2>3. CASE RetryDue
      BY <2>3 DEF RetryDue, TypeOK, TabTypeOK, TransportTypeOK, transportVars
    <2>4. CASE ProbeAnswers
      BY <2>4 DEF ProbeAnswers, TypeOK, TabTypeOK, TransportTypeOK, transportVars
    <2>5. ASSUME NEW s \in Slots, Thread(s)
          PROVE  TypeOK'
      BY <2>5, ThreadStepType DEF Thread, TypeOK, TabTypeOK, tabVars
    <2>6. CASE Rotate
      BY <2>6 DEF Rotate, RotateKey, TypeOK, TabTypeOK, TransportTypeOK, tabVars
    <2>7. CASE UNCHANGED vars
      BY <2>7 DEF vars, transportVars, tabVars, TypeOK, TabTypeOK, TransportTypeOK
    <2> QED BY <2>1, <2>2, <2>3, <2>4, <2>5, <2>6, <2>7 DEF Next
  <1> QED BY <1>1, InitType, PTL DEF Spec

-----------------------------------------------------------------------------
(* Sequences of events.                                                    *)

(* What is said of every event of a batch is said of its tail.             *)
LEMMA TailEvents ==
  ASSUME NEW q \in Seq(Events), q # << >>
  PROVE  /\ Tail(q) \in Seq(Events)
         /\ 1 \in DOMAIN q /\ Head(q) = q[1]
         /\ \A i \in DOMAIN Tail(q) :
              /\ i + 1 \in DOMAIN q /\ Tail(q)[i] = q[i + 1]
              /\ i + 1 # 1
  OBVIOUS

(* Applying an event of a batch with no question leaves no question.       *)
LEMMA TailQuiet ==
  ASSUME NEW q \in Seq(Events), q # << >>, Quiet(q)
  PROVE  Quiet(Tail(q))
  BY TailEvents DEF Quiet

(* A batch asks whatever its tail asks.                                    *)
LEMMA TailAsks ==
  ASSUME NEW q \in Seq(Events), q # << >>, Asks(Tail(q))
  PROVE  Asks(q)
  BY TailEvents DEF Asks

(* Once the head was the question, nothing is left to ask or reject.       *)
LEMMA TailAsksOnce ==
  ASSUME NEW q \in Seq(Events), q # << >>, NEW s, AsksOnce(q, s)
  PROVE  /\ AsksOnce(Tail(q), s)
         /\ Head(q).kind = "HostKeyPrompt" =>
              Quiet(Tail(q)) /\ Waits(s, Head(q).hop, Head(q).key)
         /\ Head(q).kind = "AuthFailed" => ~Asks(Tail(q))
  <1>1. \A i, j \in DOMAIN Tail(q) : j # i => j + 1 # i + 1
    BY DEF AsksOnce
  <1>2. AsksOnce(Tail(q), s)
    BY <1>1, TailEvents DEF AsksOnce
  <1>3. Head(q).kind = "HostKeyPrompt" =>
              Quiet(Tail(q)) /\ Waits(s, Head(q).hop, Head(q).key)
    BY TailEvents DEF AsksOnce, Quiet
  <1>4. Head(q).kind = "AuthFailed" => ~Asks(Tail(q))
    BY TailEvents DEF AsksOnce, Asks
  <1> QED BY <1>2, <1>3, <1>4

(* Appending one event.                                                    *)
LEMMA AppendEvents ==
  ASSUME NEW q \in Seq(Events), NEW e \in Events
  PROVE  /\ Append(q, e) \in Seq(Events)
         /\ \A i \in DOMAIN Append(q, e) :
              \/ i \in DOMAIN q /\ Append(q, e)[i] = q[i]
              \/ i = Len(q) + 1 /\ Append(q, e)[i] = e
  OBVIOUS

(* No question at all is fine for every thread.                            *)
LEMMA NotAsking ==
  ASSUME NEW q, ~Asks(q), NEW s
  PROVE  AsksOnce(q, s)
  BY DEF Asks, AsksOnce

(* Quiet batches do not ask.                                               *)
LEMMA QuietNotAsking == ASSUME NEW q, Quiet(q) PROVE ~Asks(q)
  BY DEF Quiet, Asks

-----------------------------------------------------------------------------
(* The threads.                                                            *)

(* A step that asks nothing and sends no question and no rejection: it     *)
(* moves on from where nobody asks, or gives up.                           *)
Silent(s) ==
  /\ \E r \in Threads :
       /\ thread' = [thread EXCEPT ![s] = r]
       /\ r.held = thread[s].held
       /\ r.pc # "ask"
       /\ thread[s].pc \in {"ask", "hangup", "ended"} => r.pc \in {"hangup", "ended"}
  /\ thread[s].pc # "ended"
  /\ \/ UNCHANGED queue
     \/ \E e \in Events : e.kind \notin {"HostKeyPrompt", "AuthFailed"} /\ Send(s, e)
  /\ UNCHANGED known

(* The kinds the constructors build.                                       *)
LEMMA EventKindOf ==
  /\ \A st \in Statuses : StatusEvent(st).kind = "Status"
  /\ \A hop \in 1..Hops, key \in Keys :
       /\ PromptEvent(hop, key).kind = "HostKeyPrompt"
       /\ PromptEvent(hop, key).hop = hop
       /\ PromptEvent(hop, key).key = key
  /\ \A end \in Ends : ClosedEvent(end).kind = "Closed"
  /\ AuthFailedEvent.kind = "AuthFailed"
  /\ ErrorEvent.kind = "Error"
  BY DEF Event, StatusEvent, PromptEvent, ClosedEvent, AuthFailedEvent, ErrorEvent

(* Moving on without a message is a silent step.                           *)
LEMMA ToSilent ==
  ASSUME TypeOK, NEW s \in Slots, NEW pc \in PCs \ {"ask"}, To(s, pc),
         thread[s].pc \notin {"ask", "hangup", "ended"}
  PROVE  \E r \in Threads :
           /\ thread' = [thread EXCEPT ![s] = r]
           /\ r.held = thread[s].held
           /\ r.pc # "ask"
           /\ thread[s].pc \in {"ask", "hangup", "ended"} => r.pc \in {"hangup", "ended"}
  <1> DEFINE r == [thread[s] EXCEPT !.pc = pc]
  <1>1. r \in Threads /\ r.held = thread[s].held /\ r.pc = pc
    BY ThreadFields DEF Threads, TypeOK
  <1>2. thread' = [thread EXCEPT ![s] = r]
    BY DEF To
  <1> QED BY <1>1, <1>2

(* So is returning with any event but a rejection,                         *)
LEMMA FinishSilent ==
  ASSUME TypeOK, NEW s \in Slots, NEW end \in Ends, Finish(s, end)
  PROVE  \E r \in Threads :
           /\ thread' = [thread EXCEPT ![s] = r]
           /\ r.held = thread[s].held
           /\ r.pc = "ended"
  <1> DEFINE r == IF thread[s].held THEN [NewThread EXCEPT !.pc = "ended", !.end = end]
                  ELSE FreeThread
  <1>1. r \in Threads
    BY NewThreadType
  <1>2. r.held = thread[s].held /\ r.pc = "ended"
    BY ThreadFields DEF NewThread, FreeThread, TypeOK
  <1>3. thread' = [thread EXCEPT ![s] = r]
    BY DEF Finish
  <1> QED BY <1>1, <1>2, <1>3

(* and leaving through the Err arm of run.                                 *)
LEMMA FailsSilent ==
  ASSUME TypeOK, NEW s \in Slots, NEW ends \in SUBSET Ends, Fails(s, ends),
         thread[s].pc # "ended"
  PROVE  Silent(s)
  <1>1. PICK end \in ends :
          thread' = [thread EXCEPT ![s] = [@ EXCEPT !.pc = "hangup", !.end = end,
                                           !.hop = 1, !.key = NoKey, !.answer = "none"]]
    BY DEF Fails
  <1> DEFINE r == [thread[s] EXCEPT !.pc = "hangup", !.end = end, !.hop = 1,
                                    !.key = NoKey, !.answer = "none"]
  <1>0. TransportTypeOK
    BY DEF TypeOK
  <1>3. r \in Threads
    BY <1>0, HangupType
  <1>5. r.held = thread[s].held /\ r.pc = "hangup"
    BY ThreadFields DEF Threads, TypeOK
  <1>4. thread' = [thread EXCEPT ![s] = r]
    BY <1>1
  <1> QED BY <1>3, <1>4, <1>5, EventTypes, EventKindOf DEF Silent, Fails

(* Every step of a thread is silent, asks, takes a yes or reports a        *)
(* rejected password.                                                      *)
LEMMA ThreadKinds ==
  ASSUME TypeOK, NEW s \in Slots, ThreadStep(s)
  PROVE  Silent(s) \/ AskUser(s) \/ KeyAccepted(s) \/ Rejected(s)
  <1> USE DEF Statuses, Ends
  <1>0. thread[s].end \in Ends /\ TransportTypeOK
    BY ThreadFields DEF TypeOK
  <1>1. CASE thread[s].pc # "ended" /\ SaysClosed(s)
    BY <1>0, <1>1, FinishSilent, EventTypes, EventKindOf DEF SaysClosed, Silent
  <1>2. CASE RuntimeFails(s)
    BY <1>2, FinishSilent, EventTypes, EventKindOf DEF RuntimeFails, Silent
  <1>3. CASE Start(s)
    BY <1>3, ToSilent, EventTypes, EventKindOf DEF Start, Silent, PCs
  <1>4. CASE BeginChain(s)
    BY <1>4, ToSilent, EventTypes, EventKindOf DEF BeginChain, Silent, PCs
  <1>5. CASE KeyMatches(s)
    BY <1>5, ToSilent DEF KeyMatches, Silent, PCs
  <1>6. CASE NextHop(s)
    <2> DEFINE r == [thread[s] EXCEPT !.pc = "reach", !.hop = @ + 1]
    <2>0. thread[s].hop + 1 \in 1..Hops
      BY <1>0, <1>6, ThreadFields DEF NextHop
    <2>1. r \in Threads /\ r.held = thread[s].held /\ r.pc = "reach"
      BY <1>0, <2>0, ThreadFields DEF Threads, PCs
    <2>2. thread' = [thread EXCEPT ![s] = r]
      BY <1>6 DEF NextHop
    <2> QED BY <1>6, <2>1, <2>2, EventTypes, EventKindOf DEF NextHop, Silent
  <1>7. CASE TargetReached(s)
    BY <1>7, ToSilent DEF TargetReached, Silent, PCs
  <1>8. CASE StartTunnel(s)
    <2> DEFINE r == [thread[s] EXCEPT !.left = @ - 1]
    <2>1. r \in Threads /\ r.held = thread[s].held /\ r.pc = "tunnels"
      BY <1>0, <1>8, ThreadFields DEF StartTunnel, Threads, PCs
    <2>2. thread' = [thread EXCEPT ![s] = r]
      BY <1>8 DEF StartTunnel
    <2> QED BY <1>8, <2>1, <2>2, EventTypes, EventKindOf DEF StartTunnel, Silent
  <1>9. CASE TunnelsDone(s)
    BY <1>9, ToSilent DEF TunnelsDone, Silent, PCs
  <1>10. CASE OpenShell(s)
    BY <1>10, ToSilent, EventTypes, EventKindOf DEF OpenShell, Silent, PCs
  <1>11. CASE thread[s].pc \in {"shell", "write"} /\ \E end \in Ends : ShellEnds(s, end)
    <2>0. PICK end \in Ends : ShellEnds(s, end)
      BY <1>11
    <2> DEFINE r == [thread[s] EXCEPT !.pc = "leave", !.end = end]
    <2>1. r \in Threads
      BY <1>0, LeavesType
    <2>2. r.held = thread[s].held /\ r.pc = "leave"
      BY <1>0, ThreadFields DEF Threads
    <2>3. thread' = [thread EXCEPT ![s] = r] /\ UNCHANGED <<queue, known>>
      BY <2>0 DEF ShellEnds
    <2> HIDE DEF r
    <2> QED BY <1>11, <2>1, <2>2, <2>3 DEF Silent
  <1>12. CASE thread[s].pc # "ended" /\ \E ends \in SUBSET Ends : Fails(s, ends)
    BY <1>12, FailsSilent
  <1>13. CASE ReachHop(s) \/ BeginWrite(s) \/ WriteDone(s)
    BY <1>13, ToSilent DEF ReachHop, BeginWrite, WriteDone, Silent, PCs
  <1> QED
    BY <1>1, <1>2, <1>3, <1>4, <1>5, <1>6, <1>7, <1>8, <1>9, <1>10, <1>11, <1>12, <1>13
    DEF ThreadStep, ThreadProgress, ThreadAnswered, HangUp, Leave, ServerEnds, WriteFails,
        StopSeen, DialFails, ReachFails, KeyRefused, AuthFails, OpenFails

(* A silent step leaves every question where it was.                       *)
LEMMA SilentStep ==
  ASSUME TypeOK, TrustInv, NEW s \in Slots, Silent(s), UNCHANGED tabVars
  PROVE  TrustInv'
  <1> USE DEF TypeOK, TransportTypeOK, TabTypeOK
  <1>0. /\ UNCHANGED <<cur, prompt, login, probe, open, frame, batch, approved, known>>
        /\ HandleInv /\ QuestionInv /\ AnswerInv
    BY DEF tabVars, Silent, TrustInv
  <1>1. PICK r \in Threads :
          /\ thread' = [thread EXCEPT ![s] = r]
          /\ r.held = thread[s].held
          /\ r.pc # "ask"
          /\ thread[s].pc \in {"ask", "hangup", "ended"} => r.pc \in {"hangup", "ended"}
    BY DEF Silent
  <1>11. thread[s].pc # "ended"
    BY DEF Silent
  <1>2. \A t \in Slots : thread'[t] = IF t = s THEN r ELSE thread[t]
    BY <1>1
  <1>3. \A t \in Slots :
          \/ queue'[t] = queue[t]
          \/ /\ t = s /\ t = cur
             /\ \E e \in Events : /\ e.kind \notin {"HostKeyPrompt", "AuthFailed"}
                                  /\ queue'[t] = Append(queue[t], e)
    <2>1. CASE UNCHANGED queue
      BY <2>1
    <2>2. ASSUME NEW e \in Events, e.kind \notin {"HostKeyPrompt", "AuthFailed"}, Send(s, e)
          PROVE  \A t \in Slots :
                   queue'[t] = queue[t] \/ (t = s /\ t = cur /\ queue'[t] = Append(queue[t], e))
      BY <1>0, <2>2 DEF Send, HandleInv
    <2> QED BY <2>1, <2>2 DEF Silent
  <1>4. HandleInv'
    BY <1>0, <1>1, <1>2, <1>3 DEF HandleInv
  <1>5. PhaseInv'
    BY <1>0 DEF TrustInv, PhaseInv
  <1>6. AnswerInv'
    BY <1>0, <1>1, <1>2 DEF AnswerInv
  <1>7. ASSUME NEW hop, NEW key, cur # NoSlot, Waits(cur, hop, key)
        PROVE  Waits(cur, hop, key)'
    BY <1>0, <1>1, <1>2, <1>7 DEF Waits
  <1>8. ASSUME cur # NoSlot
        PROVE  /\ AsksOnce(queue[cur], cur)'
               /\ AsksOnce(batch, cur)'
               /\ Quiet(queue[cur]) => Quiet(queue[cur])'
               /\ (Rejects(batch) \/ Rejects(queue[cur]) => thread[cur].pc = "ended")'
    <2>1. cur \in Slots /\ cur' = cur /\ batch' = batch
      BY <1>0, <1>8
    <2>2. AsksOnce(queue[cur], cur) /\ AsksOnce(batch, cur)
      BY <1>0, <1>8 DEF QuestionInv
    <2>3. AsksOnce(batch, cur)'
      BY <1>7, <1>8, <2>1, <2>2 DEF AsksOnce
    <2>4. \A i \in DOMAIN queue'[cur] :
            \/ i \in DOMAIN queue[cur] /\ queue'[cur][i] = queue[cur][i]
            \/ queue'[cur][i].kind \notin {"HostKeyPrompt", "AuthFailed"}
      <3>1. CASE queue'[cur] = queue[cur]
        BY <3>1
      <3>2. ASSUME NEW e \in Events, e.kind \notin {"HostKeyPrompt", "AuthFailed"},
                   queue'[cur] = Append(queue[cur], e)
            PROVE  \A i \in DOMAIN queue'[cur] :
                     \/ i \in DOMAIN queue[cur] /\ queue'[cur][i] = queue[cur][i]
                     \/ queue'[cur][i].kind \notin {"HostKeyPrompt", "AuthFailed"}
        <4>1. queue[cur] \in Seq(Events)
          BY <2>1
        <4> QED BY <3>2, <4>1, AppendEvents
      <3> QED BY <1>3, <2>1, <3>1, <3>2
    <2>5. Quiet(queue[cur]) => Quiet(queue[cur])'
      BY <2>1, <2>4 DEF Quiet
    <2>6. AsksOnce(queue[cur], cur)'
      BY <1>7, <1>8, <2>1, <2>2, <2>4 DEF AsksOnce
    <2>7. (Rejects(batch) \/ Rejects(queue[cur]) => thread[cur].pc = "ended")'
      BY <1>0, <1>1, <1>11, <1>2, <1>8, <2>1, <2>4 DEF QuestionInv, Rejects
    <2> QED BY <2>3, <2>5, <2>6, <2>7
  <1>9. QuestionInv'
    <2>1. CASE cur = NoSlot
      BY <1>0, <2>1 DEF QuestionInv, Asks
    <2>2. CASE cur # NoSlot
      <3>1. Asks(batch)' = Asks(batch) /\ Quiet(batch)' = Quiet(batch)
        BY <1>0 DEF Asks, Quiet
      <3>2. prompt # NoPrompt => Waits(cur, prompt[1], prompt[2])'
        BY <1>0, <1>7, <2>2 DEF QuestionInv, Waits
      <3> QED BY <1>0, <1>8, <2>2, <3>1, <3>2 DEF QuestionInv
    <2> QED BY <2>1, <2>2
  <1>10. OnlyAcceptedKeysRecorded'
    BY <1>0 DEF TrustInv, OnlyAcceptedKeysRecorded
  <1> QED BY <1>4, <1>5, <1>6, <1>9, <1>10 DEF TrustInv

(* Where nobody waits for an answer, no question is anywhere.              *)
LEMMA Unasked ==
  ASSUME TypeOK, QuestionInv, cur # NoSlot,
         \/ thread[cur].pc \notin {"ask", "hangup", "ended"}
         \/ thread[cur].pc = "ask" /\ thread[cur].answer # "none"
  PROVE  ~Asks(queue[cur]) /\ ~Asks(batch) /\ prompt = NoPrompt
  <1>1. \A hop, key : ~Waits(cur, hop, key)
    BY DEF Waits
  <1> QED BY <1>1 DEF QuestionInv, AsksOnce, Asks

(* A thread that asks sends the only question there is.                    *)
LEMMA AskStep ==
  ASSUME TypeOK, TrustInv, NEW s \in Slots, AskUser(s), UNCHANGED tabVars
  PROVE  TrustInv'
  <1> USE DEF TypeOK, TransportTypeOK, TabTypeOK
  <1>0. /\ UNCHANGED <<cur, prompt, login, probe, open, frame, batch, approved, known>>
        /\ HandleInv /\ QuestionInv /\ AnswerInv /\ thread[s].pc = "dial"
    BY DEF tabVars, AskUser, TrustInv
  <1>1. PICK hop \in 1..Hops, key \in Keys : hop = thread[s].hop /\ key = serverKey[hop]
    BY ThreadFields
  <1>10. PICK e : e = PromptEvent(hop, key)
    OBVIOUS
  <1>2. e \in Events /\ e.kind = "HostKeyPrompt" /\ e.hop = hop /\ e.key = key
    BY <1>10, EventTypes, EventKindOf
  <1>3. /\ thread'[s].pc = "ask" /\ thread'[s].answer = "none"
        /\ thread'[s].hop = hop /\ thread'[s].key = key
        /\ thread'[s].held = thread[s].held
        /\ \A t \in Slots \ {s} : thread'[t] = thread[t]
    BY <1>1, ThreadFields DEF AskUser, Threads
  <1>4. /\ \A t \in Slots : t # cur \/ t # s => queue'[t] = queue[t]
        /\ s = cur => queue'[s] = Append(queue[s], e)
    BY <1>0, <1>1, <1>10 DEF AskUser, Send, HandleInv
  <1>5. HandleInv'
    BY <1>0, <1>3, <1>4 DEF HandleInv
  <1>6. PhaseInv'
    BY <1>0 DEF TrustInv, PhaseInv
  <1>7. AnswerInv'
    BY <1>0, <1>3 DEF AnswerInv
  <1>8. OnlyAcceptedKeysRecorded'
    BY <1>0 DEF TrustInv, OnlyAcceptedKeysRecorded
  <1>9. QuestionInv'
    <2>1. CASE cur = NoSlot
      BY <1>0, <2>1 DEF QuestionInv, Asks
    <2>2. CASE cur # NoSlot /\ cur # s
      BY <1>0, <1>3, <1>4, <2>2
      DEF QuestionInv, AsksOnce, Asks, Quiet, Rejects, Waits
    <2>3. CASE cur = s
      <3>1. ~Asks(queue[cur]) /\ ~Asks(batch) /\ prompt = NoPrompt
        BY <1>0, <2>3, Unasked
      <3>2. ~Rejects(queue[cur]) /\ ~Rejects(batch)
        BY <1>0, <2>3 DEF QuestionInv
      <3>3. queue[cur] \in Seq(Events) /\ queue'[cur] = Append(queue[cur], e)
        BY <1>4, <2>3
      <3>4. \A i \in DOMAIN queue'[cur] :
              \/ queue'[cur][i].kind \notin {"HostKeyPrompt", "AuthFailed"}
              \/ i = Len(queue[cur]) + 1 /\ queue'[cur][i] = e
        BY <3>1, <3>2, <3>3, AppendEvents DEF Asks, Rejects
      <3>5. Waits(cur, hop, key)'
        BY <1>0, <1>3, <2>3 DEF Waits
      <3>6. AsksOnce(queue[cur], cur)'
        BY <1>0, <1>2, <3>4, <3>5 DEF AsksOnce
      <3>7. AsksOnce(batch, cur)' /\ ~Asks(batch)'
        BY <1>0, <3>1 DEF Asks, AsksOnce
      <3>8. ~Rejects(batch)' /\ ~Rejects(queue[cur])'
        BY <1>0, <1>2, <3>2, <3>4 DEF Rejects
      <3> QED BY <1>0, <2>3, <3>1, <3>6, <3>7, <3>8 DEF QuestionInv
    <2> QED BY <2>1, <2>2, <2>3
  <1> QED BY <1>5, <1>6, <1>7, <1>8, <1>9 DEF TrustInv

(* A yes is recorded for the key the user saw.                             *)
LEMMA AcceptedStep ==
  ASSUME TypeOK, TrustInv, NEW s \in Slots, KeyAccepted(s), UNCHANGED tabVars
  PROVE  TrustInv'
  <1> USE DEF TypeOK, TransportTypeOK, TabTypeOK
  <1>0. /\ UNCHANGED <<cur, prompt, login, probe, open, frame, batch, approved, queue>>
        /\ HandleInv /\ QuestionInv /\ AnswerInv
        /\ thread[s].pc = "ask" /\ thread[s].answer = "yes"
    BY DEF tabVars, KeyAccepted, TrustInv
  <1>1. /\ thread'[s].pc = "auth"
        /\ thread'[s].held = thread[s].held
        /\ \A t \in Slots \ {s} : thread'[t] = thread[t]
    BY ThreadFields DEF KeyAccepted, Threads
  <1>2. HandleInv'
    BY <1>0, <1>1 DEF HandleInv
  <1>3. PhaseInv'
    BY <1>0 DEF TrustInv, PhaseInv
  <1>4. AnswerInv'
    BY <1>0, <1>1 DEF AnswerInv
  <1>5. OnlyAcceptedKeysRecorded'
    <2>1. <<thread[s].hop, thread[s].key>> \in approved /\ thread[s].hop \in 1..Hops
      BY <1>0, ThreadFields DEF AnswerInv
    <2>2. known' = [known EXCEPT ![thread[s].hop] = thread[s].key]
      BY DEF KeyAccepted
    <2> QED BY <1>0, <2>1, <2>2 DEF TrustInv, OnlyAcceptedKeysRecorded
  <1>6. QuestionInv'
    <2>1. CASE cur = NoSlot
      BY <1>0, <2>1 DEF QuestionInv, Asks
    <2>2. CASE cur # NoSlot /\ cur # s
      BY <1>0, <1>1, <2>2
      DEF QuestionInv, AsksOnce, Asks, Quiet, Rejects, Waits
    <2>3. CASE cur = s
      <3>1. ~Asks(queue[cur]) /\ ~Asks(batch) /\ prompt = NoPrompt
        BY <1>0, <2>3, Unasked
      <3>2. ~Rejects(queue[cur]) /\ ~Rejects(batch)
        BY <1>0, <2>3 DEF QuestionInv
      <3>3. ~Asks(batch)' /\ ~Asks(queue[cur])' /\ ~Rejects(batch)' /\ ~Rejects(queue[cur])'
        BY <1>0, <3>1, <3>2 DEF Asks, Rejects
      <3>4. AsksOnce(batch, cur)' /\ AsksOnce(queue[cur], cur)'
        BY <3>3 DEF Asks, AsksOnce
      <3> QED BY <1>0, <2>3, <3>1, <3>3, <3>4 DEF QuestionInv
    <2> QED BY <2>1, <2>2, <2>3
  <1> QED BY <1>2, <1>3, <1>4, <1>5, <1>6 DEF TrustInv

(* A rejected password comes when no question is open.                     *)
LEMMA RejectedStep ==
  ASSUME TypeOK, TrustInv, NEW s \in Slots, Rejected(s), UNCHANGED tabVars
  PROVE  TrustInv'
  <1> USE DEF TypeOK, TransportTypeOK, TabTypeOK
  <1>0. /\ UNCHANGED <<cur, prompt, login, probe, open, frame, batch, approved, known>>
        /\ HandleInv /\ QuestionInv /\ AnswerInv /\ thread[s].pc = "auth"
    BY DEF tabVars, Rejected, TrustInv
  <1>1. PICK r \in Threads :
          /\ thread' = [thread EXCEPT ![s] = r]
          /\ r.held = thread[s].held
          /\ r.pc = "ended"
    BY FinishSilent DEF Rejected, Ends
  <1>2. /\ thread'[s].pc = "ended" /\ thread'[s].held = thread[s].held
        /\ \A t \in Slots \ {s} : thread'[t] = thread[t]
    BY <1>1
  <1>3. /\ \A t \in Slots : t # cur \/ t # s => queue'[t] = queue[t]
        /\ s = cur => queue'[s] = Append(queue[s], AuthFailedEvent)
    BY <1>0 DEF Rejected, Send, HandleInv
  <1>4. HandleInv'
    BY <1>0, <1>2, <1>3 DEF HandleInv
  <1>5. PhaseInv'
    BY <1>0 DEF TrustInv, PhaseInv
  <1>6. AnswerInv'
    BY <1>0, <1>2 DEF AnswerInv
  <1>7. OnlyAcceptedKeysRecorded'
    BY <1>0 DEF TrustInv, OnlyAcceptedKeysRecorded
  <1>8. QuestionInv'
    <2>1. CASE cur = NoSlot
      BY <1>0, <2>1 DEF QuestionInv, Asks
    <2>2. CASE cur # NoSlot /\ cur # s
      BY <1>0, <1>2, <1>3, <2>2
      DEF QuestionInv, AsksOnce, Asks, Quiet, Rejects, Waits
    <2>3. CASE cur = s
      <3>1. ~Asks(queue[cur]) /\ ~Asks(batch) /\ prompt = NoPrompt
        BY <1>0, <2>3, Unasked
      <3>2. queue[cur] \in Seq(Events) /\ queue'[cur] = Append(queue[cur], AuthFailedEvent)
        BY <1>3, <2>3
      <3>3. ~Asks(queue[cur])' /\ ~Asks(batch)'
        BY <1>0, <3>1, <3>2, AppendEvents, EventTypes, EventKindOf DEF Asks
      <3>4. AsksOnce(batch, cur)' /\ AsksOnce(queue[cur], cur)'
        BY <3>3 DEF Asks, AsksOnce
      <3> QED BY <1>0, <1>2, <2>3, <3>1, <3>3, <3>4 DEF QuestionInv
    <2> QED BY <2>1, <2>2, <2>3
  <1> QED BY <1>4, <1>5, <1>6, <1>7, <1>8 DEF TrustInv

(* Every step of every thread preserves TrustInv.                          *)
LEMMA ThreadTrust ==
  ASSUME TypeOK, TrustInv, NEW s \in Slots, Thread(s)
  PROVE  TrustInv'
  BY ThreadKinds, SilentStep, AskStep, AcceptedStep, RejectedStep DEF Thread

-----------------------------------------------------------------------------
(* Replacing the transport.                                                *)

(* Dropping a handle neither answers for the user nor asks.                *)
LEMMA DropFacts ==
  ASSUME TypeOK, HandleInv, AnswerInv
  PROVE  /\ \A s \in Slots : ~DropThread(cur)[s].held /\ DropQueue(cur)[s] = << >>
         /\ \A s \in Slots :
              (DropThread(cur)[s].pc = "ask" /\ DropThread(cur)[s].answer = "yes")
                => <<DropThread(cur)[s].hop, DropThread(cur)[s].key>> \in approved
  <1> USE DEF TypeOK, TransportTypeOK, TabTypeOK
  <1>1. CASE cur = NoSlot
    BY <1>1, ThreadFields DEF DropThread, DropQueue, HandleInv, AnswerInv
  <1>2. CASE cur \in Slots
    <2> DEFINE r == IF thread[cur].pc = "ended" THEN FreeThread
                    ELSE [thread[cur] EXCEPT !.held = FALSE, !.stop = TRUE]
    <2>1. ~r.held
      BY <1>2, ThreadFields DEF FreeThread, NewThread, Threads
    <2>2. r.pc = "ask" => /\ thread[cur].pc = "ask" /\ r.answer = thread[cur].answer
                          /\ r.hop = thread[cur].hop /\ r.key = thread[cur].key
      BY <1>2, ThreadFields DEF FreeThread, NewThread, Threads
    <2>3. \A s \in Slots : DropThread(cur)[s] = IF s = cur THEN r ELSE thread[s]
      BY <1>2 DEF DropThread
    <2>4. \A s \in Slots : DropQueue(cur)[s] = << >>
      BY <1>2 DEF DropQueue, HandleInv
    <2> HIDE DEF r
    <2> QED BY <2>1, <2>2, <2>3, <2>4, ThreadFields DEF HandleInv, AnswerInv
  <1> QED BY <1>1, <1>2

(* No transport: nothing is asked.                                         *)
LEMMA DropTrust ==
  ASSUME TypeOK, HandleInv, AnswerInv, Drop(cur), cur' = NoSlot, prompt' = NoPrompt,
         ~Asks(batch)', UNCHANGED approved
  PROVE  HandleInv' /\ AnswerInv' /\ QuestionInv'
  <1>1. thread' = DropThread(cur) /\ queue' = DropQueue(cur)
    BY DEF Drop
  <1>2. HandleInv'
    BY <1>1, DropFacts DEF HandleInv
  <1>3. AnswerInv'
    BY <1>1, DropFacts DEF AnswerInv
  <1> QED BY <1>2, <1>3 DEF QuestionInv

(* A new transport has said nothing yet.                                   *)
LEMMA SpawnTrust ==
  ASSUME TypeOK, HandleInv, AnswerInv, NEW s \in Slots, Spawn(cur, s), cur' = s,
         prompt' = NoPrompt, batch' = << >>, UNCHANGED approved
  PROVE  HandleInv' /\ AnswerInv' /\ QuestionInv'
  <1>0. DropThread(cur) \in [Slots -> Threads]
    BY DropType DEF TypeOK, TabTypeOK
  <1>1. /\ thread'[s] = NewThread
        /\ \A t \in Slots \ {s} : thread'[t] = DropThread(cur)[t]
        /\ queue' = DropQueue(cur)
    BY <1>0 DEF Spawn
  <1>2. NewThread.held /\ NewThread.pc = "start"
    BY DEF NewThread
  <1>3. HandleInv'
    BY <1>1, <1>2, DropFacts DEF HandleInv
  <1>4. AnswerInv'
    BY <1>1, <1>2, DropFacts DEF AnswerInv
  <1>5. queue'[cur'] = << >>
    BY <1>1, DropFacts
  <1>6. QuestionInv'
    BY <1>5 DEF QuestionInv, AsksOnce, Asks, Quiet, Rejects, TypeOK
  <1> QED BY <1>3, <1>4, <1>6

(* start_ssh: nothing is asked by the new transport, nor by none.          *)
LEMMA StartTrust ==
  ASSUME TypeOK, HandleInv, AnswerInv, StartSsh, prompt' = NoPrompt, batch' = << >>,
         UNCHANGED approved
  PROVE  HandleInv' /\ AnswerInv' /\ QuestionInv'
  <1>1. ~Asks(batch)'
    BY DEF Asks
  <1> QED BY <1>1, DropTrust, SpawnTrust DEF StartSsh

(* begin leaves a banner-less tab in a state where nothing is asked.       *)
LEMMA BeginTrust ==
  ASSUME TypeOK, TrustInv, NEW jump \in BOOLEAN, Begin(jump), prompt' = NoPrompt,
         batch' = << >>, batch = << >>, UNCHANGED approved
  PROVE  /\ HandleInv' /\ AnswerInv' /\ QuestionInv'
         /\ probe' \in {"none", "running"}
  <1>0. HandleInv /\ AnswerInv /\ QuestionInv
    BY DEF TrustInv
  <1>1. ~Asks(batch)'
    BY DEF Asks
  <1>2. CASE jump
    BY <1>0, <1>1, <1>2, DropTrust DEF Begin
  <1>3. CASE ~jump /\ RemoteSession
    <2>1. UNCHANGED <<thread, queue, cur, batch>> /\ probe' = "running"
      BY <1>3 DEF Begin
    <2>2. HandleInv' /\ AnswerInv'
      BY <1>0, <2>1 DEF HandleInv, AnswerInv
    <2>3. QuestionInv'
      BY <1>0, <2>1 DEF QuestionInv, AsksOnce, Asks, Quiet, Rejects, Waits
    <2> QED BY <2>1, <2>2, <2>3
  <1>4. CASE ~jump /\ ~RemoteSession
    BY <1>0, <1>4, StartTrust DEF Begin
  <1> QED BY <1>2, <1>3, <1>4

(* prompt_login lets the transport go.                                     *)
LEMMA PromptLoginTrust ==
  ASSUME TypeOK, TrustInv, PromptLogin, prompt' = NoPrompt, ~Asks(batch)',
         UNCHANGED approved
  PROVE  HandleInv' /\ AnswerInv' /\ QuestionInv' /\ cur' = NoSlot
  BY DropTrust DEF PromptLogin, TrustInv

(* restart preserves TrustInv: it takes the banner down with its thread.   *)
LEMMA RestartTrust ==
  ASSUME TypeOK, TrustInv, Restart, frame # "apply", open,
         UNCHANGED <<known, approved, batch, open>>, frame' \in {"idle", "schedule"}
  PROVE  TrustInv'
  <1>1. batch = << >> /\ batch' = << >> /\ prompt' = NoPrompt /\ ~Asks(batch)'
    BY DEF TrustInv, PhaseInv, Restart, Asks
  <1>2. /\ HandleInv' /\ AnswerInv' /\ QuestionInv'
        /\ login' = "active" => cur' = NoSlot /\ probe' = "none"
    <2>1. CASE PasswordAuth /\ ~password
      BY <1>1, <2>1, PromptLoginTrust DEF Restart
    <2>2. CASE ~(PasswordAuth /\ ~password)
      BY <1>1, <2>2, BeginTrust DEF Restart, TypeOK, TabTypeOK
    <2> QED BY <2>1, <2>2
  <1>3. PhaseInv'
    BY <1>1, <1>2 DEF PhaseInv
  <1>4. OnlyAcceptedKeysRecorded'
    BY DEF TrustInv, OnlyAcceptedKeysRecorded
  <1> QED BY <1>2, <1>3, <1>4 DEF TrustInv

(* Closing a tab preserves TrustInv.                                       *)
LEMMA CloseTrust ==
  ASSUME TypeOK, TrustInv, CloseEntry, batch = << >>, UNCHANGED <<known, approved, batch>>,
         frame' = "idle"
  PROVE  TrustInv'
  <1>1. ~Asks(batch)'
    BY DEF Asks
  <1>2. HandleInv' /\ AnswerInv' /\ QuestionInv'
    BY <1>1, DropTrust DEF CloseEntry, TrustInv
  <1>3. PhaseInv'
    BY DEF CloseEntry, PhaseInv
  <1>4. OnlyAcceptedKeysRecorded'
    BY DEF TrustInv, OnlyAcceptedKeysRecorded
  <1> QED BY <1>2, <1>3, <1>4 DEF TrustInv

-----------------------------------------------------------------------------
(* The UI thread.                                                          *)

(* Steps that leave the transport, the banner and the batch alone.         *)
LEMMA BystanderTrust ==
  ASSUME TypeOK, TrustInv,
         UNCHANGED <<thread, queue, known, cur, prompt, batch, approved>>, PhaseInv'
  PROVE  TrustInv'
  BY DEF TrustInv, HandleInv, QuestionInv, AsksOnce, Asks, Quiet, Rejects, Waits,
         AnswerInv, OnlyAcceptedKeysRecorded

(* Applying an event that neither asks nor rejects.                        *)
LEMMA ApplyTrust ==
  ASSUME TypeOK, TrustInv, batch # << >>, batch' = Tail(batch),
         UNCHANGED <<thread, queue, known, cur, approved>>,
         prompt' \in {prompt, NoPrompt}, PhaseInv'
  PROVE  TrustInv'
  <1> USE DEF TypeOK, TabTypeOK
  <1>0. QuestionInv /\ batch \in Seq(Events)
    BY DEF TrustInv
  <1>1. HandleInv' /\ AnswerInv' /\ OnlyAcceptedKeysRecorded'
    BY DEF TrustInv, HandleInv, AnswerInv, OnlyAcceptedKeysRecorded
  <1>2. CASE cur = NoSlot
    <2>1. prompt = NoPrompt /\ ~Asks(batch)
      BY <1>0, <1>2 DEF QuestionInv
    <2>2. ~Asks(Tail(batch))
      BY <1>0, <2>1, TailAsks
    <2>3. ~Asks(batch)' /\ prompt' = NoPrompt /\ cur' = NoSlot
      BY <1>2, <2>1, <2>2 DEF Asks
    <2>4. QuestionInv'
      BY <2>3 DEF QuestionInv
    <2> QED BY <1>1, <2>4 DEF TrustInv
  <1>3. CASE cur # NoSlot
    <2>1. AsksOnce(queue[cur], cur)' /\ AsksOnce(batch, cur)'
      BY <1>0, <1>3, TailAsksOnce DEF QuestionInv, AsksOnce, Waits
    <2>2. (Asks(batch) => Quiet(queue[cur]))'
      BY <1>0, <1>3, TailAsks DEF QuestionInv, Asks, Quiet
    <2>3. (Rejects(batch) \/ Rejects(queue[cur]) => thread[cur].pc = "ended")'
      BY <1>0, <1>3, TailEvents DEF QuestionInv, Rejects
    <2>4. (prompt # NoPrompt =>
             Quiet(batch) /\ Quiet(queue[cur]) /\ Waits(cur, prompt[1], prompt[2]))'
      BY <1>0, <1>3, TailQuiet DEF QuestionInv, Quiet, Waits
    <2> QED BY <1>1, <1>3, <2>1, <2>2, <2>3, <2>4 DEF TrustInv, QuestionInv
  <1> QED BY <1>1, <1>2, <1>3 DEF TrustInv, QuestionInv

(* Draining the channel moves its one question into the batch.             *)
LEMMA DrainTrust ==
  ASSUME TypeOK, TrustInv, Drain
  PROVE  TrustInv'
  <1> USE DEF TypeOK, TransportTypeOK, TabTypeOK
  <1>0. /\ UNCHANGED <<thread, known, cur, prompt, login, probe, open, approved>>
        /\ frame' = "apply" /\ batch = << >> /\ open /\ probe = "none"
        /\ HandleInv /\ QuestionInv
    BY DEF Drain, Handling, TrustInv, PhaseInv
  <1>1. PhaseInv'
    BY <1>0 DEF TrustInv, PhaseInv
  <1>2. AnswerInv' /\ OnlyAcceptedKeysRecorded'
    BY <1>0 DEF TrustInv, AnswerInv, OnlyAcceptedKeysRecorded
  <1>3. CASE cur = NoSlot
    <2>1. UNCHANGED <<queue, batch>>
      BY <1>3 DEF Drain
    <2> QED BY <1>0, <1>1, <2>1, BystanderTrust
  <1>4. CASE cur # NoSlot
    <2>1. cur \in Slots /\ batch' = queue[cur] /\ queue' = [queue EXCEPT ![cur] = << >>]
      BY <1>4 DEF Drain
    <2>2. HandleInv'
      BY <1>0, <2>1 DEF HandleInv
    <2>3. queue'[cur] = << >> /\ cur' = cur
      BY <1>0, <2>1
    <2>4. QuestionInv'
      BY <1>0, <1>4, <2>1, <2>3 DEF QuestionInv, AsksOnce, Asks, Quiet, Rejects, Waits
    <2> QED BY <1>1, <1>2, <2>2, <2>4 DEF TrustInv
  <1> QED BY <1>3, <1>4

(* The banner that goes up is the question its thread waits on.            *)
LEMMA ApplyPromptTrust ==
  ASSUME TypeOK, TrustInv, ApplyHostKeyPrompt
  PROVE  TrustInv'
  <1> USE DEF TypeOK, TabTypeOK
  <1> DEFINE e == Head(batch)
  <1>0. /\ batch # << >> /\ batch' = Tail(batch) /\ e.kind = "HostKeyPrompt"
        /\ prompt' = <<e.hop, e.key>>
        /\ UNCHANGED <<thread, queue, known, cur, login, probe, open, frame, approved>>
        /\ frame = "apply" /\ QuestionInv /\ PhaseInv
    BY DEF ApplyHostKeyPrompt, Applying, transportVars, TrustInv
  <1>1. Asks(batch)
    BY <1>0, TailEvents DEF Asks
  <1>2. cur # NoSlot /\ AsksOnce(batch, cur) /\ Quiet(queue[cur])
    BY <1>0, <1>1 DEF QuestionInv
  <1>3. Quiet(Tail(batch)) /\ Waits(cur, e.hop, e.key)
    BY <1>0, <1>2, TailAsksOnce
  <1>4. PhaseInv'
    BY <1>0 DEF PhaseInv
  <1>5. HandleInv' /\ AnswerInv' /\ OnlyAcceptedKeysRecorded'
    BY <1>0 DEF TrustInv, HandleInv, AnswerInv, OnlyAcceptedKeysRecorded
  <1>6. prompt'[1] = e.hop /\ prompt'[2] = e.key
    BY <1>0
  <1>7. QuestionInv'
    <2>1. Quiet(batch)' /\ Quiet(queue[cur])'
      BY <1>0, <1>2, <1>3 DEF Quiet
    <2>2. Waits(cur, prompt[1], prompt[2])'
      BY <1>0, <1>3, <1>6 DEF Waits
    <2> QED BY <1>0, <1>2, <2>1, <2>2 DEF QuestionInv, AsksOnce, Asks, Quiet, Rejects
  <1> QED BY <1>4, <1>5, <1>7 DEF TrustInv

(* A rejection finds no question and no banner.                            *)
LEMMA ApplyAuthFailedTrust ==
  ASSUME TypeOK, TrustInv, ApplyAuthFailed
  PROVE  TrustInv'
  <1> USE DEF TypeOK, TabTypeOK
  <1>0. /\ batch # << >> /\ batch' = Tail(batch) /\ Head(batch).kind = "AuthFailed"
        /\ UNCHANGED <<known, prompt, probe, open, frame, approved>>
        /\ frame = "apply" /\ QuestionInv /\ PhaseInv
    BY DEF ApplyAuthFailed, Applying, TrustInv
  <1>1. CASE login # "none"
    <2>1. ~Quiet(batch)
      BY <1>0, TailEvents DEF Quiet
    <2>2. prompt = NoPrompt
      BY <1>0, <2>1 DEF QuestionInv
    <2>3. ~Asks(Tail(batch))
      BY <1>0, TailAsks, TailAsksOnce DEF QuestionInv
    <2>4. ~Asks(batch)' /\ prompt' = NoPrompt
      BY <1>0, <2>2, <2>3 DEF Asks
    <2>5. PromptLogin /\ UNCHANGED approved
      BY <1>1 DEF ApplyAuthFailed
    <2>6. HandleInv' /\ AnswerInv' /\ QuestionInv' /\ cur' = NoSlot
      BY <2>4, <2>5, PromptLoginTrust
    <2>7. PhaseInv'
      BY <1>0, <2>2, <2>6 DEF PhaseInv
    <2>8. OnlyAcceptedKeysRecorded'
      BY <1>0 DEF TrustInv, OnlyAcceptedKeysRecorded
    <2> QED BY <2>6, <2>7, <2>8 DEF TrustInv
  <1>2. CASE login = "none"
    <2>1. UNCHANGED <<thread, queue, cur, login>>
      BY <1>2 DEF ApplyAuthFailed
    <2>2. PhaseInv'
      BY <1>0, <2>1 DEF PhaseInv
    <2> QED BY <1>0, <2>1, <2>2, ApplyTrust
  <1> QED BY <1>1, <1>2

(* The answer goes to the thread that showed the key, and to that key.     *)
LEMMA RespondTrust ==
  ASSUME TypeOK, TrustInv, NEW accept \in BOOLEAN, RespondHostKey(accept)
  PROVE  TrustInv'
  <1> USE DEF TypeOK, TransportTypeOK, TabTypeOK
  <1>0. /\ prompt # NoPrompt /\ prompt' = NoPrompt /\ frame = "idle" /\ open
        /\ UNCHANGED <<queue, known, cur, login, probe, open, frame, batch>>
        /\ approved' = IF accept THEN approved \cup {prompt} ELSE approved
        /\ HandleInv /\ PhaseInv /\ QuestionInv /\ AnswerInv
    BY DEF RespondHostKey, Handling, TrustInv
  <1>1. /\ cur \in Slots /\ Quiet(batch) /\ Quiet(queue[cur])
        /\ Waits(cur, prompt[1], prompt[2])
    BY <1>0 DEF QuestionInv
  <1>2. Answer(cur, accept)
    BY <1>1 DEF RespondHostKey
  <1>3. /\ thread'[cur].pc = thread[cur].pc
        /\ thread'[cur].held = thread[cur].held
        /\ thread'[cur].hop = thread[cur].hop
        /\ thread'[cur].key = thread[cur].key
        /\ (thread'[cur].answer = "yes" /\ thread[cur].pc = "ask") => accept
        /\ \A s \in Slots \ {cur} : thread'[s] = thread[s]
    BY <1>1, <1>2, ThreadFields DEF Answer, Threads, Waits
  <1>4. prompt = <<prompt[1], prompt[2]>>
    BY <1>0 DEF Prompts
  <1>5. HandleInv'
    BY <1>0, <1>3 DEF HandleInv
  <1>6. PhaseInv'
    BY <1>0 DEF PhaseInv
  <1>7. QuestionInv'
    <2>1. Quiet(batch)' /\ Quiet(queue[cur])'
      BY <1>0, <1>1 DEF Quiet
    <2>2. (Rejects(batch) \/ Rejects(queue[cur]) => thread[cur].pc = "ended")'
      BY <2>1 DEF Quiet, Rejects
    <2>3. AsksOnce(batch, cur)' /\ AsksOnce(queue[cur], cur)'
      BY <2>1 DEF Quiet, AsksOnce
    <2>4. ~Asks(batch)'
      BY <2>1 DEF Quiet, Asks
    <2> QED BY <1>0, <1>1, <2>1, <2>2, <2>3, <2>4 DEF QuestionInv
  <1>8. AnswerInv'
    <2> SUFFICES ASSUME NEW s \in Slots, thread'[s].pc = "ask", thread'[s].answer = "yes"
                 PROVE  <<thread'[s].hop, thread'[s].key>> \in approved'
      BY DEF AnswerInv
    <2>1. CASE s = cur
      BY <1>0, <1>1, <1>3, <1>4, <2>1 DEF Waits
    <2>2. CASE s # cur
      BY <1>0, <1>3, <2>2 DEF AnswerInv
    <2> QED BY <2>1, <2>2
  <1>9. OnlyAcceptedKeysRecorded'
    BY <1>0 DEF TrustInv, OnlyAcceptedKeysRecorded
  <1> QED BY <1>5, <1>6, <1>7, <1>8, <1>9 DEF TrustInv

(* A new tab starts without questions.                                     *)
LEMMA OpenTrust ==
  ASSUME TypeOK, TrustInv, NEW stored \in BOOLEAN, NEW jump \in BOOLEAN,
         OpenTab(stored, jump)
  PROVE  TrustInv'
  <1>0. /\ ~open /\ frame = "idle" /\ open' /\ prompt' = prompt
        /\ UNCHANGED <<known, frame, batch, approved>>
        /\ PhaseInv
    BY DEF OpenTab, TrustInv
  <1>1. /\ batch = << >> /\ batch' = << >> /\ prompt' = NoPrompt
        /\ login = "none" /\ probe = "none"
    BY <1>0 DEF PhaseInv
  <1>2. ~Asks(batch)'
    BY <1>1 DEF Asks
  <1>3. /\ HandleInv' /\ AnswerInv' /\ QuestionInv'
        /\ login' = "active" => cur' = NoSlot /\ probe' = "none"
    <2>1. CASE PasswordAuth /\ ~stored /\ ~jump
      <3>1. PromptLogin /\ UNCHANGED <<probe, approved>>
        BY <2>1 DEF OpenTab
      <3> QED BY <1>1, <1>2, <3>1, PromptLoginTrust
    <2>2. CASE ~(PasswordAuth /\ ~stored /\ ~jump)
      <3>1. Begin(jump) /\ UNCHANGED <<login, approved>>
        BY <2>2 DEF OpenTab
      <3> QED BY <1>1, <3>1, BeginTrust
    <2> QED BY <2>1, <2>2
  <1>4. PhaseInv'
    BY <1>0, <1>1, <1>3 DEF PhaseInv
  <1>5. OnlyAcceptedKeysRecorded'
    BY <1>0 DEF TrustInv, OnlyAcceptedKeysRecorded
  <1> QED BY <1>3, <1>4, <1>5 DEF TrustInv

(* While the password is typed there is no transport and no banner.        *)
LEMMA SubmitTrust ==
  ASSUME TypeOK, TrustInv, NEW typed \in BOOLEAN, SubmitLogin(typed)
  PROVE  TrustInv'
  <1>0. /\ open /\ frame = "idle" /\ login = "active" /\ login' = "sent"
        /\ UNCHANGED <<known, open, prompt, frame, batch, approved>>
        /\ Begin(jumpError) /\ jumpError \in BOOLEAN
        /\ PhaseInv /\ QuestionInv
    BY DEF SubmitLogin, Handling, TrustInv, TypeOK, TabTypeOK
  <1>1. batch = << >> /\ batch' = << >> /\ prompt' = NoPrompt
    BY <1>0 DEF PhaseInv, QuestionInv
  <1>2. HandleInv' /\ AnswerInv' /\ QuestionInv'
    BY <1>0, <1>1, BeginTrust
  <1>3. PhaseInv'
    BY <1>0, <1>1 DEF PhaseInv
  <1>4. OnlyAcceptedKeysRecorded'
    BY <1>0 DEF TrustInv, OnlyAcceptedKeysRecorded
  <1> QED BY <1>2, <1>3, <1>4 DEF TrustInv

(* Cancelling the password prompt preserves TrustInv.                      *)
LEMMA CancelTrust ==
  ASSUME TypeOK, TrustInv, CancelLogin
  PROVE  TrustInv'
  <1>0. /\ open /\ frame = "idle" /\ login' = "none" /\ login = "active"
        /\ UNCHANGED <<known, open, probe, frame, batch, approved>>
        /\ Drop(cur) /\ cur' = NoSlot /\ prompt' = NoPrompt
        /\ HandleInv /\ AnswerInv /\ PhaseInv
    BY DEF CancelLogin, Handling, TrustInv
  <1>1. ~Asks(batch)'
    BY <1>0 DEF PhaseInv, Asks
  <1>2. HandleInv' /\ AnswerInv' /\ QuestionInv'
    BY <1>0, <1>1, DropTrust
  <1>3. PhaseInv'
    BY <1>0 DEF PhaseInv
  <1>4. OnlyAcceptedKeysRecorded'
    BY <1>0 DEF TrustInv, OnlyAcceptedKeysRecorded
  <1> QED BY <1>2, <1>3, <1>4 DEF TrustInv

-----------------------------------------------------------------------------
(* The theorem.                                                            *)

(* Every click preserves TrustInv.                                         *)
LEMMA UserTrust == TypeOK /\ TrustInv /\ UserStep => TrustInv'
  <1> SUFFICES ASSUME TypeOK, TrustInv, UserStep PROVE TrustInv'
    OBVIOUS
  <1>0. PhaseInv
    BY DEF TrustInv
  <1>1. CASE \E stored \in BOOLEAN, jump \in JumpErrors : OpenTab(stored, jump)
    BY <1>1, OpenTrust DEF TabAssumption
  <1>2. CASE CloseTab
    <2>1. /\ CloseEntry /\ frame = "idle"
          /\ UNCHANGED <<known, approved, batch, frame>>
      BY <1>2 DEF CloseTab, Handling
    <2> QED BY <1>0, <2>1, CloseTrust DEF PhaseInv
  <1>3. CASE Reconnect
    BY <1>3, RestartTrust DEF Reconnect, Handling
  <1>4. CASE \E accept \in BOOLEAN : RespondHostKey(accept)
    BY <1>4, RespondTrust
  <1>5. CASE \E typed \in BOOLEAN : SubmitLogin(typed)
    BY <1>5, SubmitTrust
  <1>6. CASE CancelLogin
    BY <1>6, CancelTrust
  <1>7. CASE ApplyConnection
    <2>1. UNCHANGED <<transportVars, open, cur, prompt, login, probe, frame, batch, approved>>
      BY <1>7 DEF ApplyConnection
    <2> QED BY <1>0, <2>1, BystanderTrust DEF PhaseInv, transportVars
  <1>8. CASE FocusChange
    <2>1. UNCHANGED <<transportVars, open, cur, prompt, login, probe, frame, batch, approved>>
      BY <1>8 DEF FocusChange
    <2> QED BY <1>0, <2>1, BystanderTrust DEF PhaseInv, transportVars
  <1> QED BY <1>1, <1>2, <1>3, <1>4, <1>5, <1>6, <1>7, <1>8 DEF UserStep

(* Every step of a frame preserves TrustInv.                               *)
LEMMA FrameTrust == TypeOK /\ TrustInv /\ FrameStep => TrustInv'
  <1> SUFFICES ASSUME TypeOK, TrustInv, FrameStep PROVE TrustInv'
    OBVIOUS
  <1>0. PhaseInv /\ HandleInv /\ AnswerInv
    BY DEF TrustInv
  <1>1. CASE PumpProbing
    <2>1. /\ UNCHANGED <<transportVars, open, cur, prompt, login, probe, batch, approved>>
          /\ frame = "idle" /\ frame' = "schedule" /\ open
      BY <1>1 DEF PumpProbing, Handling
    <2> QED BY <1>0, <2>1, BystanderTrust DEF PhaseInv, transportVars
  <1>2. CASE FinishProbe
    <2>1. /\ UNCHANGED <<known, open, prompt, login, batch, approved>>
          /\ open /\ frame = "idle" /\ frame' = "drain"
          /\ probe = "done" /\ probe' = "none" /\ StartSsh
      BY <1>2 DEF FinishProbe, Handling
    <2>2. batch' = << >> /\ prompt' = NoPrompt /\ login # "active"
      BY <1>0, <2>1 DEF PhaseInv
    <2>3. HandleInv' /\ AnswerInv' /\ QuestionInv'
      BY <1>0, <2>1, <2>2, StartTrust
    <2>4. PhaseInv'
      BY <2>1, <2>2 DEF PhaseInv
    <2>5. OnlyAcceptedKeysRecorded'
      BY <2>1 DEF TrustInv, OnlyAcceptedKeysRecorded
    <2> QED BY <2>3, <2>4, <2>5 DEF TrustInv
  <1>3. CASE Drain
    BY <1>3, DrainTrust
  <1>4. CASE ApplyStatus
    <2>1. /\ UNCHANGED <<transportVars, open, cur, prompt, login, probe, frame, approved>>
          /\ frame = "apply" /\ batch # << >> /\ batch' = Tail(batch)
      BY <1>4 DEF ApplyStatus, Applying
    <2> QED BY <1>0, <2>1, ApplyTrust DEF PhaseInv, transportVars
  <1>5. CASE ApplyHostKeyPrompt
    BY <1>5, ApplyPromptTrust
  <1>6. CASE ApplyAuthFailed
    BY <1>6, ApplyAuthFailedTrust
  <1>7. CASE ApplyClosed
    <2>1. /\ UNCHANGED <<transportVars, open, cur, login, probe, frame, approved>>
          /\ frame = "apply" /\ batch # << >> /\ batch' = Tail(batch)
          /\ prompt' \in {prompt, NoPrompt}
      BY <1>7 DEF ApplyClosed, Applying
    <2> QED BY <1>0, <2>1, ApplyTrust DEF PhaseInv, transportVars
  <1>8. CASE ApplyError
    <2>1. /\ UNCHANGED <<transportVars, open, cur, prompt, probe, frame, approved>>
          /\ frame = "apply" /\ batch # << >> /\ batch' = Tail(batch)
          /\ login' = "none"
      BY <1>8 DEF ApplyError, Applying
    <2> QED BY <1>0, <2>1, ApplyTrust DEF PhaseInv, transportVars
  <1>9. CASE SettleExit
    BY <1>9, CloseTrust DEF SettleExit, Settled
  <1>10. CASE SettleKept
    <2>1. /\ UNCHANGED <<transportVars, open, cur, prompt, probe, batch, approved>>
          /\ batch = << >> /\ frame = "apply" /\ frame' = "schedule"
          /\ login' \in {login, "none"}
      BY <1>10 DEF SettleKept, Settled
    <2> QED BY <1>0, <2>1, BystanderTrust DEF PhaseInv, transportVars
  <1>11. CASE RunRetry
    <2>1. /\ Restart /\ frame = "schedule" /\ frame' = "idle"
          /\ UNCHANGED <<known, open, batch, approved>>
      BY <1>11 DEF RunRetry, Scheduling
    <2>2. open
      BY <1>0, <2>1 DEF PhaseInv
    <2> QED BY <2>1, <2>2, RestartTrust
  <1>12. CASE DropTimer \/ BookRetry \/ LeaveTimer
    <2>1. /\ UNCHANGED <<transportVars, open, cur, prompt, login, probe, batch, approved>>
          /\ frame = "schedule" /\ frame' = "idle"
      BY <1>12 DEF DropTimer, BookRetry, LeaveTimer, Scheduling
    <2> QED BY <1>0, <2>1, BystanderTrust DEF PhaseInv, transportVars
  <1> QED BY <1>1, <1>2, <1>3, <1>4, <1>5, <1>6, <1>7, <1>8, <1>9, <1>10, <1>11, <1>12
          DEF FrameStep

(* A program without tabs.                                                 *)
LEMMA InitTrust == Init => TrustInv
  <1> SUFFICES ASSUME Init PROVE TrustInv
    OBVIOUS
  <1> USE DEF Init, TransportInit
  <1>0. FreeThread.pc = "ended" /\ ~FreeThread.held
    BY DEF FreeThread, NewThread
  <1>1. HandleInv
    BY <1>0 DEF HandleInv
  <1>2. PhaseInv
    BY DEF PhaseInv
  <1>3. QuestionInv
    BY DEF QuestionInv, Asks
  <1>4. AnswerInv
    BY <1>0 DEF AnswerInv
  <1>5. OnlyAcceptedKeysRecorded
    BY DEF OnlyAcceptedKeysRecorded
  <1> QED BY <1>1, <1>2, <1>3, <1>4, <1>5 DEF TrustInv

(* TrustInv is inductive.                                                  *)
LEMMA NextTrust == TypeOK /\ TrustInv /\ [Next]_vars => TrustInv'
  <1> SUFFICES ASSUME TypeOK, TrustInv, [Next]_vars PROVE TrustInv'
    OBVIOUS
  <1>0. PhaseInv
    BY DEF TrustInv
  <1>1. CASE FrameStep
    BY <1>1, FrameTrust
  <1>2. CASE UserStep
    BY <1>2, UserTrust
  <1>3. CASE RetryDue
    <2>1. UNCHANGED <<transportVars, open, cur, prompt, login, probe, frame, batch, approved>>
      BY <1>3 DEF RetryDue
    <2> QED BY <1>0, <2>1, BystanderTrust DEF PhaseInv, transportVars
  <1>4. CASE ProbeAnswers
    <2>1. /\ UNCHANGED <<transportVars, open, cur, prompt, login, frame, batch, approved>>
          /\ probe = "running" /\ probe' = "done"
      BY <1>4 DEF ProbeAnswers
    <2> QED BY <1>0, <2>1, BystanderTrust DEF PhaseInv, transportVars
  <1>5. CASE \E s \in Slots : Thread(s)
    BY <1>5, ThreadTrust
  <1>6. CASE Rotate
    <2>1. UNCHANGED <<thread, queue, known, open, cur, prompt, login, probe, frame, batch, approved>>
      BY <1>6 DEF Rotate, RotateKey, tabVars
    <2> QED BY <1>0, <2>1, BystanderTrust DEF PhaseInv
  <1>7. CASE UNCHANGED vars
    <2>1. UNCHANGED <<transportVars, open, cur, prompt, login, probe, frame, batch, approved>>
      BY <1>7 DEF vars, tabVars
    <2> QED BY <1>0, <2>1, BystanderTrust DEF PhaseInv, transportVars
  <1> QED BY <1>1, <1>2, <1>3, <1>4, <1>5, <1>6, <1>7 DEF Next

(* The keys on record are keys the user accepted: whatever threads are     *)
(* dropped, time out or are restarted, check_server_key writes a key into  *)
(* KnownHosts only on an answer that was given to that very key.           *)
THEOREM KeysTrusted == Spec => []OnlyAcceptedKeysRecorded
  <1>1. TrustInv => OnlyAcceptedKeysRecorded
    BY DEF TrustInv
  <1> QED BY <1>1, InitTrust, NextTrust, TypeCorrect, PTL DEF Spec

-----------------------------------------------------------------------------
(* What is true of the transport behind a tab, of everything it has sent   *)
(* and of everything the tab has made of it.                               *)

(* The thread has logged in and has not failed yet.                        *)
Up == {"tunnels", "open", "shell", "write", "leave"}

(* The states a transport reports by itself.                               *)
Reported == {"Connecting", "Authenticating", "Connected"}

(* What an event says is true of the thread t that sent it.                *)
IsTrue(e, t) ==
  /\ e.kind = "Status" =>
       /\ e.val \in Reported
       /\ e.val = "Connected" => t.pc \in Up \cup {"hangup", "ended"}
  /\ e.kind = "Error" => t.pc \in {"hangup", "ended"}
  /\ e.kind \in {"Closed", "AuthFailed"} => t.pc = "ended"
  /\ e.kind = "Closed" => e.val = t.end

Final(e) == e.kind \in {"Closed", "AuthFailed"}

(* So it is with a whole channel, and nothing follows a Closed or a        *)
(* rejection.                                                              *)
AreTrue(q, t) ==
  \A i \in DOMAIN q : IsTrue(q[i], t) /\ (Final(q[i]) => i = Len(q))

Concludes(q) == \E i \in DOMAIN q : Final(q[i])


Says(q, kind) == \E i \in DOMAIN q : q[i].kind = kind

Hears(q) == \E i \in DOMAIN q : q[i].kind = "Status" /\ q[i].val = "Connected"

(* The handle of a tab is never one that was told to stop, so its thread   *)
(* does not end by the app's own Disconnect.                               *)
StreamInv ==
  /\ cur = NoSlot => batch = << >>
  /\ cur # NoSlot =>
       /\ AreTrue(batch, thread[cur])
       /\ AreTrue(queue[cur], thread[cur])
       /\ Concludes(batch) => queue[cur] = << >>
       /\ ~thread[cur].stop
       /\ thread[cur].end \in {"Exited", "Closed", "Failed"}

(* A question that is on the screen or on its way there.                   *)
Asked ==
  \/ prompt # NoPrompt
  \/ Says(batch, "HostKeyPrompt")
  \/ cur # NoSlot /\ Says(queue[cur], "HostKeyPrompt")

(* A thread that asked, or that said Connected, does not end without a     *)
(* Closed; and the Closed that is not to be swallowed has an Error before  *)
(* it, which takes suppress_close back.                                    *)
FarewellInv ==
  cur # NoSlot =>
    /\ (thread[cur].pc = "ended" /\ (Asked \/ Hears(batch) \/ Hears(queue[cur])))
         => Pending("Closed")
    /\ (Asked /\ suppress /\ thread[cur].pc \in {"hangup", "ended"})
         => Pending("Error")

(* A tab on its way out: everything its thread said has been read.         *)
ExitInv ==
  exit = "shell" =>
    /\ frame = "apply" /\ batch = << >> /\ cur # NoSlot
    /\ thread[cur].pc = "ended"
    /\ thread[cur].end \in {"Exited", "Closed"}

(* Nothing is left of the transport, or it is on its way out.              *)
Over ==
  \/ cur = NoSlot
  \/ thread[cur].pc \in {"hangup", "ended"}
  \/ thread[cur].pc = "ask" /\ thread[cur].answer = "no"

RetryInv == status \in Retryable => login # "active" /\ Over

(* Without a password to type no Closed is ever swallowed.                 *)
UpInv ==
  ~PasswordAuth =>
    /\ login = "none" /\ ~suppress
    /\ status = "Connected" =>
         /\ cur # NoSlot
         /\ thread[cur].pc \in Up \cup {"hangup"} \/ Pending("Closed")

EndInv == StreamInv /\ FarewellInv /\ ExitInv /\ RetryInv /\ UpInv

-----------------------------------------------------------------------------
(* Channels.                                                               *)

(* What is true of a batch is true of its head and of what is left.        *)
LEMMA TailTrue ==
  ASSUME NEW q \in Seq(Events), q # << >>, NEW t, AreTrue(q, t)
  PROVE  /\ AreTrue(Tail(q), t)
         /\ IsTrue(Head(q), t)
         /\ Final(Head(q)) => Tail(q) = << >>
  <1>1. IsTrue(Head(q), t) /\ (Final(Head(q)) => 1 = Len(q))
    BY TailEvents DEF AreTrue
  <1>5. PICK rest : rest = Tail(q)
    OBVIOUS
  <1>6. rest \in Seq(Events) /\ Len(rest) = Len(q) - 1
    BY <1>5, HeadTailProperties
  <1>2. /\ rest \in Seq(Events) /\ rest = Tail(q) /\ Len(rest) = Len(q) - 1 /\ Len(q) \in Nat
        /\ DOMAIN rest = 1..Len(rest)
    BY <1>5, <1>6
  <1>4. 1 = Len(q) => rest = << >>
    BY <1>2, EmptySeq
  <1>3. AreTrue(rest, t)
    <2> SUFFICES ASSUME NEW i \in DOMAIN rest
                 PROVE  IsTrue(rest[i], t) /\ (Final(rest[i]) => i = Len(rest))
      BY DEF AreTrue
    <2>1. i + 1 \in DOMAIN q /\ rest[i] = q[i + 1]
      BY <1>2, TailEvents
    <2>2. IsTrue(q[i + 1], t) /\ (Final(q[i + 1]) => i + 1 = Len(q))
      BY <2>1 DEF AreTrue
    <2>3. i \in Nat
      BY <1>2
    <2>4. i + 1 = Len(q) => i = Len(rest)
      BY <1>2, <2>3
    <2> QED BY <2>1, <2>2, <2>4
  <1> QED BY <1>1, <1>2, <1>3, <1>4

(* A batch says what its tail says, and apart from its head the tail says  *)
(* what the batch says.                                                    *)
LEMMA TailSays ==
  ASSUME NEW q \in Seq(Events), q # << >>
  PROVE  /\ \A kind : Says(Tail(q), kind) => Says(q, kind)
         /\ \A kind : Says(q, kind) /\ Head(q).kind # kind => Says(Tail(q), kind)
         /\ Says(q, Head(q).kind)
         /\ Hears(Tail(q)) => Hears(q)
         /\ Concludes(Tail(q)) => Concludes(q)
         /\ Head(q).kind = "Status" /\ Head(q).val = "Connected" => Hears(q)
  <1>0. /\ DOMAIN q = 1..Len(q) /\ DOMAIN Tail(q) = 1..Len(Tail(q))
        /\ Len(Tail(q)) = Len(q) - 1 /\ Len(q) \in Nat
        /\ \A i \in 1..Len(Tail(q)) : Tail(q)[i] = q[i + 1]
    BY HeadTailProperties
  <1>1. ASSUME NEW i \in DOMAIN q, i # 1
        PROVE  i - 1 \in DOMAIN Tail(q) /\ Tail(q)[i - 1] = q[i]
    BY <1>0, <1>1
  <1>2. \A kind : Says(q, kind) /\ Head(q).kind # kind => Says(Tail(q), kind)
    BY <1>1, TailEvents DEF Says
  <1> QED BY <1>2, TailEvents DEF Says, Hears, Concludes

(* Appending an event adds it to what is said, and nothing else.           *)
LEMMA AppendSays ==
  ASSUME NEW q \in Seq(Events), NEW e \in Events
  PROVE  /\ \A kind : Says(q, kind) => Says(Append(q, e), kind)
         /\ Says(Append(q, e), e.kind)
         /\ \A kind : Says(Append(q, e), kind) => Says(q, kind) \/ e.kind = kind
         /\ Hears(Append(q, e)) => Hears(q) \/ (e.kind = "Status" /\ e.val = "Connected")
  <1>1. /\ \A i \in DOMAIN q : i \in DOMAIN Append(q, e) /\ Append(q, e)[i] = q[i]
        /\ Len(q) + 1 \in DOMAIN Append(q, e) /\ Append(q, e)[Len(q) + 1] = e
    OBVIOUS
  <1> QED BY <1>1, AppendEvents DEF Says, Hears

(* What a thread said stays true while it runs on from t to u.             *)
LEMMA LaterTrue ==
  ASSUME NEW q, NEW t, NEW u, AreTrue(q, t), t.pc # "ended",
         t.pc \in Up \cup {"hangup"} => u.pc \in Up \cup {"hangup", "ended"},
         t.pc = "hangup" => u.pc = "ended"
  PROVE  AreTrue(q, u) /\ ~Concludes(q)
  BY DEF AreTrue, IsTrue, Final, Concludes, Up

(* So does the channel with one more true event.                           *)
LEMMA AppendTrue ==
  ASSUME NEW q \in Seq(Events), NEW e \in Events, NEW u, AreTrue(q, u), ~Concludes(q),
         IsTrue(e, u)
  PROVE  AreTrue(Append(q, e), u)
  <1>1. Len(Append(q, e)) = Len(q) + 1
    OBVIOUS
  <1> QED BY <1>1, AppendEvents DEF AreTrue, Concludes

(* An empty channel says nothing that is not true.                         *)
LEMMA EmptyTrue ==
  /\ \A t : AreTrue(<< >>, t)
  /\ \A kind : ~Says(<< >>, kind)
  /\ ~Hears(<< >>) /\ ~Concludes(<< >>)
  BY DEF AreTrue, Says, Hears, Concludes
-----------------------------------------------------------------------------
(* The threads.                                                            *)

(* What a thread that goes from t to u may send on its way.                *)
Tells(e, t, u) ==
  \/ /\ e.kind = "Status" /\ e.val \in Reported
     /\ e.val = "Connected" => u.pc \in Up
     /\ u.pc \notin {"hangup", "ended"}
  \/ e.kind = "HostKeyPrompt" /\ u.pc = "ask"
  \/ e.kind = "Error" /\ (u.pc = "hangup" \/ (u.pc = "ended" /\ t.pc = "start"))
  \/ e.kind = "AuthFailed" /\ t.pc = "auth" /\ u.pc = "ended"
  \/ /\ e.kind = "Closed" /\ e.val = u.end
     /\ t.pc \in {"hangup", "leave"} /\ u.pc = "ended"

(* A login is not lost, a failure is not taken back, a question is left    *)
(* with a yes or for good.                                                 *)
Onward(t, u) ==
  /\ t.pc # "ended"
  /\ t.pc \in Up => u.pc \in Up \cup {"hangup", "ended"}
  /\ t.pc = "hangup" => u.pc = "ended"
  /\ t.pc = "ask" => u.pc = "hangup" \/ t.answer = "yes"
  /\ u.held = t.held
  /\ ~t.stop => ~u.stop
  /\ ~t.stop /\ t.end \in {"Exited", "Closed", "Failed"}
       => u.end \in {"Exited", "Closed", "Failed"}

(* One step of the thread behind a held handle.                            *)
Moved(s) ==
  \E u \in Threads :
    /\ thread' = [thread EXCEPT ![s] = u]
    /\ Onward(thread[s], u)
    /\ \/ UNCHANGED queue /\ u.pc \notin {"hangup", "ended"}
       \/ \E e \in Events :
            queue' = [queue EXCEPT ![s] = Append(@, e)] /\ Tells(e, thread[s], u)

(* Going on to another await, saying Status or nothing.                    *)
LEMMA ToMoves ==
  ASSUME TypeOK, NEW s \in Slots, NEW pc \in PCs \ {"hangup", "ended"}, To(s, pc),
         thread[s].pc \notin {"ask", "hangup", "ended"},
         thread[s].pc \in Up => pc \in Up
  PROVE  \E u \in Threads :
           /\ thread' = [thread EXCEPT ![s] = u]
           /\ Onward(thread[s], u)
           /\ u.pc = pc
  <1>0. TransportTypeOK
    BY DEF TypeOK
  <1> DEFINE u == [thread[s] EXCEPT !.pc = pc]
  <1>1. /\ u \in Threads /\ u.held = thread[s].held /\ u.pc = pc
        /\ u.stop = thread[s].stop /\ u.end = thread[s].end
    BY <1>0, ThreadFields DEF Threads
  <1>2. thread' = [thread EXCEPT ![s] = u]
    BY DEF To
  <1> HIDE DEF u
  <1>3. Onward(thread[s], u)
    BY <1>1 DEF Onward, Up
  <1> QED BY <1>1, <1>2, <1>3

(* A held thread that returns leaves its end to be read.                   *)
LEMMA FinishMoves ==
  ASSUME TypeOK, NEW s \in Slots, NEW end \in {"Exited", "Closed", "Failed"},
         Finish(s, end), thread[s].held, thread[s].pc \notin {"ask", "ended"}
  PROVE  \E u \in Threads :
           /\ thread' = [thread EXCEPT ![s] = u]
           /\ Onward(thread[s], u)
           /\ u.pc = "ended" /\ u.end = end
  <1> DEFINE u == [NewThread EXCEPT !.pc = "ended", !.end = end]
  <1>1. u \in Threads
    BY NewThreadType DEF Ends
  <1>2. u.held /\ u.pc = "ended" /\ ~u.stop /\ u.end = end
    BY DEF NewThread
  <1>3. thread' = [thread EXCEPT ![s] = u]
    BY DEF Finish
  <1> HIDE DEF u
  <1>4. Onward(thread[s], u)
    BY <1>2 DEF Onward
  <1> QED BY <1>1, <1>2, <1>3, <1>4

(* A thread that fails says Error first.                                   *)
LEMMA FailsMoves ==
  ASSUME TypeOK, NEW s \in Slots, Fails(s, {"Closed", "Failed"}), thread[s].held,
         thread[s].pc \notin {"hangup", "ended"}
  PROVE  Moved(s)
  <1>0. TransportTypeOK
    BY DEF TypeOK
  <1>1. PICK end \in {"Closed", "Failed"} :
          thread' = [thread EXCEPT ![s] = [@ EXCEPT !.pc = "hangup", !.end = end,
                                           !.hop = 1, !.key = NoKey, !.answer = "none"]]
    BY DEF Fails
  <1> DEFINE u == [thread[s] EXCEPT !.pc = "hangup", !.end = end, !.hop = 1,
                                    !.key = NoKey, !.answer = "none"]
  <1>2. u \in Threads
    BY <1>0, HangupType DEF Ends
  <1>3. u.held = thread[s].held /\ u.pc = "hangup" /\ u.stop = thread[s].stop /\ u.end = end
    BY <1>0, ThreadFields DEF Threads
  <1>4. thread' = [thread EXCEPT ![s] = u]
    BY <1>1
  <1> HIDE DEF u
  <1>5. Onward(thread[s], u)
    BY <1>3 DEF Onward
  <1>6. ErrorEvent \in Events /\ Tells(ErrorEvent, thread[s], u)
    BY <1>3, EventTypes, EventKindOf DEF Tells
  <1>7. queue' = [queue EXCEPT ![s] = Append(@, ErrorEvent)]
    BY DEF Fails, Send
  <1> QED BY <1>2, <1>4, <1>5, <1>6, <1>7 DEF Moved

(* The refusal of a key is one way to fail.                                *)
LEMMA RefusedFails ==
  ASSUME NEW s \in Slots, Fails(s, {"Failed"})
  PROVE  Fails(s, {"Closed", "Failed"})
  BY DEF Fails

(* What the statuses, ends and events the threads send look like.          *)
LEMMA EventVals ==
  /\ \A st \in Statuses : StatusEvent(st).val = st
  /\ \A end \in Ends : ClosedEvent(end).val = end
  BY DEF Event, StatusEvent, ClosedEvent
(* Every step of the thread behind the tab is such a move.                 *)
LEMMA ThreadMoves ==
  ASSUME TypeOK, NEW s \in Slots, thread[s].held, ~thread[s].stop,
         thread[s].end \in {"Exited", "Closed", "Failed"}, ThreadStep(s)
  PROVE  Moved(s)
  <1>0. TransportTypeOK
    BY DEF TypeOK
  <1>1. CASE thread[s].pc \in {"hangup", "leave"} /\ SaysClosed(s)
    <2>1. PICK u \in Threads :
            /\ thread' = [thread EXCEPT ![s] = u]
            /\ Onward(thread[s], u) /\ u.pc = "ended" /\ u.end = thread[s].end
      BY <1>1, FinishMoves DEF SaysClosed
    <2>2. PICK e : e = ClosedEvent(thread[s].end)
      OBVIOUS
    <2>3. e \in Events /\ Tells(e, thread[s], u)
      BY <1>1, <2>1, <2>2, EventTypes, EventKindOf, EventVals DEF Tells, Ends
    <2>4. queue' = [queue EXCEPT ![s] = Append(@, e)]
      BY <1>1, <2>2 DEF SaysClosed, Send
    <2> QED BY <2>1, <2>3, <2>4 DEF Moved
  <1>2. CASE RuntimeFails(s)
    <2>1. PICK u \in Threads :
            /\ thread' = [thread EXCEPT ![s] = u]
            /\ Onward(thread[s], u) /\ u.pc = "ended" /\ u.end = "Failed"
      BY <1>2, FinishMoves DEF RuntimeFails
    <2>3. ErrorEvent \in Events /\ Tells(ErrorEvent, thread[s], u)
      BY <1>2, <2>1, EventTypes, EventKindOf DEF Tells, RuntimeFails
    <2>4. queue' = [queue EXCEPT ![s] = Append(@, ErrorEvent)]
      BY <1>2 DEF RuntimeFails, Send
    <2> QED BY <2>1, <2>3, <2>4 DEF Moved
  <1>3. CASE Start(s)
    <2>1. PICK u \in Threads :
            thread' = [thread EXCEPT ![s] = u] /\ Onward(thread[s], u) /\ u.pc = "begin"
      BY <1>3, ToMoves DEF Start, PCs, Up
    <2>2. PICK e : e = StatusEvent("Connecting")
      OBVIOUS
    <2>3. e \in Events /\ Tells(e, thread[s], u)
      BY <2>1, <2>2, EventTypes, EventKindOf, EventVals DEF Tells, Statuses, Reported
    <2>4. queue' = [queue EXCEPT ![s] = Append(@, e)]
      BY <1>3, <2>2 DEF Start, Send
    <2> QED BY <2>1, <2>3, <2>4 DEF Moved
  <1>4. CASE BeginChain(s)
    <2>1. PICK u \in Threads :
            thread' = [thread EXCEPT ![s] = u] /\ Onward(thread[s], u) /\ u.pc = "dial"
      BY <1>4, ToMoves DEF BeginChain, PCs, Up
    <2>2. PICK e : e = StatusEvent("Authenticating")
      OBVIOUS
    <2>3. e \in Events /\ Tells(e, thread[s], u)
      BY <2>1, <2>2, EventTypes, EventKindOf, EventVals DEF Tells, Statuses, Reported
    <2>4. queue' = [queue EXCEPT ![s] = Append(@, e)]
      BY <1>4, <2>2 DEF BeginChain, Send
    <2> QED BY <2>1, <2>3, <2>4 DEF Moved
  <1>5. CASE KeyMatches(s)
    <2>1. PICK u \in Threads :
            thread' = [thread EXCEPT ![s] = u] /\ Onward(thread[s], u) /\ u.pc = "auth"
      BY <1>5, ToMoves DEF KeyMatches, PCs, Up
    <2> QED BY <1>5, <2>1 DEF Moved, KeyMatches
  <1>6. CASE AskUser(s)
    <2>1. PICK hop \in 1..Hops, key \in Keys : hop = thread[s].hop /\ key = serverKey[hop]
      BY <1>0, ThreadFields DEF TransportTypeOK
    <2> DEFINE u == [thread[s] EXCEPT !.pc = "ask", !.key = key, !.answer = "none"]
    <2>2. u \in Threads
      BY <1>0, ThreadFields, ZenonT(30) DEF Threads, PCs
    <2>3. /\ u.held = thread[s].held /\ u.pc = "ask"
          /\ u.stop = thread[s].stop /\ u.end = thread[s].end
      BY <1>0, ThreadFields DEF Threads
    <2>4. thread' = [thread EXCEPT ![s] = u]
      BY <1>6, <2>1 DEF AskUser
    <2> HIDE DEF u
    <2>5. Onward(thread[s], u)
      BY <1>6, <2>3 DEF Onward, AskUser, Up
    <2>6. PICK e : e = PromptEvent(hop, key)
      OBVIOUS
    <2>7. e \in Events /\ Tells(e, thread[s], u)
      BY <2>3, <2>6, EventTypes, EventKindOf DEF Tells
    <2>8. queue' = [queue EXCEPT ![s] = Append(@, e)]
      BY <1>6, <2>1, <2>6 DEF AskUser, Send
    <2> QED BY <2>2, <2>4, <2>5, <2>7, <2>8 DEF Moved
  <1>7. CASE KeyAccepted(s)
    <2> DEFINE u == [thread[s] EXCEPT !.pc = "auth", !.key = NoKey, !.answer = "none"]
    <2>2. u \in Threads
      BY <1>0, ThreadFields, ZenonT(30) DEF Threads, PCs
    <2>3. /\ u.held = thread[s].held /\ u.pc = "auth"
          /\ u.stop = thread[s].stop /\ u.end = thread[s].end
      BY <1>0, ThreadFields DEF Threads
    <2>4. thread' = [thread EXCEPT ![s] = u]
      BY <1>7 DEF KeyAccepted
    <2> HIDE DEF u
    <2>5. Onward(thread[s], u)
      BY <1>7, <2>3 DEF Onward, KeyAccepted, Up
    <2> QED BY <1>7, <2>2, <2>3, <2>4, <2>5 DEF Moved, KeyAccepted
  <1>8. CASE NextHop(s)
    <2> DEFINE u == [thread[s] EXCEPT !.pc = "reach", !.hop = @ + 1]
    <2>0. thread[s].hop + 1 \in 1..Hops
      BY TransportAssumption, <1>0, <1>8, ThreadFields DEF NextHop
    <2>1. "reach" \in PCs
      BY DEF PCs
    <2>2. u \in Threads
      BY <1>0, <2>0, <2>1, ThreadFields DEF Threads
    <2>3. /\ u.held = thread[s].held /\ u.pc = "reach"
          /\ u.stop = thread[s].stop /\ u.end = thread[s].end
      BY <1>0, ThreadFields DEF Threads
    <2>4. thread' = [thread EXCEPT ![s] = u]
      BY <1>8 DEF NextHop
    <2> HIDE DEF u
    <2>5. Onward(thread[s], u)
      BY <1>8, <2>3 DEF Onward, NextHop, Up
    <2>6. PICK e : e = StatusEvent("Authenticating")
      OBVIOUS
    <2>7. e \in Events /\ Tells(e, thread[s], u)
      BY <2>3, <2>6, EventTypes, EventKindOf, EventVals DEF Tells, Statuses, Reported
    <2>8. queue' = [queue EXCEPT ![s] = Append(@, e)]
      BY <1>8, <2>6 DEF NextHop, Send
    <2> QED BY <2>2, <2>4, <2>5, <2>7, <2>8 DEF Moved
  <1>9. CASE TargetReached(s)
    <2>1. PICK u \in Threads :
            thread' = [thread EXCEPT ![s] = u] /\ Onward(thread[s], u) /\ u.pc = "tunnels"
      BY <1>9, ToMoves DEF TargetReached, PCs, Up
    <2> QED BY <1>9, <2>1 DEF Moved, TargetReached
  <1>10. CASE Rejected(s)
    <2>1. PICK u \in Threads :
            /\ thread' = [thread EXCEPT ![s] = u]
            /\ Onward(thread[s], u) /\ u.pc = "ended" /\ u.end = "Failed"
      BY <1>10, FinishMoves DEF Rejected
    <2>3. AuthFailedEvent \in Events /\ Tells(AuthFailedEvent, thread[s], u)
      BY <1>10, <2>1, EventTypes, EventKindOf DEF Tells, Rejected
    <2>4. queue' = [queue EXCEPT ![s] = Append(@, AuthFailedEvent)]
      BY <1>10 DEF Rejected, Send
    <2> QED BY <2>1, <2>3, <2>4 DEF Moved
  <1>11. CASE StartTunnel(s)
    <2> DEFINE u == [thread[s] EXCEPT !.left = @ - 1]
    <2>2. u \in Threads
      BY TransportAssumption, <1>0, <1>11, ThreadFields DEF StartTunnel, Threads
    <2>3. /\ u.held = thread[s].held /\ u.pc = "tunnels"
          /\ u.stop = thread[s].stop /\ u.end = thread[s].end
      BY <1>0, <1>11, ThreadFields DEF Threads, StartTunnel
    <2>4. thread' = [thread EXCEPT ![s] = u]
      BY <1>11 DEF StartTunnel
    <2> HIDE DEF u
    <2>5. Onward(thread[s], u)
      BY <1>11, <2>3 DEF Onward, StartTunnel, Up
    <2>6. PICK e : e = StatusEvent("Connected")
      OBVIOUS
    <2>7. e \in Events /\ Tells(e, thread[s], u)
      BY <2>3, <2>6, EventTypes, EventKindOf, EventVals DEF Tells, Statuses, Reported, Up
    <2>8. queue' = [queue EXCEPT ![s] = Append(@, e)]
      BY <1>11, <2>6 DEF StartTunnel, Send
    <2> QED BY <2>2, <2>4, <2>5, <2>7, <2>8 DEF Moved
  <1>12. CASE TunnelsDone(s)
    <2>1. PICK u \in Threads :
            thread' = [thread EXCEPT ![s] = u] /\ Onward(thread[s], u) /\ u.pc = "open"
      BY <1>12, ToMoves DEF TunnelsDone, PCs, Up
    <2> QED BY <1>12, <2>1 DEF Moved, TunnelsDone
  <1>13. CASE OpenShell(s)
    <2>0. PICK pc \in {"shell", "write"} : To(s, pc)
      BY <1>13 DEF OpenShell
    <2>1. PICK u \in Threads :
            thread' = [thread EXCEPT ![s] = u] /\ Onward(thread[s], u) /\ u.pc = pc
      BY <1>13, <2>0, ToMoves DEF OpenShell, PCs, Up
    <2>2. PICK e : e = StatusEvent("Connected")
      OBVIOUS
    <2>3. e \in Events /\ Tells(e, thread[s], u)
      BY <2>1, <2>2, EventTypes, EventKindOf, EventVals DEF Tells, Statuses, Reported, Up
    <2>4. queue' = [queue EXCEPT ![s] = Append(@, e)]
      BY <1>13, <2>2 DEF OpenShell, Send
    <2> QED BY <2>1, <2>3, <2>4 DEF Moved
  <1>14. CASE ServerEnds(s)
    <2>0. PICK end \in {"Exited", "Closed", "Failed"} : ShellEnds(s, end)
      BY <1>14 DEF ServerEnds
    <2> DEFINE u == [thread[s] EXCEPT !.pc = "leave", !.end = end]
    <2>1. u \in Threads
      BY <1>0, LeavesType DEF Ends
    <2>2. /\ u.held = thread[s].held /\ u.pc = "leave"
          /\ u.stop = thread[s].stop /\ u.end = end
      BY <1>0, ThreadFields DEF Threads
    <2>3. thread' = [thread EXCEPT ![s] = u] /\ UNCHANGED queue
      BY <2>0 DEF ShellEnds
    <2> HIDE DEF u
    <2>4. Onward(thread[s], u)
      BY <1>14, <2>2 DEF Onward, ServerEnds, Up
    <2> QED BY <2>1, <2>2, <2>3, <2>4 DEF Moved
  <1>15. CASE DialFails(s) \/ ReachFails(s) \/ AuthFails(s) \/ OpenFails(s) \/ WriteFails(s)
    BY <1>15, FailsMoves DEF DialFails, ReachFails, AuthFails, OpenFails, WriteFails
  <1>16. CASE KeyRefused(s)
    BY <1>16, FailsMoves, RefusedFails DEF KeyRefused
  <1>17. ~StopSeen(s)
    BY DEF StopSeen
  <1>18. CASE ReachHop(s)
    <2>1. PICK u \in Threads :
            thread' = [thread EXCEPT ![s] = u] /\ Onward(thread[s], u) /\ u.pc = "dial"
      BY <1>18, ToMoves DEF ReachHop, PCs, Up
    <2> QED BY <1>18, <2>1 DEF Moved, ReachHop
  <1>19. CASE BeginWrite(s)
    <2>1. PICK u \in Threads :
            thread' = [thread EXCEPT ![s] = u] /\ Onward(thread[s], u) /\ u.pc = "write"
      BY <1>19, ToMoves DEF BeginWrite, PCs, Up
    <2> QED BY <1>19, <2>1 DEF Moved, BeginWrite
  <1>20. CASE WriteDone(s)
    <2>1. PICK u \in Threads :
            thread' = [thread EXCEPT ![s] = u] /\ Onward(thread[s], u) /\ u.pc = "shell"
      BY <1>20, ToMoves DEF WriteDone, PCs, Up
    <2> QED BY <1>20, <2>1 DEF Moved, WriteDone
  <1> QED
    BY <1>1, <1>2, <1>3, <1>4, <1>5, <1>6, <1>7, <1>8, <1>9, <1>10, <1>11, <1>12,
       <1>13, <1>14, <1>15, <1>16, <1>17, <1>18, <1>19, <1>20
    DEF ThreadStep, ThreadProgress, ThreadAnswered, HangUp, Leave
(* A thread nobody listens to changes nothing a tab can see.               *)
LEMMA OthersAside ==
  ASSUME TypeOK, HandleInv, NEW s \in Slots, s # cur, ThreadStep(s), cur # NoSlot
  PROVE  thread'[cur] = thread[cur] /\ queue'[cur] = queue[cur]
  <1> USE DEF TypeOK, TransportTypeOK, TabTypeOK
  <1>1. ~thread[s].held /\ cur \in Slots
    BY DEF HandleInv
  <1>2. CASE Silent(s)
    BY <1>1, <1>2 DEF Silent, Send
  <1>3. CASE AskUser(s)
    BY <1>1, <1>3 DEF AskUser, Send
  <1>4. CASE KeyAccepted(s)
    BY <1>1, <1>4 DEF KeyAccepted
  <1>5. CASE Rejected(s)
    BY <1>1, <1>5 DEF Rejected, Finish, Send
  <1> QED BY <1>2, <1>3, <1>4, <1>5, ThreadKinds

(* EndInv is about the tab and the transport behind it.                    *)
LEMMA SameEnds ==
  ASSUME EndInv, UNCHANGED tabVars,
         cur # NoSlot => thread'[cur] = thread[cur] /\ queue'[cur] = queue[cur]
  PROVE  EndInv'
  <1>0. /\ UNCHANGED <<status, cur, prompt, login, suppress, frame, batch, exit>>
        /\ StreamInv /\ FarewellInv /\ ExitInv /\ RetryInv /\ UpInv
    BY DEF tabVars, EndInv
  <1>1. StreamInv'
    BY <1>0 DEF StreamInv
  <1>2. FarewellInv'
    BY <1>0 DEF FarewellInv, Asked, Pending, Says
  <1>3. ExitInv'
    BY <1>0 DEF ExitInv
  <1>4. RetryInv'
    BY <1>0 DEF RetryInv, Over
  <1>5. UpInv'
    BY <1>0 DEF UpInv, Pending
  <1> QED BY <1>1, <1>2, <1>3, <1>4, <1>5 DEF EndInv

(* What is pending is what the batch or the channel says.                  *)
LEMMA PendingSays ==
  \A kind : Pending(kind) <=> Says(batch, kind) \/ (cur # NoSlot /\ Says(queue[cur], kind))
  BY DEF Pending, Says

(* Who asks is asked by an event.                                          *)
LEMMA AsksSays == \A q : Asks(q) <=> Says(q, "HostKeyPrompt")
  BY DEF Asks, Says

(* The thread behind the tab.                                              *)
LEMMA OwnThreadEnds ==
  ASSUME TypeOK, TrustInv, EndInv, NEW s \in Slots, s = cur, Moved(s), UNCHANGED tabVars
  PROVE  EndInv'
  <1> USE DEF TypeOK, TransportTypeOK, TabTypeOK
  <1>0. /\ UNCHANGED <<status, cur, prompt, login, suppress, frame, batch, exit>>
        /\ StreamInv /\ FarewellInv /\ ExitInv /\ RetryInv /\ UpInv
        /\ QuestionInv /\ cur # NoSlot
    BY TransportAssumption DEF tabVars, EndInv, TrustInv
  <1>1. PICK u \in Threads :
          /\ thread' = [thread EXCEPT ![s] = u]
          /\ Onward(thread[s], u)
          /\ \/ UNCHANGED queue /\ u.pc \notin {"hangup", "ended"}
             \/ \E e \in Events :
                  queue' = [queue EXCEPT ![s] = Append(@, e)] /\ Tells(e, thread[s], u)
    BY DEF Moved
  <1>2. PICK t, q : t = thread[cur] /\ q = queue[cur]
    OBVIOUS
  <1>3. /\ thread'[cur] = u /\ Onward(t, u) /\ t.pc # "ended"
        /\ q \in Seq(Events) /\ batch \in Seq(Events)
    BY <1>1, <1>2 DEF Onward
  <1>4. AreTrue(batch, t) /\ AreTrue(q, t)
    BY <1>0, <1>2 DEF StreamInv
  <1>5. /\ AreTrue(batch, u) /\ ~Concludes(batch)
        /\ AreTrue(q, u) /\ ~Concludes(q)
    BY <1>3, <1>4, LaterTrue DEF Onward
  <1>6. \/ queue'[cur] = q /\ u.pc \notin {"hangup", "ended"}
        \/ \E e \in Events : queue'[cur] = Append(q, e) /\ Tells(e, t, u)
    BY <1>1, <1>2
  <1>7. (Hears(batch) \/ Hears(q)) => t.pc \in Up \cup {"hangup"}
    BY <1>3, <1>4 DEF Hears, AreTrue, IsTrue
  <1>8. Asked => t.pc \in {"ask", "hangup"}
    BY <1>0, <1>2, <1>3, Unasked, AsksSays DEF Asked
  <1>9. StreamInv'
    <2>1. ~u.stop /\ u.end \in {"Exited", "Closed", "Failed"}
      BY <1>0, <1>2, <1>3 DEF StreamInv, Onward
    <2>2. AreTrue(queue'[cur], u)
      <3>1. ASSUME NEW e \in Events, queue'[cur] = Append(q, e), Tells(e, t, u)
            PROVE  AreTrue(queue'[cur], u)
        <4>1. IsTrue(e, u)
          BY <3>1 DEF Tells, IsTrue
        <4> QED BY <1>3, <1>5, <3>1, <4>1, AppendTrue
      <3> QED BY <1>5, <1>6, <3>1
    <2>3. ~Concludes(batch')
      BY <1>0, <1>5
    <2> QED BY <1>0, <1>3, <1>5, <2>1, <2>2, <2>3 DEF StreamInv
  <1>10. FarewellInv'
    <2>1. /\ Pending("Error") => Pending("Error")'
          /\ Asked' => Asked \/ u.pc = "ask"
          /\ (Hears(batch) \/ Hears(queue[cur]))' => Hears(batch) \/ Hears(q) \/ u.pc \in Up
      <3>1. CASE queue'[cur] = q
        BY <1>0, <1>2, <3>1, PendingSays DEF Asked, Pending, Says
      <3>2. ASSUME NEW e \in Events, queue'[cur] = Append(q, e), Tells(e, t, u)
            PROVE  /\ Pending("Error") => Pending("Error")'
                   /\ Asked' => Asked \/ u.pc = "ask"
                   /\ (Hears(batch) \/ Hears(queue[cur]))' => Hears(batch) \/ Hears(q) \/ u.pc \in Up
        <4>0. Says(q, "Error") => Says(queue'[cur], "Error")
          BY <1>3, <3>2, AppendSays
        <4>1. Pending("Error") => Pending("Error")'
          BY <1>0, <1>2, <4>0 DEF Pending, Says
        <4>2. Says(queue'[cur], "HostKeyPrompt") => Says(q, "HostKeyPrompt") \/ u.pc = "ask"
          BY <1>3, <3>2, AppendSays DEF Tells
        <4>3. Hears(queue'[cur]) => Hears(q) \/ u.pc \in Up
          BY <1>3, <3>2, AppendSays DEF Tells
        <4> QED BY <1>0, <1>2, <4>1, <4>2, <4>3 DEF Asked
      <3> QED BY <1>6, <3>1, <3>2
    <2>2. u.pc = "ended" /\ (Asked \/ Hears(batch) \/ Hears(q)) => Pending("Closed")'
      <3> SUFFICES ASSUME u.pc = "ended", Asked \/ Hears(batch) \/ Hears(q)
                   PROVE  Pending("Closed")'
        OBVIOUS
      <3>1. PICK e \in Events : queue'[cur] = Append(q, e) /\ Tells(e, t, u)
        BY <1>6
      <3>2. t.pc \notin {"start", "auth"}
        BY <1>7, <1>8 DEF Up
      <3>3. e.kind = "Closed"
        BY <3>1, <3>2 DEF Tells
      <3>4. Says(queue'[cur], "Closed")
        BY <1>3, <3>1, <3>3, AppendSays
      <3> QED BY <1>0, <3>4 DEF Pending, Says
    <2>3. Asked /\ suppress /\ u.pc \in {"hangup", "ended"} => Pending("Error")'
      <3> SUFFICES ASSUME Asked, suppress, u.pc \in {"hangup", "ended"}
                   PROVE  Pending("Error")'
        OBVIOUS
      <3>1. CASE t.pc = "hangup"
        BY <1>0, <1>2, <2>1, <3>1 DEF FarewellInv
      <3>2. CASE t.pc = "ask"
        <4>1. PICK e \in Events : queue'[cur] = Append(q, e) /\ Tells(e, t, u)
          BY <1>6
        <4>2. e.kind = "Error"
          BY <3>2, <4>1 DEF Tells
        <4>3. Says(queue'[cur], "Error")
          BY <1>3, <4>1, <4>2, AppendSays
        <4> QED BY <1>0, <4>3 DEF Pending, Says
      <3> QED BY <1>8, <3>1, <3>2
    <2> QED BY <1>0, <1>3, <2>1, <2>2, <2>3 DEF FarewellInv, Up
  <1>11. ExitInv'
    BY <1>0, <1>2, <1>3 DEF ExitInv
  <1>12. RetryInv'
    BY <1>0, <1>2, <1>3 DEF RetryInv, Over, Onward
  <1>13. UpInv'
    <2>1. t.pc \in Up \cup {"hangup"} => u.pc \in Up \cup {"hangup"} \/ Pending("Closed")'
      <3> SUFFICES ASSUME t.pc \in Up \cup {"hangup"}, u.pc = "ended"
                   PROVE  Pending("Closed")'
        BY <1>3 DEF Onward
      <3>1. PICK e \in Events : queue'[cur] = Append(q, e) /\ Tells(e, t, u)
        BY <1>6
      <3>2. e.kind = "Closed"
        BY <3>1 DEF Tells, Up
      <3>3. Says(queue'[cur], "Closed")
        BY <1>3, <3>1, <3>2, AppendSays
      <3> QED BY <1>0, <3>3 DEF Pending, Says
    <2>2. ~Pending("Closed")
      BY <1>2, <1>5 DEF Pending, Concludes, Final
    <2> QED BY <1>0, <1>2, <1>3, <2>1, <2>2 DEF UpInv
  <1> QED BY <1>9, <1>10, <1>11, <1>12, <1>13 DEF EndInv

(* Every step of every thread preserves EndInv.                            *)
LEMMA ThreadEnds ==
  ASSUME TypeOK, TrustInv, EndInv, NEW s \in Slots, Thread(s)
  PROVE  EndInv'
  <1>0. ThreadStep(s) /\ UNCHANGED tabVars /\ HandleInv
    BY DEF Thread, TrustInv
  <1>1. CASE s = cur
    <2>1. thread[s].held /\ ~thread[s].stop /\ thread[s].end \in {"Exited", "Closed", "Failed"}
      BY <1>0, <1>1, TransportAssumption DEF HandleInv, EndInv, StreamInv
    <2> QED BY <1>0, <1>1, <2>1, ThreadMoves, OwnThreadEnds
  <1>2. CASE s # cur
    BY <1>0, <1>2, OthersAside, SameEnds
  <1> QED BY <1>1, <1>2
-----------------------------------------------------------------------------
(* Replacing the transport.                                                *)

(* No transport, or one that has not said anything.                        *)
Unheard ==
  \/ cur = NoSlot
  \/ cur \in Slots /\ thread[cur] = NewThread /\ queue[cur] = << >>

(* Such a tab has nothing to account for.                                  *)
LEMMA UnheardEnds ==
  ASSUME Unheard', batch' = << >>, prompt' = NoPrompt, exit' # "shell",
         status' # "Connected",
         status' \in Retryable => login' # "active" /\ cur' = NoSlot,
         ~PasswordAuth => login' = "none" /\ ~suppress'
  PROVE  EndInv'
  <1>0. ~NewThread.stop /\ NewThread.end = "Failed" /\ NewThread.pc = "start"
    BY DEF NewThread
  <1>1. StreamInv'
    BY <1>0, EmptyTrue, TransportAssumption DEF StreamInv, Unheard
  <1>2. FarewellInv'
    BY <1>0, EmptyTrue, TransportAssumption DEF FarewellInv, Unheard
  <1>3. ExitInv'
    BY DEF ExitInv
  <1>4. RetryInv'
    BY DEF RetryInv, Over
  <1>5. UpInv'
    BY DEF UpInv
  <1> QED BY <1>1, <1>2, <1>3, <1>4, <1>5 DEF EndInv

(* start_ssh.                                                              *)
LEMMA StartUnheard ==
  ASSUME TypeOK, HandleInv, AnswerInv, StartSsh
  PROVE  /\ Unheard' /\ status' # "Connected"
         /\ status' \in Retryable => cur' = NoSlot
  <1>1. CASE cur' = NoSlot /\ status' = "Failed"
    BY <1>1 DEF Unheard
  <1>2. ASSUME NEW s \in Slots, Spawn(cur, s), cur' = s, status' = "Connecting"
        PROVE  Unheard' /\ status' # "Connected" /\ status' \notin Retryable
    <2>1. DropThread(cur) \in [Slots -> Threads]
      BY DropType DEF TypeOK, TabTypeOK
    <2>2. thread'[s] = NewThread
      BY <1>2, <2>1 DEF Spawn
    <2>3. queue'[s] = << >>
      BY <1>2, DropFacts DEF Spawn
    <2> QED BY <1>2, <2>2, <2>3 DEF Unheard, Retryable
  <1> QED BY <1>1, <1>2 DEF StartSsh

(* A tab whose exit is not settled is in the middle of a frame.            *)
LEMMA NoExit ==
  ASSUME EndInv, frame # "apply" \/ batch # << >>
  PROVE  exit # "shell"
  BY DEF EndInv, ExitInv

(* begin.                                                                  *)
LEMMA BeginEnds ==
  ASSUME TypeOK, TrustInv, EndInv, NEW jump \in BOOLEAN, Begin(jump),
         batch = << >>, batch' = << >>, prompt' = NoPrompt, exit' # "shell",
         login' # "active", suppress' => suppress,
         ~PasswordAuth => login' = "none" /\ ~suppress'
  PROVE  EndInv'
  <1>0. HandleInv /\ AnswerInv
    BY DEF TrustInv
  <1>1. CASE jump
    <2>1. cur' = NoSlot /\ status' = "Failed"
      BY <1>1 DEF Begin
    <2> QED BY <2>1, UnheardEnds DEF Unheard
  <1>2. CASE ~jump /\ ~RemoteSession
    BY <1>0, <1>2, StartUnheard, UnheardEnds DEF Begin
  <1>3. CASE ~jump /\ RemoteSession
    <2>0. UNCHANGED <<thread, queue, cur, batch>> /\ status' = "Connecting"
      BY <1>3 DEF Begin
    <2>1. StreamInv'
      BY <2>0 DEF EndInv, StreamInv
    <2>2. FarewellInv'
      BY <2>0 DEF EndInv, FarewellInv, Asked, Pending, Says
    <2>3. ExitInv' /\ RetryInv' /\ UpInv'
      BY <2>0 DEF ExitInv, RetryInv, UpInv, Retryable
    <2> QED BY <2>1, <2>2, <2>3 DEF EndInv
  <1> QED BY <1>1, <1>2, <1>3

(* prompt_login.                                                           *)
LEMMA PromptLoginEnds ==
  ASSUME PasswordAuth, PromptLogin, batch' = << >>, prompt' = NoPrompt, exit' # "shell"
  PROVE  EndInv'
  BY UnheardEnds DEF PromptLogin, Unheard, Retryable

(* restart.                                                                *)
LEMMA RestartEnds ==
  ASSUME TypeOK, TrustInv, EndInv, Restart, frame # "apply", UNCHANGED <<batch, exit>>
  PROVE  EndInv'
  <1>1. batch = << >> /\ batch' = << >> /\ exit' # "shell"
    BY NoExit DEF TrustInv, PhaseInv
  <1>2. CASE PasswordAuth /\ ~password
    BY <1>1, <1>2, PromptLoginEnds DEF Restart
  <1>3. CASE ~(PasswordAuth /\ ~password)
    BY <1>1, <1>3, BeginEnds DEF Restart, TypeOK, TabTypeOK
  <1> QED BY <1>2, <1>3

(* Shell::open.                                                            *)
LEMMA OpenEnds ==
  ASSUME TypeOK, TrustInv, EndInv, NEW stored \in BOOLEAN, NEW jump \in BOOLEAN,
         OpenTab(stored, jump)
  PROVE  EndInv'
  <1>0. ~open /\ frame = "idle" /\ UNCHANGED <<batch, exit, prompt, suppress>>
    BY DEF OpenTab
  <1>1. /\ batch = << >> /\ batch' = << >> /\ exit' # "shell"
        /\ prompt' = NoPrompt /\ login = "none"
    BY <1>0, NoExit DEF TrustInv, PhaseInv
  <1>2. CASE PasswordAuth /\ ~stored /\ ~jump
    BY <1>1, <1>2, PromptLoginEnds DEF OpenTab
  <1>3. CASE ~(PasswordAuth /\ ~stored /\ ~jump)
    <2>1. Begin(jump) /\ login' = "none"
      BY <1>1, <1>3 DEF OpenTab
    <2>2. ~PasswordAuth => ~suppress'
      BY <1>0 DEF EndInv, UpInv
    <2> QED BY <1>0, <1>1, <2>1, <2>2, BeginEnds
  <1> QED BY <1>2, <1>3

(* submit_login.                                                           *)
LEMMA SubmitEnds ==
  ASSUME TypeOK, TrustInv, EndInv, NEW typed \in BOOLEAN, SubmitLogin(typed)
  PROVE  EndInv'
  <1>0. /\ frame = "idle" /\ login = "active" /\ login' = "sent"
        /\ UNCHANGED <<batch, exit, prompt, suppress>>
        /\ Begin(jumpError) /\ jumpError \in BOOLEAN
    BY DEF SubmitLogin, Handling, TypeOK, TabTypeOK
  <1>1. /\ batch = << >> /\ batch' = << >> /\ exit' # "shell" /\ prompt' = NoPrompt
    BY <1>0, NoExit DEF TrustInv, PhaseInv, QuestionInv
  <1>2. PasswordAuth
    BY <1>0, TabAssumption DEF EndInv, UpInv
  <1> QED BY <1>0, <1>1, <1>2, BeginEnds

(* cancel_login.                                                           *)
LEMMA CancelEnds ==
  ASSUME TypeOK, TrustInv, EndInv, CancelLogin
  PROVE  EndInv'
  <1>0. /\ frame = "idle" /\ login' = "none" /\ cur' = NoSlot /\ prompt' = NoPrompt
        /\ suppress' = FALSE /\ UNCHANGED <<batch, exit>> /\ status' # "Connected"
    BY DEF CancelLogin, Handling
  <1>1. batch' = << >> /\ exit' # "shell"
    BY <1>0, NoExit DEF TrustInv, PhaseInv
  <1> QED BY <1>0, <1>1, UnheardEnds DEF Unheard

(* The entry of a closed tab.                                              *)
LEMMA CloseEnds ==
  ASSUME CloseEntry, batch' = << >>
  PROVE  EndInv'
  BY UnheardEnds DEF CloseEntry, Unheard, Retryable

-----------------------------------------------------------------------------
(* The UI thread.                                                          *)

(* Steps that leave the transport, the banner and the batch alone.         *)
LEMMA BystanderEnds ==
  ASSUME EndInv, UNCHANGED <<thread, queue, cur, prompt, batch>>,
         suppress' \in {suppress, FALSE}, login' \in {login, "none"},
         status' = status \/ (status \in Retryable /\ status' = "Reconnecting"),
         ExitInv'
  PROVE  EndInv'
  <1>0. StreamInv /\ FarewellInv /\ RetryInv /\ UpInv
    BY DEF EndInv
  <1>1. StreamInv'
    BY <1>0 DEF StreamInv
  <1>2. FarewellInv'
    BY <1>0 DEF FarewellInv, Asked, Pending, Says
  <1>4. RetryInv'
    BY <1>0 DEF RetryInv, Over
  <1>5. UpInv'
    BY <1>0 DEF UpInv, Pending
  <1> QED BY <1>1, <1>2, <1>4, <1>5 DEF EndInv

(* The user's answer to a banner.                                          *)
LEMMA RespondEnds ==
  ASSUME TypeOK, TrustInv, EndInv, NEW accept \in BOOLEAN, RespondHostKey(accept)
  PROVE  EndInv'
  <1> USE DEF TypeOK, TransportTypeOK, TabTypeOK
  <1>0. /\ prompt # NoPrompt /\ prompt' = NoPrompt /\ frame = "idle" /\ open
        /\ UNCHANGED <<queue, cur, login, suppress, batch, exit>>
        /\ status' = IF accept THEN status ELSE "Disconnected"
        /\ StreamInv /\ FarewellInv /\ RetryInv /\ UpInv
    BY DEF RespondHostKey, Handling, EndInv
  <1>1. cur \in Slots /\ cur # NoSlot /\ Waits(cur, prompt[1], prompt[2])
    BY <1>0 DEF TrustInv, QuestionInv
  <1>2. Answer(cur, accept)
    BY <1>1 DEF RespondHostKey
  <1>3. /\ thread'[cur].pc = thread[cur].pc
        /\ thread'[cur].end = thread[cur].end
        /\ thread'[cur].stop = thread[cur].stop
        /\ thread[cur].pc = "ask" => thread'[cur].answer = IF accept THEN "yes" ELSE "no"
    BY <1>1, <1>2, ThreadFields DEF Answer, Threads, Waits
  <1>4. StreamInv'
    BY <1>0, <1>1, <1>3 DEF StreamInv, AreTrue, IsTrue
  <1>5. FarewellInv'
    BY <1>0, <1>1, <1>3 DEF FarewellInv, Asked, Pending, Says
  <1>6. ExitInv'
    BY <1>0, NoExit DEF ExitInv
  <1>7. RetryInv'
    <2>1. login # "active"
      BY <1>1 DEF TrustInv, PhaseInv
    <2>2. CASE accept
      <3>1. ~(thread[cur].pc = "ask" /\ thread[cur].answer = "no")
        BY <1>1 DEF Waits
      <3> QED BY <1>0, <1>1, <1>3, <2>1, <2>2, <3>1 DEF RetryInv, Over
    <2>3. CASE ~accept
      BY <1>0, <1>1, <1>3, <2>1, <2>3 DEF RetryInv, Over, Waits
    <2> QED BY <2>2, <2>3
  <1>8. UpInv'
    BY <1>0, <1>1, <1>3 DEF UpInv, Pending
  <1> QED BY <1>4, <1>5, <1>6, <1>7, <1>8 DEF EndInv

(* Draining the channel.                                                   *)
LEMMA DrainEnds ==
  ASSUME TypeOK, TrustInv, EndInv, Drain
  PROVE  EndInv'
  <1> USE DEF TypeOK, TransportTypeOK, TabTypeOK
  <1>0. /\ UNCHANGED <<thread, status, cur, prompt, login, suppress, exit>>
        /\ batch = << >> /\ frame # "apply"
        /\ StreamInv /\ FarewellInv /\ RetryInv /\ UpInv
    BY DEF Drain, Handling, TrustInv, PhaseInv, EndInv
  <1>1. ExitInv'
    BY <1>0, NoExit DEF ExitInv
  <1>2. CASE cur = NoSlot
    <2>1. UNCHANGED <<queue, batch>>
      BY <1>2 DEF Drain
    <2> QED BY <1>0, <1>1, <2>1, BystanderEnds
  <1>3. CASE cur # NoSlot
    <2>1. cur \in Slots /\ batch' = queue[cur] /\ queue'[cur] = << >>
      BY <1>3 DEF Drain
    <2>2. StreamInv'
      BY <1>0, <1>3, <2>1, EmptyTrue DEF StreamInv
    <2>3. FarewellInv'
      BY <1>0, <1>3, <2>1, EmptyTrue DEF FarewellInv, Asked, Pending, Says
    <2>4. RetryInv'
      BY <1>0 DEF RetryInv, Over
    <2>5. UpInv'
      BY <1>0, <2>1 DEF UpInv, Pending
    <2> QED BY <1>1, <2>2, <2>3, <2>4, <2>5 DEF EndInv
  <1> QED BY <1>2, <1>3
(* Applying an event keeps true what is still to be applied.               *)
LEMMA ApplyStream ==
  ASSUME TypeOK, StreamInv, batch # << >>, batch' = Tail(batch),
         UNCHANGED <<thread, queue, cur>>
  PROVE  /\ StreamInv' /\ cur # NoSlot /\ IsTrue(Head(batch), thread[cur])
         /\ Final(Head(batch)) => batch' = << >> /\ queue[cur] = << >>
  <1> USE DEF TypeOK, TabTypeOK
  <1>1. cur # NoSlot /\ AreTrue(batch, thread[cur])
    BY DEF StreamInv
  <1>2. /\ AreTrue(batch', thread[cur]) /\ IsTrue(Head(batch), thread[cur])
        /\ Final(Head(batch)) => batch' = << >>
    BY <1>1, TailTrue
  <1>3. Concludes(batch') => Concludes(batch)
    BY TailSays
  <1>4. Final(Head(batch)) => queue[cur] = << >>
    BY <1>1, TailEvents DEF StreamInv, Concludes
  <1> QED BY <1>1, <1>2, <1>3, <1>4 DEF StreamInv

(* What is pending besides the head of the batch stays pending.            *)
LEMMA ApplyPending ==
  ASSUME TypeOK, batch # << >>, batch' = Tail(batch), UNCHANGED <<queue, cur>>
  PROVE  \A kind : Pending(kind) /\ Head(batch).kind # kind => Pending(kind)'
  <1>1. \A kind : Says(batch, kind) /\ Head(batch).kind # kind => Says(batch', kind)
    BY TailSays DEF TypeOK, TabTypeOK
  <1> QED BY <1>1 DEF Pending, Says

(* Applying an event that is not the last.                                 *)
LEMMA ApplyFarewell ==
  ASSUME TypeOK, FarewellInv, batch # << >>, batch' = Tail(batch),
         UNCHANGED <<thread, queue, cur>>, Head(batch).kind # "Closed",
         Head(batch).kind = "Error" => ~suppress', suppress' => suppress,
         prompt' # NoPrompt => Asked
  PROVE  FarewellInv'
  <1>1. /\ Pending("Closed") => Pending("Closed")'
        /\ Pending("Error") /\ suppress' => Pending("Error")'
    BY ApplyPending
  <1>2. Asked' => Asked
    BY TailSays DEF Asked, Says, TypeOK, TabTypeOK
  <1>3. Hears(batch)' => Hears(batch)
    BY TailSays DEF Hears, TypeOK, TabTypeOK
  <1> QED BY <1>1, <1>2, <1>3 DEF FarewellInv, Hears

(* SshEvent::Status.                                                       *)
LEMMA ApplyStatusEnds ==
  ASSUME TypeOK, TrustInv, EndInv, ApplyStatus
  PROVE  EndInv'
  <1>0. /\ batch # << >> /\ batch' = Tail(batch) /\ Head(batch).kind = "Status"
        /\ status' = Head(batch).val
        /\ UNCHANGED <<thread, queue, cur, prompt, login, suppress, exit>>
        /\ StreamInv /\ FarewellInv /\ UpInv
    BY DEF ApplyStatus, Applying, transportVars, EndInv
  <1>1. StreamInv' /\ cur # NoSlot /\ IsTrue(Head(batch), thread[cur])
    BY <1>0, ApplyStream
  <1>2. FarewellInv'
    BY <1>0, ApplyFarewell DEF Asked
  <1>3. ExitInv'
    BY <1>0, NoExit DEF ExitInv
  <1>4. RetryInv'
    BY <1>0, <1>1 DEF RetryInv, IsTrue, Reported, Retryable
  <1>5. UpInv'
    <2>1. status' = "Connected" =>
            Hears(batch) /\ thread[cur].pc \in Up \cup {"hangup", "ended"}
      BY <1>0, <1>1, TailSays DEF IsTrue, TypeOK, TabTypeOK
    <2>2. Hears(batch) /\ thread[cur].pc = "ended" => Pending("Closed")'
      BY <1>0, <1>1, ApplyPending DEF FarewellInv
    <2> QED BY <1>0, <1>1, <2>1, <2>2 DEF UpInv
  <1> QED BY <1>1, <1>2, <1>3, <1>4, <1>5 DEF EndInv

(* SshEvent::HostKeyPrompt.                                                *)
LEMMA ApplyPromptEnds ==
  ASSUME TypeOK, TrustInv, EndInv, ApplyHostKeyPrompt
  PROVE  EndInv'
  <1>0. /\ batch # << >> /\ batch' = Tail(batch) /\ Head(batch).kind = "HostKeyPrompt"
        /\ UNCHANGED <<thread, queue, cur, status, login, suppress, exit>>
        /\ StreamInv /\ FarewellInv /\ RetryInv /\ UpInv
    BY DEF ApplyHostKeyPrompt, Applying, transportVars, EndInv
  <1>1. StreamInv'
    BY <1>0, ApplyStream
  <1>2. Asked
    BY <1>0, TailSays DEF Asked, TypeOK, TabTypeOK
  <1>3. FarewellInv'
    BY <1>0, <1>2, ApplyFarewell
  <1>4. ExitInv'
    BY <1>0, NoExit DEF ExitInv
  <1>5. RetryInv'
    BY <1>0 DEF RetryInv, Over
  <1>6. UpInv'
    BY <1>0, ApplyPending DEF UpInv
  <1> QED BY <1>1, <1>3, <1>4, <1>5, <1>6 DEF EndInv

(* SshEvent::AuthFailed.                                                   *)
LEMMA ApplyAuthFailedEnds ==
  ASSUME TypeOK, TrustInv, EndInv, ApplyAuthFailed
  PROVE  EndInv'
  <1>0. /\ batch # << >> /\ batch' = Tail(batch) /\ Head(batch).kind = "AuthFailed"
        /\ UNCHANGED prompt
        /\ StreamInv /\ FarewellInv /\ UpInv
    BY DEF ApplyAuthFailed, Applying, EndInv
  <1>1. CASE login # "none"
    <2>0. PromptLogin /\ UNCHANGED exit
      BY <1>1 DEF ApplyAuthFailed
    <2>1. PasswordAuth
      BY <1>0, <1>1, TabAssumption DEF UpInv
    <2>2. cur # NoSlot /\ AreTrue(batch, thread[cur])
      BY <1>0 DEF StreamInv
    <2>3. batch' = << >>
      BY <1>0, <2>2, TailTrue DEF Final, TypeOK, TabTypeOK
    <2>4. Rejects(batch) /\ ~Quiet(batch)
      BY <1>0, TailEvents DEF Rejects, Quiet, TypeOK, TabTypeOK
    <2>5. prompt' = NoPrompt
      BY <1>0, <2>2, <2>4 DEF TrustInv, QuestionInv
    <2>6. exit' # "shell"
      BY <1>0, <2>0, NoExit
    <2> QED BY <2>0, <2>1, <2>3, <2>5, <2>6, PromptLoginEnds
  <1>2. CASE login = "none"
    <2>0. /\ status' = "Failed" /\ exit' = "kept"
          /\ UNCHANGED <<thread, queue, cur, login, suppress>>
      BY <1>2 DEF ApplyAuthFailed
    <2>1. StreamInv' /\ cur # NoSlot /\ IsTrue(Head(batch), thread[cur])
      BY <1>0, <2>0, ApplyStream
    <2>2. FarewellInv'
      BY <1>0, <2>0, ApplyFarewell DEF Asked
    <2>3. ExitInv'
      BY <2>0 DEF ExitInv
    <2>4. RetryInv'
      BY <1>0, <1>2, <2>0, <2>1 DEF RetryInv, Over, IsTrue
    <2>5. UpInv'
      BY <1>0, <2>0 DEF UpInv
    <2> QED BY <2>1, <2>2, <2>3, <2>4, <2>5 DEF EndInv
  <1> QED BY <1>1, <1>2

(* SshEvent::Error.                                                        *)
LEMMA ApplyErrorEnds ==
  ASSUME TypeOK, TrustInv, EndInv, ApplyError
  PROVE  EndInv'
  <1>0. /\ batch # << >> /\ batch' = Tail(batch) /\ Head(batch).kind = "Error"
        /\ UNCHANGED <<thread, queue, cur, prompt>>
        /\ login' = "none" /\ suppress' = FALSE /\ status' = "Failed" /\ exit' = "kept"
        /\ StreamInv /\ FarewellInv
    BY DEF ApplyError, Applying, transportVars, EndInv
  <1>1. StreamInv' /\ cur # NoSlot /\ IsTrue(Head(batch), thread[cur])
    BY <1>0, ApplyStream
  <1>2. FarewellInv'
    BY <1>0, ApplyFarewell DEF Asked
  <1>3. ExitInv' /\ UpInv'
    BY <1>0 DEF ExitInv, UpInv
  <1>4. RetryInv'
    BY <1>0, <1>1 DEF RetryInv, Over, IsTrue
  <1> QED BY <1>1, <1>2, <1>3, <1>4 DEF EndInv

(* SshEvent::Closed.                                                       *)
LEMMA ApplyClosedEnds ==
  ASSUME TypeOK, TrustInv, EndInv, ApplyClosed
  PROVE  EndInv'
  <1> DEFINE end == Head(batch).val
  <1>0. /\ batch # << >> /\ batch' = Tail(batch) /\ Head(batch).kind = "Closed"
        /\ UNCHANGED <<thread, queue, cur, login, frame>> /\ frame = "apply"
        /\ StreamInv /\ FarewellInv /\ ExitInv /\ UpInv
    BY DEF ApplyClosed, Applying, transportVars, EndInv
  <1>1. /\ StreamInv' /\ cur # NoSlot /\ IsTrue(Head(batch), thread[cur])
        /\ batch' = << >> /\ queue[cur] = << >>
    BY <1>0, ApplyStream DEF Final
  <1>2. thread[cur].pc = "ended" /\ end = thread[cur].end
    BY <1>0, <1>1 DEF IsTrue
  <1>3. end \in {"Exited", "Closed", "Failed"}
    BY <1>0, <1>1, <1>2 DEF StreamInv
  <1>4. login # "active"
    BY <1>1 DEF TrustInv, PhaseInv
  <1>5. prompt' = NoPrompt /\ ~suppress'
    <2>1. CASE ~suppress
      BY <2>1 DEF ApplyClosed
    <2>2. CASE suppress
      <3>1. UNCHANGED prompt /\ ~suppress'
        BY <2>2 DEF ApplyClosed
      <3>2. Head(batch).kind # "Error"
        BY <1>0
      <3>3. ~Says(batch', "Error") /\ ~Says(queue[cur], "Error")
        BY <1>1, EmptyTrue
      <3>4. ~Pending("Error")
        BY <1>0, <3>2, <3>3, ApplyPending DEF Pending, Says
      <3>5. ~Asked
        BY <1>0, <1>1, <1>2, <2>2, <3>4 DEF FarewellInv
      <3> QED BY <3>1, <3>5 DEF Asked
    <2> QED BY <2>1, <2>2
  <1>6. FarewellInv'
    BY <1>0, <1>1, <1>5, EmptyTrue DEF FarewellInv, Asked
  <1>7. ExitInv'
    <2>1. exit' = "shell" => ByShell(end)
      BY <1>0, NoExit DEF ApplyClosed
    <2> QED BY <1>0, <1>1, <1>2, <1>3, <2>1 DEF ExitInv, ByShell
  <1>8. RetryInv'
    BY <1>0, <1>1, <1>2, <1>4 DEF RetryInv, Over
  <1>9. UpInv'
    <2>1. ~suppress => status' # "Connected"
      BY DEF ApplyClosed, ClosedStatus
    <2> QED BY <1>0, <1>5, <2>1 DEF UpInv
  <1> QED BY <1>1, <1>6, <1>7, <1>8, <1>9 DEF EndInv
-----------------------------------------------------------------------------
(* The theorems.                                                           *)

(* Every click preserves EndInv.                                           *)
LEMMA UserEnds == TypeOK /\ TrustInv /\ EndInv /\ UserStep => EndInv'
  <1> SUFFICES ASSUME TypeOK, TrustInv, EndInv, UserStep PROVE EndInv'
    OBVIOUS
  <1>0. frame # "apply" => batch = << >> /\ exit # "shell"
    BY NoExit DEF TrustInv, PhaseInv
  <1>1. CASE \E stored \in BOOLEAN, jump \in JumpErrors : OpenTab(stored, jump)
    BY <1>1, OpenEnds, TabAssumption
  <1>2. CASE CloseTab
    BY <1>0, <1>2, CloseEnds DEF CloseTab, Handling
  <1>3. CASE Reconnect
    BY <1>3, RestartEnds DEF Reconnect, Handling
  <1>4. CASE \E accept \in BOOLEAN : RespondHostKey(accept)
    BY <1>4, RespondEnds
  <1>5. CASE \E typed \in BOOLEAN : SubmitLogin(typed)
    BY <1>5, SubmitEnds
  <1>6. CASE CancelLogin
    BY <1>6, CancelEnds
  <1>7. CASE ApplyConnection \/ FocusChange
    <2>1. /\ UNCHANGED <<thread, queue, cur, prompt, batch, suppress, login, status, exit>>
          /\ frame = "idle"
      BY <1>7 DEF ApplyConnection, FocusChange, transportVars, Handling
    <2>2. ExitInv'
      BY <1>0, <2>1 DEF ExitInv
    <2> QED BY <2>1, <2>2, BystanderEnds
  <1> QED BY <1>1, <1>2, <1>3, <1>4, <1>5, <1>6, <1>7 DEF UserStep

(* Every step of a frame preserves EndInv.                                 *)
LEMMA FrameEnds == TypeOK /\ TrustInv /\ EndInv /\ FrameStep => EndInv'
  <1> SUFFICES ASSUME TypeOK, TrustInv, EndInv, FrameStep PROVE EndInv'
    OBVIOUS
  <1>0. /\ frame # "apply" => batch = << >> /\ exit # "shell"
        /\ HandleInv /\ AnswerInv /\ PhaseInv
    BY NoExit DEF TrustInv, PhaseInv
  <1>1. CASE PumpProbing
    <2>1. /\ UNCHANGED <<thread, queue, cur, prompt, batch, suppress, login, status, exit>>
          /\ frame = "idle"
      BY <1>1 DEF PumpProbing, transportVars, Handling
    <2>2. ExitInv'
      BY <1>0, <2>1 DEF ExitInv
    <2> QED BY <2>1, <2>2, BystanderEnds
  <1>2. CASE FinishProbe
    <2>1. /\ StartSsh /\ frame = "idle" /\ probe = "done"
          /\ UNCHANGED <<batch, exit, prompt, login, suppress>>
      BY <1>2 DEF FinishProbe, Handling
    <2>2. batch' = << >> /\ exit' # "shell" /\ prompt' = NoPrompt /\ login' # "active"
      BY <1>0, <2>1 DEF PhaseInv
    <2>3. ~PasswordAuth => login' = "none" /\ ~suppress'
      BY <2>1 DEF EndInv, UpInv
    <2> QED BY <1>0, <2>1, <2>2, <2>3, StartUnheard, UnheardEnds
  <1>3. CASE Drain
    BY <1>3, DrainEnds
  <1>4. CASE ApplyStatus
    BY <1>4, ApplyStatusEnds
  <1>5. CASE ApplyHostKeyPrompt
    BY <1>5, ApplyPromptEnds
  <1>6. CASE ApplyAuthFailed
    BY <1>6, ApplyAuthFailedEnds
  <1>7. CASE ApplyClosed
    BY <1>7, ApplyClosedEnds
  <1>8. CASE ApplyError
    BY <1>8, ApplyErrorEnds
  <1>9. CASE SettleExit
    BY <1>9, CloseEnds DEF SettleExit, Settled
  <1>10. CASE SettleKept
    <2>1. /\ UNCHANGED <<thread, queue, cur, prompt, batch, status>>
          /\ suppress' \in {suppress, FALSE} /\ login' \in {login, "none"}
          /\ exit' = "none"
      BY <1>10 DEF SettleKept, transportVars
    <2>2. ExitInv'
      BY <2>1 DEF ExitInv
    <2> QED BY <2>1, <2>2, BystanderEnds
  <1>11. CASE RunRetry
    BY <1>11, RestartEnds DEF RunRetry, Scheduling
  <1>12. CASE DropTimer \/ BookRetry \/ LeaveTimer
    <2>1. /\ UNCHANGED <<thread, queue, cur, prompt, batch, suppress, login, exit>>
          /\ frame = "schedule"
          /\ status' = status \/ (status \in Retryable /\ status' = "Reconnecting")
      BY <1>12 DEF DropTimer, BookRetry, MayBook, LeaveTimer, Scheduling, transportVars
    <2>2. ExitInv'
      BY <1>0, <2>1 DEF ExitInv
    <2> QED BY <2>1, <2>2, BystanderEnds
  <1> QED BY <1>1, <1>2, <1>3, <1>4, <1>5, <1>6, <1>7, <1>8, <1>9, <1>10, <1>11, <1>12
          DEF FrameStep

(* A program without tabs.                                                 *)
LEMMA InitEnds == Init => EndInv
  <1> SUFFICES ASSUME Init PROVE EndInv
    OBVIOUS
  <1>1. StreamInv
    BY DEF Init, StreamInv
  <1>2. FarewellInv /\ ExitInv /\ RetryInv /\ UpInv
    BY DEF Init, FarewellInv, ExitInv, RetryInv, UpInv, Retryable
  <1> QED BY <1>1, <1>2 DEF EndInv

(* EndInv is inductive on top of TrustInv.                                 *)
LEMMA NextEnds == TypeOK /\ TrustInv /\ EndInv /\ [Next]_vars => EndInv'
  <1> SUFFICES ASSUME TypeOK, TrustInv, EndInv, [Next]_vars PROVE EndInv'
    OBVIOUS
  <1>1. CASE FrameStep
    BY <1>1, FrameEnds
  <1>2. CASE UserStep
    BY <1>2, UserEnds
  <1>3. CASE RetryDue \/ ProbeAnswers \/ Rotate \/ UNCHANGED vars
    <2>1. UNCHANGED <<thread, queue, cur, prompt, batch, suppress, login, status, exit, frame>>
      BY <1>3 DEF RetryDue, ProbeAnswers, Rotate, RotateKey, vars, tabVars, transportVars
    <2>2. ExitInv'
      BY <2>1 DEF EndInv, ExitInv
    <2> QED BY <2>1, <2>2, BystanderEnds
  <1>4. CASE \E s \in Slots : Thread(s)
    BY <1>4, ThreadEnds
  <1> QED BY <1>1, <1>2, <1>3, <1>4 DEF Next

(* TypeOK, TrustInv and EndInv together, in every reachable state.         *)
LEMMA EndsHold == Spec => [](TypeOK /\ TrustInv /\ EndInv)
  BY InitTrust, NextTrust, InitEnds, NextEnds, TypeCorrect, PTL DEF Spec

(* A host-key banner belongs to the question the thread behind the tab     *)
(* waits on, or to one that thread has given up and whose Closed takes the *)
(* banner down: respond_host_key never answers a question that was not     *)
(* shown.                                                                  *)
THEOREM BannerIsCurrent == Spec => []PromptIsCurrent
  <1>1. TypeOK /\ TrustInv /\ EndInv => PromptIsCurrent
    <2> SUFFICES ASSUME TypeOK, TrustInv, EndInv, prompt # NoPrompt
                 PROVE  /\ cur # NoSlot
                        /\ \/ /\ thread[cur].pc = "ask"
                              /\ thread[cur].answer = "none"
                              /\ prompt = <<thread[cur].hop, thread[cur].key>>
                           \/ thread[cur].pc = "hangup"
                           \/ Pending("Closed")
      BY DEF PromptIsCurrent
    <2>1. cur # NoSlot /\ Waits(cur, prompt[1], prompt[2])
      BY DEF TrustInv, QuestionInv
    <2>2. prompt = <<prompt[1], prompt[2]>>
      BY DEF TypeOK, TabTypeOK, Prompts
    <2>3. thread[cur].pc = "ended" => Pending("Closed")
      BY <2>1 DEF EndInv, FarewellInv, Asked
    <2> QED BY <2>1, <2>2, <2>3 DEF Waits
  <1> QED BY <1>1, EndsHold, PTL

(* schedule_reconnects replaces a transport only when it is over or was    *)
(* refused by the user, and never while a password is typed.               *)
THEOREM RetriesSpareTheLiving == Spec => RetrySparesLiveTransport
  <1>1. EndInv /\ RunRetry =>
          /\ login # "active"
          /\ \/ cur = NoSlot
             \/ thread[cur].pc \in {"hangup", "ended"}
             \/ thread[cur].pc = "ask" /\ thread[cur].answer = "no"
    BY DEF RunRetry, DueNow, EndInv, RetryInv, Over
  <1> QED BY <1>1, EndsHold, PTL DEF RetrySparesLiveTransport

(* Shell::pump closes a tab by itself only when the server ended its       *)
(* session: a Disconnect of the app's own, or a failure, never does.       *)
THEOREM ExitsAreTheServers == Spec => TabClosesOnlyOnServerEnd
  <1>1. EndInv /\ SettleExit =>
          /\ cur # NoSlot
          /\ thread[cur].pc = "ended"
          /\ thread[cur].end \in {"Exited", "Closed"}
    BY DEF SettleExit, EndInv, ExitInv
  <1> QED BY <1>1, EndsHold, PTL DEF TabClosesOnlyOnServerEnd

(* Where no password is typed (a key or the agent), a tab that says        *)
(* Connected has a transport, or the Closed that takes the word back is on *)
(* its way.                                                                *)
THEOREM ConnectedIsTrue == ASSUME ~PasswordAuth PROVE Spec => []ConnectedHasTransport
  <1>1. EndInv => ConnectedHasTransport
    BY DEF EndInv, UpInv, ConnectedHasTransport, Up
  <1> QED BY <1>1, EndsHold, PTL
=============================================================================
