------------------------------- MODULE AgentLoop -------------------------------
(***************************************************************************)
(* The loop of the AI agent: Agent in                                      *)
(* crates/wassh-plugins/src/ai_agent/agent.rs and the frames of its pane   *)
(* (view.rs), over the commands of the tab.  A conversation is a history   *)
(* of messages; a reply may ask for tools, whose calls are run one after   *)
(* the other and answered into the history, and then the model is asked    *)
(* again.                                                                  *)
(*                                                                         *)
(* What a call does, and what the rules allow, is left open: a call is     *)
(* answered at once or parks the agent in some phase.  Reads, uploads,     *)
(* worker threads and the terminal (a "worker" too) answer when they do.   *)
(***************************************************************************)
EXTENDS TabCommands, Lists, FiniteSets

CONSTANTS UniqueIds,   \* the provider names each call; if not, call_<index> does
          MaxCalls,    \* tool calls over the life of the pane
          MaxHistory   \* messages of a conversation

ASSUME AgentLoopAssumption ==
  /\ {"exec", "probe"} \subseteq Labels
  /\ UniqueIds \in BOOLEAN
  /\ MaxCalls \in Nat /\ MaxHistory \in Nat

VARIABLES phase,       \* Agent::phase
          waiting,     \* Waiting, of the Running phase
          call,        \* the call in flight, or NoCall
          queue,       \* Agent::queue
          history,     \* Agent::history
          needsReply,  \* Agent::needs_reply
          turns,       \* the user turns of Agent::turns
          injected,    \* how many messages Agent::injected holds
          called,      \* how many calls were named
          left         \* history: commands the agent stopped waiting for

agentVars == <<phase, waiting, call, queue, history, needsReply, turns,
               injected, called, left>>

NoCall == 0

Calls == 1..MaxCalls

Phases == {"none", "Streaming", "Approving", "Allowing", "Running", "Asking", "Sudo"}

Waitings == {"none", "exec", "probe", "exists", "read", "upload", "worker"}

Messages == [role : {"user", "assistant", "tool"},
             calls : Seq(Calls),   \* what an assistant asked for
             id : Calls \cup {NoCall},  \* the call a tool message answers
             text : BOOLEAN]

UserMessage == [role |-> "user", calls |-> << >>, id |-> NoCall, text |-> TRUE]

Assistant(calls, text) ==
  [role |-> "assistant", calls |-> calls, id |-> NoCall, text |-> text]

Tool(c) == [role |-> "tool", calls |-> << >>, id |-> c, text |-> TRUE]

AgentTypeOK ==
  /\ LinkTypeOK /\ CommandsTypeOK
  /\ phase \in Phases /\ waiting \in Waitings
  /\ call \in Calls \cup {NoCall} /\ queue \in Seq(Calls)
  /\ history \in Seq(Messages)
  /\ needsReply \in BOOLEAN
  /\ turns \in Nat /\ injected \in Nat
  /\ called \in 0..MaxCalls
  /\ left \subseteq Asks

AgentInit ==
  /\ LinkInit /\ CommandsInit
  /\ phase = "none" /\ waiting = "none" /\ call = NoCall /\ queue = << >>
  /\ history = << >> /\ needsReply = FALSE
  /\ turns = 0 /\ injected = 0
  /\ called = 0 /\ left = {}

Blocked == phase # "none"

-----------------------------------------------------------------------------
(* Running the calls: dispatch, run_tool, settle and advance.              *)

LabelOf(w) == IF w = "exec" THEN "exec" ELSE "probe"

OnCommand == phase = "Running" /\ waiting \in {"exec", "probe", "exists"}

(* A tool that runs: through the tab's commands, or on its own.            *)
Runs(w) ==
  /\ phase' = "Running" /\ waiting' = w
  /\ IF w \in {"exec", "probe", "exists"} THEN StartCommand(LabelOf(w))
     ELSE w \in {"read", "worker"} /\ UNCHANGED commandVars

Prompts(p) == phase' = p /\ waiting' = "none" /\ UNCHANGED commandVars

(* Where the call in flight may get from the phase the user just answered. *)
Parks(from) ==
  \/ \E w \in Waitings : (from \in {"Approving", "Sudo"} => w = "exec") /\ Runs(w)
  \/ from = "none" /\ Prompts("Allowing")
  \/ from \in {"none", "Allowing"} /\ (Prompts("Approving") \/ Prompts("Asking"))
  \/ from # "Sudo" /\ Prompts("Sudo")

Rests == phase' = "none" /\ waiting' = "none" /\ UNCHANGED commandVars

(* advance, with h the history and q the calls still to run: some of them  *)
(* are answered on the spot, by a rule, a bad argument or a local tool.    *)
Advance(h, q) ==
  \E n \in 0..Len(q) :
    /\ history' = h \o [i \in 1..n |-> Tool(q[i])]
    /\ queue' = SubSeq(q, n + 2, Len(q))
    /\ IF n = Len(q)
       THEN call' = NoCall /\ needsReply' = TRUE /\ Rests
       ELSE call' = q[n + 1] /\ UNCHANGED needsReply /\ Parks("none")

Settle ==
  /\ Advance(Append(history, Tool(call)), queue)
  /\ UNCHANGED <<turns, injected, called>>

(* begin_tool of the call in flight goes on.                               *)
Goes(from) ==
  /\ Parks(from)
  /\ UNCHANGED <<call, queue, history, needsReply, turns, injected, called>>

-----------------------------------------------------------------------------
(* The head of a frame: Agent::poll, flush_injected and the next request.  *)

UserMessages(n) == [i \in 1..n |-> UserMessage]

Answered(h) == {h[i].id : i \in {j \in DOMAIN h : h[j].role = "tool"}}

KeptCalls(h, message) == [message EXCEPT !.calls = Only(@, Answered(h))]

(* Slip: every history is taken as it is.                                  *)
Unrepaired(h) == h

(* repair_history: a call that has no answer anywhere goes, and a turn     *)
(* with nothing left in it.                                                *)
Worth == {message \in Messages : message.text \/ message.calls # << >>}

Repaired(h) == Only([i \in DOMAIN h |-> KeptCalls(h, h[i])], Worth)

(* request and start.                                                      *)
Request(h) ==
  /\ history' = Repaired(h)
  /\ phase' = "Streaming"
  /\ UNCHANGED <<waiting, call, queue>>

(* The head of the frame found nothing left to do, so a click of this      *)
(* frame is what comes next.                                               *)
HeadDone == phase = "none" => ~needsReply /\ injected = 0

AskModel ==
  /\ phase = "none" /\ (needsReply \/ injected > 0)
  /\ Request(history \o UserMessages(injected))
  /\ needsReply' = FALSE /\ injected' = 0
  /\ UNCHANGED <<turns, called, left, commandVars>>

(* The ids of n calls.  A stream without ids numbers the calls of each     *)
(* reply (StreamParser::finish in providers.rs).                           *)
Named(n) == [i \in 1..n |-> IF UniqueIds THEN called + i ELSE i]

(* finish_reply.                                                           *)
ReplyArrives ==
  /\ phase = "Streaming"
  /\ \/ Rests /\ UNCHANGED <<call, queue, history, needsReply, called>>
     \/ \E n \in 0..2, text \in BOOLEAN :
          LET h == Append(history, Assistant(Named(n), text))
          IN  /\ n > 0 \/ text
              /\ called + n <= MaxCalls /\ Len(h) + n <= MaxHistory
              /\ called' = called + n
              /\ IF n > 0 THEN Advance(h, Named(n))
                 ELSE history' = h /\ Rests /\ UNCHANGED <<call, queue, needsReply>>
  /\ UNCHANGED <<turns, injected, left>>

Uploads ==
  /\ waiting' = "upload"
  /\ UNCHANGED <<phase, call, queue, history, needsReply, turns, injected, called,
                 commandVars>>

(* The command behind the call in flight, unless its answer is there.      *)
Unanswered(k) == {latest[k]} \ {0, results[k].ask}

LeftNow == IF OnCommand THEN Unanswered(LabelOf(waiting)) ELSE {}

(* poll_tool, on a command: the answer that is stored under its label,     *)
(* whichever command it is of.                                             *)
CommandAnswers ==
  LET k == LabelOf(waiting)
  IN  /\ OnCommand /\ results[k].kind # "none"
      /\ Settle \/ (waiting = "exists" /\ Uploads)
      /\ left' = left \cup Unanswered(k)

(* poll_tool, on anything else; an edit goes on with an upload.            *)
ToolAnswers ==
  /\ phase = "Running" /\ ~OnCommand
  /\ Settle \/ (waiting = "read" /\ Uploads)
  /\ UNCHANGED left

-----------------------------------------------------------------------------
(* Clicks.                                                                 *)

(* push_user and the request that goes with it.                            *)
SendMessage ==
  /\ phase = "none" /\ HeadDone
  /\ turns < MaxHistory /\ Len(history) < MaxHistory
  /\ Request(Append(history, UserMessage))
  /\ turns' = turns + 1
  /\ UNCHANGED <<needsReply, injected, called, left, commandVars>>

(* inject_user.                                                            *)
Inject ==
  /\ Blocked /\ turns < MaxHistory /\ Len(history) + injected < MaxHistory
  /\ turns' = turns + 1 /\ injected' = injected + 1
  /\ UNCHANGED <<phase, waiting, call, queue, history, needsReply, called, left,
                 commandVars>>

(* Continue, after a run that was cut off.                                 *)
Resume ==
  /\ phase = "none" /\ HeadDone
  /\ history # << >> /\ history[Len(history)].role \in {"user", "tool"}
  /\ Request(history)
  /\ UNCHANGED <<needsReply, turns, injected, called, left, commandVars>>

(* answer_permission, approve, answer, submit_sudo and cancel_sudo.        *)
Answer ==
  /\ phase \in {"Allowing", "Approving", "Asking", "Sudo"}
  /\ Settle \/ (phase # "Asking" /\ Goes(phase))
  /\ UNCHANGED left

(* stop: the call in flight is answered, the others are dropped, and what  *)
(* runs on the host goes on.                                               *)
Stop ==
  /\ phase \in {"Streaming", "Running"}
  /\ Rests
  /\ call' = NoCall /\ queue' = << >>
  /\ history' = IF phase = "Streaming" THEN history ELSE Append(history, Tool(call))
  /\ left' = left \cup LeftNow
  /\ UNCHANGED <<needsReply, turns, injected, called>>

(* stop_command: the card of the command that runs.                        *)
StopCommand ==
  /\ OnCommand
  /\ Cancel(LabelOf(waiting))
  /\ UNCHANGED agentVars

(* rewind_to the i-th user turn, which is taken for the i-th user message. *)
Rewind ==
  /\ phase = "none" /\ HeadDone
  /\ \E i \in 1..turns :
       LET users == {j \in DOMAIN history : history[j].role = "user"}
           cuts == {j \in users : Cardinality({k \in users : k < j}) = i - 1}
       IN  /\ turns' = i - 1
           /\ history' = IF cuts = {} THEN history
                         ELSE SubSeq(history, 1, (CHOOSE j \in cuts : TRUE) - 1)
  /\ needsReply' = FALSE
  /\ UNCHANGED <<phase, waiting, call, queue, injected, called, left, commandVars>>

(* clear.                                                                  *)
Cleared ==
  /\ Rests
  /\ call' = NoCall /\ queue' = << >> /\ needsReply' = FALSE /\ injected' = 0
  /\ left' = left \cup LeftNow
  /\ UNCHANGED called

NewChat ==
  /\ HeadDone /\ turns > 0
  /\ Cleared
  /\ history' = << >> /\ turns' = 0

(* The conversation is set aside and opened again, or the application is   *)
(* started again: what is stored of it is its turns and its history.       *)
Reopen ==
  /\ HeadDone /\ turns > 0
  /\ Cleared
  /\ UNCHANGED <<history, turns>>

AgentStep ==
  \/ AskModel \/ ReplyArrives \/ CommandAnswers \/ ToolAnswers
  \/ SendMessage \/ Inject \/ Resume \/ Answer \/ Stop \/ StopCommand
  \/ Rewind \/ NewChat \/ Reopen

(* The panes beside the agent, the frames of the tab and the host.         *)
OthersStep ==
  /\ \/ \E k \in Labels \ {"exec", "probe"} : Ask(k) \/ Cancel(k)
     \/ PollCommands
     \/ \E a \in Asks : TaskStep(a)
  /\ UNCHANGED agentVars

-----------------------------------------------------------------------------
(* Properties.                                                             *)

(* The tool messages that directly follow message i.                       *)
Following(h, i) ==
  {k \in DOMAIN h : k > i /\ \A m \in (i + 1)..k : h[m].role = "tool"}

(* What a provider takes: each call is answered once, right behind the     *)
(* turn that made it, and nothing is answered that was not asked.          *)
Accepted(h) ==
  \A i \in DOMAIN h :
    LET answers == Following(h, i)
    IN  h[i].role # "tool" =>
          /\ {h[k].id : k \in answers} = Elements(h[i].calls)
          /\ Cardinality(answers) = Len(h[i].calls)

(* "an assistant turn that asked for a tool must be followed by that       *)
(* tool's result, or the next request fails with a 400"                    *)
(* (crates/wassh-plugins/src/ai_agent/agent.rs:1772): however a run was    *)
(* stopped, cut off, rewound or opened again, what goes out is accepted.   *)
RequestsAreAccepted ==
  phase = "Streaming" => history # << >> /\ history[1].role # "tool" /\ Accepted(history)

(* An answer that is stored under a label of the agent and is not the      *)
(* answer to its last command there is that of a command it stopped        *)
(* waiting for: nothing else mixes two calls up.                           *)
OnlyLeftCommandsMixUp ==
  \A k \in {"exec", "probe"} :
    results[k].kind # "none" /\ results[k].ask # latest[k] => results[k].ask \in left

(* "Turns and provider messages line up one user turn per user message"    *)
(* (agent.rs:465).                                                         *)
TurnsLineUp ==
  turns = Cardinality({i \in DOMAIN history : history[i].role = "user"}) + injected
=============================================================================
