-------------------------------- MODULE Telnet --------------------------------
(***************************************************************************)
(* One Telnet connection: the byte filter of                               *)
(* crates/wassh-telnet/src/codec.rs, the thread and its handle in          *)
(* crates/wassh-telnet/src/session.rs, and a server that negotiates as     *)
(* RFC 854 says: it asks for a change of an option, answers a request for  *)
(* one, and never acknowledges what it is already doing.  A terminal size  *)
(* is one byte, so the largest needs the escape; a terminal type is one    *)
(* byte too.                                                               *)
(***************************************************************************)
EXTENDS Naturals, SequencesExt, Lists

IAC == 255  DONT == 254  DO == 253  WONT == 252  WILL == 251  SB == 250  NOP == 241
SE == 240   ECHO == 1    SGA == 3   TTYPE == 24  NAWS == 31   SEND == 1  IS == 0

CONSTANTS Sizes,       \* sizes a terminal may have
          Typed,       \* bytes the user and the host may send
          Agreements,  \* sets of options, one of which the server agrees to
          Asked,       \* options the server asks about by itself
          MaxTyped, MaxOutput, MaxResizes, MaxAsks, MaxCuts   \* bounds

Byte == 0..255

ASSUME TelnetAssumption ==
  /\ Sizes \subseteq Byte /\ Typed \subseteq Byte /\ Sizes # {}
  /\ Agreements \subseteq SUBSET Byte /\ Agreements # {} /\ Asked \subseteq Byte

VARIABLES link,      \* the thread: "connecting", "up" or "ended"
          filter,    \* TelnetFilter
          size,      \* TelnetSession::size, the size of the terminal
          commands,  \* TelnetCommands the thread has not taken
          closed,    \* what Closed said: "no", "local" or "remote"
          toServer, toClient,   \* bytes on the way
          server,    \* the server
          typed, shown, output, \* data from the user, to the terminal, from the host
          budget     \* what the bounds leave

client == <<link, filter, size, commands, closed>>
telnetVars == <<client, toServer, toClient, server, typed, shown, output, budget>>

Bounds == [typed |-> MaxTyped, output |-> MaxOutput, resizes |-> MaxResizes,
           asks |-> MaxAsks, cuts |-> MaxCuts]

Spend(what) == budget[what] > 0 /\ budget' = [budget EXCEPT ![what] = @ - 1]

-----------------------------------------------------------------------------
(* The filter.                                                             *)

(* Slip: the byte that introduces commands is sent as it is.               *)
EscapeNothing(data) == data

Escape(data) ==
  Along([x \in Seq(Byte) \X Byte |->
           x[1] \o (IF x[2] = IAC THEN <<IAC, IAC>> ELSE <<x[2]>>)], <<>>, data)

Payload(s) == <<IAC, SB, NAWS>> \o Escape(<<s>>) \o <<IAC, SE>>

FilterStates == {"Data", "Iac", "Will", "Wont", "Do", "Dont", "Sub", "SubIac"}

Filters == [state : FilterStates, sub : Seq(Byte), naws : BOOLEAN, size : Sizes,
            replies : Seq(Byte), app : Seq(Byte)]

NewFilter(s) == [state |-> "Data", sub |-> <<>>, naws |-> FALSE, size |-> s,
                 replies |-> <<>>, app |-> <<>>]

Greeting == <<IAC, DO, SGA>> \o <<IAC, WILL, SGA>> \o <<IAC, DO, ECHO>>
              \o <<IAC, WILL, NAWS>> \o <<IAC, WILL, TTYPE>>

Reply(f, bytes) == [f EXCEPT !.replies = @ \o bytes]

To(f, state) == [f EXCEPT !.state = state]

(* The terminal type is the byte 120.                                      *)
OnSubnegotiation(f) ==
  IF Len(f.sub) >= 2 /\ f.sub[1] = TTYPE /\ f.sub[2] = SEND
    THEN Reply(f, <<IAC, SB, TTYPE, IS, 120, IAC, SE>>)
    ELSE f

Introduces(b) == CASE b = WILL -> "Will" [] b = WONT -> "Wont" [] b = DO -> "Do"
                   [] b = DONT -> "Dont" [] OTHER -> "Data"

OnIac(f, b) ==
  CASE b = IAC -> [To(f, "Data") EXCEPT !.app = Append(@, IAC)]
    [] b = SB -> [To(f, "Sub") EXCEPT !.sub = <<>>]
    [] OTHER -> To(f, Introduces(b))

(* Slip: what the filter cannot do is not answered.                        *)
OnWillSilent(f, b) ==
  IF b \in {ECHO, SGA} THEN Reply(f, <<IAC, DO, b>>) ELSE f

OnWill(f, b) == Reply(f, <<IAC, IF b \in {ECHO, SGA} THEN DO ELSE DONT, b>>)

OnDo(f, b) ==
  CASE b \in {SGA, TTYPE} -> Reply(f, <<IAC, WILL, b>>)
    [] b = NAWS -> [Reply(f, <<IAC, WILL, NAWS>> \o Payload(f.size)) EXCEPT !.naws = TRUE]
    [] OTHER -> Reply(f, <<IAC, WONT, b>>)

OnRefusal(f, b) == IF b = NAWS THEN [f EXCEPT !.naws = FALSE] ELSE f

OnSubIac(f, b) ==
  CASE b = IAC -> [To(f, "Sub") EXCEPT !.sub = Append(@, IAC)]
    [] b = SE -> [To(OnSubnegotiation(f), "Data") EXCEPT !.sub = <<>>]
    [] OTHER -> To(f, "Sub")

Step(f, b) ==
  CASE f.state = "Data" ->
         IF b = IAC THEN To(f, "Iac") ELSE [f EXCEPT !.app = Append(@, b)]
    [] f.state = "Iac" -> OnIac(f, b)
    [] f.state = "Will" -> To(OnWill(f, b), "Data")
    [] f.state = "Do" -> To(OnDo(f, b), "Data")
    [] f.state \in {"Wont", "Dont"} -> To(OnRefusal(f, b), "Data")
    [] f.state = "Sub" ->
         IF b = IAC THEN To(f, "SubIac") ELSE [f EXCEPT !.sub = Append(@, b)]
    [] f.state = "SubIac" -> OnSubIac(f, b)

Feed(f, chunk) == Along([x \in Filters \X Byte |-> Step(x[1], x[2])], f, chunk)

(* What the handle asks of the thread.                                     *)
Commands == {"write"} \X {<<b>> : b \in Typed} \union {"resize"} \X Sizes
              \union {<<"disconnect", 0>>}

(* TelnetFilter::resize: what there is to send is in replies.              *)
Resized(f, s) ==
  IF s = f.size THEN f
  ELSE [f EXCEPT !.size = s, !.replies = IF f.naws THEN Payload(s) ELSE <<>>]

-----------------------------------------------------------------------------
(* The server: it puts bytes together to messages and answers each.        *)

Servers == [up : BOOLEAN, agrees : SUBSET Byte, at : Seq(Byte), replies : Seq(Byte),
            got : Seq(Byte), seen : 0..256, on : SUBSET Byte, doing : SUBSET Byte,
            pending : SUBSET (Byte \X Byte)]

NewServer(agrees) ==
  [up |-> TRUE, agrees |-> agrees, at |-> <<>>, replies |-> <<>>, got |-> <<>>,
   seen |-> 256, on |-> {}, doing |-> {}, pending |-> {}]

(* An SE ends a subnegotiation when the run of IACs before it is odd.      *)
IacsBefore(s, i) ==
  IF s[i - 1] # IAC THEN 0
  ELSE IF s[i - 2] # IAC THEN 1 ELSE IF s[i - 3] # IAC THEN 2 ELSE 3

IsMessage(s) ==
  \/ s[1] # IAC
  \/ Len(s) = 2 /\ s[2] \in {IAC, NOP}
  \/ Len(s) = 3 /\ s[2] \in {DO, DONT, WILL, WONT}
  \/ Len(s) >= 5 /\ s[2] = SB /\ s[Len(s)] = SE /\ IacsBefore(s, Len(s)) % 2 = 1

Messages == {m \in Seq(Byte) : m # <<>> /\ IsMessage(m)}

Collections == [at : Seq(Byte), msgs : Seq(Messages)]

Collect(c, b) ==
  LET s == Append(c.at, b) IN
  IF IsMessage(s) THEN [at |-> <<>>, msgs |-> Append(c.msgs, s)] ELSE [c EXCEPT !.at = s]

Collected(at, bytes) ==
  Along([x \in Collections \X Byte |-> Collect(x[1], x[2])], [at |-> at, msgs |-> <<>>], bytes)

Answer(v, c, o) == [v EXCEPT !.replies = @ \o <<IAC, c, o>>]

Asks(v, c, o) == [Answer(v, c, o) EXCEPT !.pending = @ \union {<<c, o>>}]

AskType(v) == [v EXCEPT !.replies = @ \o <<IAC, SB, TTYPE, SEND, IAC, SE>>,
                        !.pending = @ \union {<<SB, TTYPE>>}]

Settled(v, c, o) == [v EXCEPT !.pending = @ \ {<<c, o>>}]

TurnedOn(v, o) ==
  LET w == [v EXCEPT !.on = @ \union {o}] IN IF o = TTYPE THEN AskType(w) ELSE w

OnOffer(v, o) ==
  CASE o \in v.on -> v
    [] o \notin v.on /\ <<DO, o>> \in v.pending -> TurnedOn(Settled(v, DO, o), o)
    [] o \notin v.on /\ <<DO, o>> \notin v.pending ->
         IF o \in v.agrees THEN TurnedOn(Answer(v, DO, o), o) ELSE Answer(v, DONT, o)

OnRequest(v, o) ==
  CASE o \in v.doing -> v
    [] o \notin v.doing /\ <<WILL, o>> \in v.pending ->
         [Settled(v, WILL, o) EXCEPT !.doing = @ \union {o}]
    [] o \notin v.doing /\ <<WILL, o>> \notin v.pending ->
         IF o \in v.agrees THEN [Answer(v, WILL, o) EXCEPT !.doing = @ \union {o}]
         ELSE Answer(v, WONT, o)

Handle(v, m) ==
  CASE m[1] # IAC -> [v EXCEPT !.got = Append(@, m[1])]
    [] m[1] = IAC /\ m[2] = IAC -> [v EXCEPT !.got = Append(@, IAC)]
    [] m[1] = IAC /\ m[2] = NOP -> v
    [] m[1] = IAC /\ m[2] = SB /\ m[3] = NAWS -> [v EXCEPT !.seen = m[4]]
    [] m[1] = IAC /\ m[2] = SB /\ m[3] # NAWS -> Settled(v, SB, m[3])
    [] m[1] = IAC /\ m[2] = WILL -> OnOffer(v, m[3])
    [] m[1] = IAC /\ m[2] = WONT -> [Settled(v, DO, m[3]) EXCEPT !.on = @ \ {m[3]}]
    [] m[1] = IAC /\ m[2] = DO -> OnRequest(v, m[3])
    [] m[1] = IAC /\ m[2] = DONT -> [Settled(v, WILL, m[3]) EXCEPT !.doing = @ \ {m[3]}]

Handled(v, msgs) == Along([x \in Servers \X Messages |-> Handle(x[1], x[2])], v, msgs)

ServerReads ==
  /\ server.up /\ toServer # <<>>
  /\ LET read == Collected(server.at, toServer)
         done == Handled(server, read.msgs)
     IN /\ server' = [done EXCEPT !.at = read.at, !.replies = <<>>]
        /\ toClient' = toClient \o done.replies
  /\ toServer' = <<>>
  /\ UNCHANGED <<client, typed, shown, output, budget>>

(* The server asks for a change of an option.                              *)
MayAsk(c, o) ==
  CASE c = DO -> o \notin server.on /\ <<DO, o>> \notin server.pending
    [] c = WILL -> o \notin server.doing /\ <<WILL, o>> \notin server.pending
    [] c = DONT -> o \in server.on
    [] c = WONT -> o \in server.doing

ServerAsks ==
  /\ server.up /\ link = "up" /\ Spend("asks")
  /\ \E c \in {DO, DONT, WILL, WONT}, o \in Asked :
       /\ MayAsk(c, o)
       /\ toClient' = toClient \o <<IAC, c, o>>
       /\ server' = CASE c \in {DO, WILL} ->
                           [server EXCEPT !.pending = @ \union {<<c, o>>}]
                      [] c = DONT -> [server EXCEPT !.on = @ \ {o}]
                      [] c = WONT -> [server EXCEPT !.doing = @ \ {o}]
  /\ UNCHANGED <<client, toServer, typed, shown, output>>

HostPrints ==
  /\ server.up /\ link = "up" /\ Spend("output")
  /\ \E b \in Typed :
       /\ output' = Append(output, b)
       /\ toClient' = toClient \o (IF b = IAC THEN <<IAC, IAC>> ELSE <<b>>)
  /\ UNCHANGED <<client, toServer, server, typed, shown>>

HangsUp ==
  /\ server.up /\ link = "up"
  /\ server' = [server EXCEPT !.up = FALSE]
  /\ UNCHANGED <<client, toServer, toClient, typed, shown, output, budget>>

-----------------------------------------------------------------------------
(* The thread and its handle.                                              *)

(* Slip: the thread ends without a Closed.                                 *)
EndsSilently(how) == link' = "ended" /\ UNCHANGED closed

Ends(how) == link' = "ended" /\ closed' = how

(* The connection cannot be made, in time or at all, or the greeting       *)
(* cannot be written.                                                      *)
ConnectFails ==
  /\ link = "connecting"
  /\ Ends("local")
  /\ UNCHANGED <<filter, size, commands, toServer, toClient, server, typed, shown, output,
                 budget>>

Connect ==
  /\ link = "connecting"
  /\ link' = "up"
  /\ toServer' = Greeting
  /\ UNCHANGED <<filter, size, commands, closed, toClient, server, typed, shown, output,
                 budget>>

(* What a write may come to: it fails only when the other end is gone.     *)
Written(bytes) ==
  \/ toServer' = toServer \o bytes /\ UNCHANGED <<link, closed>>
  \/ ~server.up /\ bytes # <<>> /\ Ends("local") /\ UNCHANGED toServer

TakeWrite ==
  /\ Head(commands)[1] = "write"
  /\ Written(Escape(Head(commands)[2]))
  /\ UNCHANGED filter

TakeResize ==
  /\ Head(commands)[1] = "resize"
  /\ LET f == Resized(filter, Head(commands)[2]) IN
       /\ Written(f.replies)
       /\ filter' = [f EXCEPT !.replies = <<>>]

TakeDisconnect ==
  /\ Head(commands)[1] = "disconnect"
  /\ Ends("local")
  /\ UNCHANGED <<filter, toServer>>

TakeCommand ==
  /\ link = "up" /\ commands # <<>>
  /\ commands' = Tail(commands)
  /\ TakeWrite \/ TakeResize \/ TakeDisconnect
  /\ UNCHANGED <<size, toClient, server, typed, shown, output, budget>>

(* A chunk ends anywhere, as often as MaxCuts allows, or else takes all    *)
(* that came.  Its data is handed on after its answers were written, and   *)
(* is lost when they cannot be.                                            *)
ReadChunk ==
  /\ link = "up" /\ toClient # <<>>
  /\ \E n \in 1..Len(toClient) :
       /\ IF n = Len(toClient) THEN UNCHANGED budget ELSE Spend("cuts")
       /\ LET f == Feed(filter, SubSeq(toClient, 1, n)) IN
            /\ toClient' = SubSeq(toClient, n + 1, Len(toClient))
            /\ filter' = [f EXCEPT !.replies = <<>>, !.app = <<>>]
            /\ Written(f.replies)
            /\ shown' = IF link' = "up" THEN shown \o f.app ELSE shown
  /\ UNCHANGED <<size, commands, server, typed, output>>

(* read returns 0: the server hung up.                                     *)
ReadEnd ==
  /\ link = "up" /\ toClient = <<>> /\ ~server.up
  /\ Ends("remote")
  /\ UNCHANGED <<filter, size, commands, toServer, toClient, server, typed, shown, output,
                 budget>>

(* read fails: the connection was reset, and what had not been read is     *)
(* lost with it.                                                           *)
ReadFails ==
  /\ link = "up" /\ ~server.up
  /\ Ends("local")
  /\ UNCHANGED <<filter, size, commands, toServer, toClient, server, typed, shown, output,
                 budget>>

ThreadStep == Connect \/ TakeCommand \/ ReadChunk \/ ReadEnd

Queued(c) == commands' = Append(commands, c)

Types ==
  /\ closed = "no" /\ Spend("typed")
  /\ \E b \in Typed : Queued(<<"write", <<b>>>>) /\ typed' = Append(typed, b)
  /\ UNCHANGED <<link, filter, size, closed, toServer, toClient, server, shown, output>>

Resizes ==
  /\ closed = "no" /\ Spend("resizes")
  /\ \E s \in Sizes \ {size} : size' = s /\ Queued(<<"resize", s>>)
  /\ UNCHANGED <<link, filter, closed, toServer, toClient, server, typed, shown, output>>

Disconnects ==
  /\ closed = "no" /\ \A i \in DOMAIN commands : commands[i][1] # "disconnect"
  /\ Queued(<<"disconnect", 0>>)
  /\ UNCHANGED <<link, filter, size, closed, toServer, toClient, server, typed, shown,
                 output, budget>>

TelnetInit ==
  /\ link = "connecting" /\ size \in Sizes /\ filter = NewFilter(size)
  /\ commands = <<>> /\ closed = "no" /\ toServer = <<>> /\ toClient = <<>>
  /\ \E a \in Agreements : server = NewServer(a)
  /\ typed = <<>> /\ shown = <<>> /\ output = <<>> /\ budget = Bounds

TelnetNext ==
  \/ ThreadStep \/ ConnectFails \/ ReadFails
  \/ ServerReads \/ ServerAsks \/ HostPrints \/ HangsUp
  \/ Types \/ Resizes \/ Disconnects

TelnetSpec == TelnetInit /\ [][TelnetNext]_telnetVars

-----------------------------------------------------------------------------
(* Properties.                                                             *)

(* Every variable has its type.                                            *)
TelnetTypeOK ==
  /\ link \in {"connecting", "up", "ended"} /\ closed \in {"no", "local", "remote"}
  /\ (link = "ended") = (closed # "no")
  /\ size \in Sizes /\ filter \in Filters /\ filter.replies = <<>> /\ filter.app = <<>>
  /\ commands \in Seq(Commands)
  /\ toServer \in Seq(Byte) /\ toClient \in Seq(Byte) /\ server \in Servers
  /\ typed \in Seq(Typed) /\ shown \in Seq(Byte) /\ output \in Seq(Typed)

(* However the bytes are cut into chunks and the answers of the filter     *)
(* come between them: the host gets what the user typed and the terminal   *)
(* what the host printed, in order and whole, and a hang-up of the server  *)
(* (Closed with by_remote, codec.rs and session.rs) loses nothing.         *)
StreamsAreFaithful ==
  /\ IsPrefix(server.got, typed) /\ IsPrefix(shown, output)
  /\ closed = "remote" => shown = output

Settles ==
  link = "up" /\ server.up /\ commands = <<>> /\ toServer = <<>> /\ toClient = <<>>

(* When nothing is on the way, everything the server asked was answered,   *)
(* requests about options nobody has heard of included ("everything else   *)
(* is refused", codec.rs), and a server that has NAWS knows the size of    *)
(* the terminal, whatever order its requests, the resizes and the answers  *)
(* came in ("NAWS is sent when the server negotiated it", session.rs).     *)
AsksAreAnswered ==
  Settles =>
    /\ server.pending = {}
    /\ NAWS \in server.on => server.seen = size
=============================================================================
