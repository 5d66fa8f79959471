---------------------------- MODULE TelnetAskProofs ----------------------------
(***************************************************************************)
(* What a Telnet server asks gets its answer, for every set of options,    *)
(* every cutting of the bytes and every order of what both ends say.       *)
(* Accord says it of any moment: were the filter fed all that is on its    *)
(* way, then what it had said and what is on the way to the server would   *)
(* hold an answer to every question that is open, and the filter would     *)
(* know of NAWS whenever the server has it or asks for it.  It does not    *)
(* ask for NAWS the other way round (NawsAsked), and every message settles *)
(* one question at most (AnswerFits), so an answer that is read leaves the *)
(* answers to the others.  Told says that the server will have seen the    *)
(* size the filter knows, and that the commands that wait make the size of *)
(* the terminal of it.  AskInv is the two together, and inductive on top   *)
(* of the types and of what FarEndProofs says of the streams.              *)
(***************************************************************************)
EXTENDS FarEndProofs

-----------------------------------------------------------------------------
(* Telnet: what is asked and answered.                                     *)

(* What the filter has collected when it has had a byte.                   *)
NextSub(st, sub, b) ==
  IF (st = "Sub" /\ b # IAC) \/ (st = "SubIac" /\ b = IAC) THEN Append(sub, b)
  ELSE IF (st = "Iac" /\ b = SB) \/ (st = "SubIac" /\ b = SE) THEN << >> ELSE sub

(* Whether it has NAWS.                                                    *)
NextNaws(st, naws, b) ==
  IF st = "Do" /\ b = NAWS THEN TRUE
  ELSE IF st \in {"Wont", "Dont"} /\ b = NAWS THEN FALSE ELSE naws

(* What it answers to an offer, and to a request.                          *)
OfWill(b) == <<IAC, IF b \in {ECHO, SGA} THEN DO ELSE DONT, b>>

OfDo(sz, b) ==
  IF b = NAWS THEN <<IAC, WILL, NAWS>> \o Payload(sz)
  ELSE <<IAC, IF b \in {SGA, TTYPE} THEN WILL ELSE WONT, b>>

(* What it has collected asks for the type of the terminal.                *)
AsksType(sub) == Len(sub) >= 2 /\ sub[1] = TTYPE /\ sub[2] = SEND

(* What it says at a byte, in state st.                                    *)
NextReply(st, sub, sz, b) ==
  IF st = "Will" THEN OfWill(b)
  ELSE IF st = "Do" THEN OfDo(sz, b)
  ELSE IF st = "SubIac" /\ b = SE /\ AsksType(sub) THEN TypeIs ELSE << >>

(* The fields a step of the filter may set, one by one.                    *)
LEMMA FilterSets ==
  ASSUME NEW f \in Filters, NEW x
  PROVE  /\ To(f, x).sub = f.sub /\ To(f, x).naws = f.naws /\ To(f, x).size = f.size
         /\ To(f, x).replies = f.replies
         /\ [f EXCEPT !.app = x].sub = f.sub /\ [f EXCEPT !.app = x].naws = f.naws
         /\ [f EXCEPT !.app = x].size = f.size /\ [f EXCEPT !.app = x].replies = f.replies
         /\ [f EXCEPT !.sub = x].sub = x /\ [f EXCEPT !.sub = x].naws = f.naws
         /\ [f EXCEPT !.sub = x].size = f.size /\ [f EXCEPT !.sub = x].replies = f.replies
         /\ [f EXCEPT !.naws = x].sub = f.sub /\ [f EXCEPT !.naws = x].naws = x
         /\ [f EXCEPT !.naws = x].size = f.size /\ [f EXCEPT !.naws = x].replies = f.replies
         /\ Reply(f, x).sub = f.sub /\ Reply(f, x).naws = f.naws /\ Reply(f, x).size = f.size
         /\ Reply(f, x).replies = f.replies \o x
<1>1. DOMAIN f = {"state", "sub", "naws", "size", "replies", "app"}
  BY DEF Filters
<1>2. PICK r : r = f.replies \o x
  OBVIOUS
<1>3. Reply(f, x) = [f EXCEPT !.replies = r]
  BY <1>2 DEF Reply
<1>4. /\ Reply(f, x).sub = f.sub /\ Reply(f, x).naws = f.naws /\ Reply(f, x).size = f.size
      /\ Reply(f, x).replies = r
  BY <1>1, <1>3
<1>5. /\ To(f, x).sub = f.sub /\ To(f, x).naws = f.naws /\ To(f, x).size = f.size
      /\ To(f, x).replies = f.replies
  BY <1>1 DEF To
<1>6. /\ [f EXCEPT !.app = x].sub = f.sub /\ [f EXCEPT !.app = x].naws = f.naws
      /\ [f EXCEPT !.app = x].size = f.size /\ [f EXCEPT !.app = x].replies = f.replies
      /\ [f EXCEPT !.sub = x].sub = x /\ [f EXCEPT !.sub = x].naws = f.naws
      /\ [f EXCEPT !.sub = x].size = f.size /\ [f EXCEPT !.sub = x].replies = f.replies
      /\ [f EXCEPT !.naws = x].sub = f.sub /\ [f EXCEPT !.naws = x].naws = x
      /\ [f EXCEPT !.naws = x].size = f.size /\ [f EXCEPT !.naws = x].replies = f.replies
  BY <1>1
<1> QED
  BY <1>2, <1>4, <1>5, <1>6, Zenon
(* What is in a filter besides its state and its data, and its answers     *)
(* with r behind them.                                                     *)
Became(f, g, sub, naws, r) ==
  g.sub = sub /\ g.naws = naws /\ g.size = f.size /\ g.replies = f.replies \o r

(* What setting one field does to the others.                              *)
LEMMA FilterBecomes ==
  ASSUME NEW f \in Filters, NEW g \in Filters, NEW sub, NEW naws, NEW r,
         Became(f, g, sub, naws, r), NEW x
  PROVE  /\ Became(f, To(g, x), sub, naws, r)
         /\ Became(f, [g EXCEPT !.app = x], sub, naws, r)
         /\ Became(f, [g EXCEPT !.sub = x], x, naws, r)
         /\ Became(f, [g EXCEPT !.naws = x], sub, x, r)
<1>1. g.sub = sub /\ g.naws = naws /\ g.size = f.size /\ g.replies = f.replies \o r
  BY DEF Became
<1>2. /\ To(g, x).sub = g.sub /\ To(g, x).naws = g.naws /\ To(g, x).size = g.size
      /\ To(g, x).replies = g.replies
  BY FilterSets
<1>3. /\ [g EXCEPT !.app = x].sub = g.sub /\ [g EXCEPT !.app = x].naws = g.naws
      /\ [g EXCEPT !.app = x].size = g.size /\ [g EXCEPT !.app = x].replies = g.replies
  BY FilterSets
<1>4. /\ [g EXCEPT !.sub = x].sub = x /\ [g EXCEPT !.sub = x].naws = g.naws
      /\ [g EXCEPT !.sub = x].size = g.size /\ [g EXCEPT !.sub = x].replies = g.replies
  BY FilterSets
<1>5. /\ [g EXCEPT !.naws = x].sub = g.sub /\ [g EXCEPT !.naws = x].naws = x
      /\ [g EXCEPT !.naws = x].size = g.size /\ [g EXCEPT !.naws = x].replies = g.replies
  BY FilterSets
<1>6. Became(f, To(g, x), sub, naws, r)
  BY <1>1, <1>2, Zenon DEF Became
<1>7. Became(f, [g EXCEPT !.app = x], sub, naws, r)
  BY <1>1, <1>3, Zenon DEF Became
<1>8. Became(f, [g EXCEPT !.sub = x], x, naws, r)
  BY <1>1, <1>4, Zenon DEF Became
<1>9. Became(f, [g EXCEPT !.naws = x], sub, x, r)
  BY <1>1, <1>5, Zenon DEF Became
<1> QED
  BY <1>6, <1>7, <1>8, <1>9

(* What an answer does to a filter.                                        *)
LEMMA ReplyBecomes ==
  ASSUME NEW f \in Filters, NEW r
  PROVE  Became(f, Reply(f, r), f.sub, f.naws, r)
<1>1. Reply(f, r).sub = f.sub /\ Reply(f, r).naws = f.naws /\ Reply(f, r).size = f.size
  BY FilterSets
<1>2. Reply(f, r).replies = f.replies \o r
  BY FilterSets, ZenonT(60)
<1> QED
  BY <1>1, <1>2, Zenon DEF Became

(* A step of the filter, as far as the server is concerned.                *)
LEMMA StepTells ==
  ASSUME NEW f \in Filters, NEW b \in Byte
  PROVE  Became(f, Step(f, b), NextSub(f.state, f.sub, b), NextNaws(f.state, f.naws, b),
                NextReply(f.state, f.sub, f.size, b))
<1>1. f.state \in FilterStates /\ f.replies \in Seq(Byte) /\ f.size \in Byte
  BY SizesAreBytes DEF Filters
<1>2. f.replies \o << >> = f.replies
  BY <1>1
<1>3. IAC # SB /\ IAC # SE /\ SB # SE
  BY DEF IAC, SB, SE
<1>4. ASSUME NEW g \in Filters, NEW st, NEW sub, NEW naws, NEW r, Became(f, g, sub, naws, r)
      PROVE  Became(f, To(g, st), sub, naws, r)
  BY <1>4, FilterBecomes
<1>5. Became(f, f, f.sub, f.naws, << >>)
  BY <1>2 DEF Became
<1>6. \A st : Became(f, To(f, st), f.sub, f.naws, << >>)
  BY <1>4, <1>5
<1>7. CASE f.state = "Data"
  <2>1. Step(f, b) = IF b = IAC THEN To(f, "Iac") ELSE [f EXCEPT !.app = Append(f.app, b)]
    BY <1>7 DEF Step
  <2>2. /\ NextSub(f.state, f.sub, b) = f.sub /\ NextNaws(f.state, f.naws, b) = f.naws
        /\ NextReply(f.state, f.sub, f.size, b) = << >>
    BY <1>7 DEF NextSub, NextNaws, NextReply
  <2>3. Became(f, [f EXCEPT !.app = Append(f.app, b)], f.sub, f.naws, << >>)
    BY <1>5, FilterBecomes
  <2> QED
    BY <1>6, <2>1, <2>2, <2>3
<1>8. CASE f.state = "Iac"
  <2>1. Step(f, b) = OnIac(f, b)
    BY <1>8 DEF Step
  <2>2. /\ NextSub(f.state, f.sub, b) = IF b = SB THEN << >> ELSE f.sub
        /\ NextNaws(f.state, f.naws, b) = f.naws
        /\ NextReply(f.state, f.sub, f.size, b) = << >>
    BY <1>3, <1>8 DEF NextSub, NextNaws, NextReply
  <2>3. CASE b = IAC
    <3>1. PICK g \in Filters : g = To(f, "Data")
      BY ToType DEF FilterStates
    <3>2. Step(f, b) = [g EXCEPT !.app = Append(g.app, IAC)]
      BY <1>3, <2>1, <2>3, <3>1 DEF OnIac
    <3>3. Became(f, g, f.sub, f.naws, << >>)
      BY <1>6, <3>1
    <3>4. \A x : Became(f, [g EXCEPT !.app = x], f.sub, f.naws, << >>)
      BY <3>3, FilterBecomes
    <3>5. Became(f, Step(f, b), f.sub, f.naws, << >>)
      BY <3>2, <3>4, Zenon
    <3> QED
      BY <1>3, <2>2, <2>3, <3>5
  <2>4. CASE b = SB
    <3>1. PICK g \in Filters : g = To(f, "Sub")
      BY ToType DEF FilterStates
    <3>2. Step(f, b) = [g EXCEPT !.sub = << >>]
      BY <1>3, <2>1, <2>4, <3>1 DEF OnIac
    <3>3. Became(f, g, f.sub, f.naws, << >>)
      BY <1>6, <3>1
    <3>4. \A x : Became(f, [g EXCEPT !.sub = x], x, f.naws, << >>)
      BY <3>3, FilterBecomes
    <3>5. Became(f, Step(f, b), << >>, f.naws, << >>)
      BY <3>2, <3>4, Zenon
    <3> QED
      BY <2>2, <2>4, <3>5
  <2>5. CASE b \notin {IAC, SB}
    <3>1. Step(f, b) = To(f, Introduces(b))
      BY <2>1, <2>5 DEF OnIac
    <3> QED
      BY <1>6, <2>2, <2>5, <3>1
  <2> QED
    BY <2>3, <2>4, <2>5
<1>9. CASE f.state = "Will"
  <2>1. /\ NextSub(f.state, f.sub, b) = f.sub /\ NextNaws(f.state, f.naws, b) = f.naws
        /\ NextReply(f.state, f.sub, f.size, b) = OfWill(b)
    BY <1>9 DEF NextSub, NextNaws, NextReply
  <2>2. Step(f, b) = To(Reply(f, OfWill(b)), "Data")
    BY <1>9 DEF Step, OnWill, OfWill
  <2>3. OfWill(b) \in Seq(Byte)
    BY CommandOrder, OrderIsOrders DEF AllOrders, OfWill
  <2>4. PICK g \in Filters : g = Reply(f, OfWill(b))
    BY <2>3, ReplyType
  <2>5. Became(f, g, f.sub, f.naws, OfWill(b))
    BY <2>4, ReplyBecomes
  <2> QED
    BY <1>4, <2>1, <2>2, <2>4, <2>5
<1>10. CASE f.state = "Do"
  <2>1. /\ NextSub(f.state, f.sub, b) = f.sub
        /\ NextNaws(f.state, f.naws, b) = IF b = NAWS THEN TRUE ELSE f.naws
        /\ NextReply(f.state, f.sub, f.size, b) = OfDo(f.size, b)
    BY <1>10 DEF NextSub, NextNaws, NextReply
  <2>2. OfDo(f.size, b) \in Seq(Byte)
    <3>1. \A c \in {WILL, WONT}, o \in Byte : <<IAC, c, o>> \in Seq(Byte)
      BY CommandOrder, OrderIsOrders DEF AllOrders
    <3>2. PICK p \in Seq(Byte) : p = Payload(f.size)
      BY <1>1, PayloadType
    <3>3. \A s \in Seq(Byte) : s \o p \in Seq(Byte)
      OBVIOUS
    <3> QED
      BY <3>1, <3>2, <3>3 DEF OfDo
  <2>3. PICK g \in Filters : g = Reply(f, OfDo(f.size, b))
    BY <2>2, ReplyType
  <2>4. Became(f, g, f.sub, f.naws, OfDo(f.size, b))
    BY <2>3, ReplyBecomes
  <2>5. CASE b = NAWS
    <3>1. Step(f, b) = To([g EXCEPT !.naws = TRUE], "Data")
      BY <1>10, <2>3, <2>5 DEF Step, OnDo, OfDo, SGA, TTYPE, NAWS
    <3>2. PICK h \in Filters : h = [g EXCEPT !.naws = TRUE]
      BY DEF Filters
    <3>3. Became(f, h, f.sub, TRUE, OfDo(f.size, b))
      BY <2>4, <3>2, FilterBecomes
    <3> QED
      BY <1>4, <2>1, <2>5, <3>1, <3>2, <3>3
  <2>6. CASE b # NAWS
    <3>1. Step(f, b) = To(g, "Data")
      BY <1>10, <2>3, <2>6 DEF Step, OnDo, OfDo
    <3> QED
      BY <1>4, <2>1, <2>4, <2>6, <3>1
  <2> QED
    BY <2>5, <2>6
<1>11. CASE f.state \in {"Wont", "Dont"}
  <2>1. /\ NextSub(f.state, f.sub, b) = f.sub
        /\ NextNaws(f.state, f.naws, b) = IF b = NAWS THEN FALSE ELSE f.naws
        /\ NextReply(f.state, f.sub, f.size, b) = << >>
    BY <1>11 DEF NextSub, NextNaws, NextReply
  <2>2. Step(f, b) = To(OnRefusal(f, b), "Data")
    BY <1>11 DEF Step
  <2>3. CASE b = NAWS
    <3>1. PICK h \in Filters : h = [f EXCEPT !.naws = FALSE]
      BY DEF Filters
    <3>2. Became(f, h, f.sub, FALSE, << >>)
      BY <1>5, <3>1, FilterBecomes
    <3>3. Step(f, b) = To(h, "Data")
      BY <2>2, <2>3, <3>1 DEF OnRefusal
    <3> QED
      BY <1>4, <2>1, <2>3, <3>1, <3>2, <3>3, ZenonT(60)
  <2>4. CASE b # NAWS
    BY <1>6, <2>1, <2>2, <2>4 DEF OnRefusal
  <2> QED
    BY <2>3, <2>4
<1>12. CASE f.state = "Sub"
  <2>1. Step(f, b) = IF b = IAC THEN To(f, "SubIac") ELSE [f EXCEPT !.sub = Append(f.sub, b)]
    BY <1>12 DEF Step
  <2>2. /\ NextSub(f.state, f.sub, b) = IF b = IAC THEN f.sub ELSE Append(f.sub, b)
        /\ NextNaws(f.state, f.naws, b) = f.naws
        /\ NextReply(f.state, f.sub, f.size, b) = << >>
    BY <1>12 DEF NextSub, NextNaws, NextReply
  <2>3. Became(f, [f EXCEPT !.sub = Append(f.sub, b)], Append(f.sub, b), f.naws, << >>)
    BY <1>5, FilterBecomes
  <2> QED
    BY <1>6, <2>1, <2>2, <2>3
<1>13. CASE f.state = "SubIac"
  <2>1. Step(f, b) = OnSubIac(f, b)
    BY <1>13 DEF Step
  <2>2. /\ NextSub(f.state, f.sub, b) =
             IF b = IAC THEN Append(f.sub, b) ELSE IF b = SE THEN << >> ELSE f.sub
        /\ NextNaws(f.state, f.naws, b) = f.naws
        /\ NextReply(f.state, f.sub, f.size, b) =
             IF b = SE /\ AsksType(f.sub) THEN TypeIs ELSE << >>
    BY <1>13 DEF NextSub, NextNaws, NextReply
  <2>3. CASE b = IAC
    <3>1. PICK g \in Filters : g = To(f, "Sub") /\ g.sub = f.sub
      BY ToType, FilterSets DEF FilterStates
    <3>2. Step(f, b) = [g EXCEPT !.sub = Append(f.sub, IAC)]
      BY <1>3, <2>1, <2>3, <3>1 DEF OnSubIac
    <3>3. Became(f, g, f.sub, f.naws, << >>)
      BY <1>6, <3>1
    <3>4. \A x : Became(f, [g EXCEPT !.sub = x], x, f.naws, << >>)
      BY <3>3, FilterBecomes
    <3>5. Became(f, Step(f, b), Append(f.sub, IAC), f.naws, << >>)
      BY <3>2, <3>4, Zenon
    <3> QED
      BY <1>3, <2>2, <2>3, <3>5
  <2>4. CASE b = SE
    <3>1. PICK r \in {TypeIs, << >>} :
            /\ r = IF AsksType(f.sub) THEN TypeIs ELSE << >>
            /\ OnSubnegotiation(f) = IF r = TypeIs THEN Reply(f, r) ELSE f
      <4>1. TypeIs # << >>
        BY TypeIsOrder DEF Order, Unit, Messages
      <4> QED
        BY <4>1 DEF OnSubnegotiation, AsksType, TypeIs
    <3>2. PICK g \in Filters : g = OnSubnegotiation(f) /\ Became(f, g, f.sub, f.naws, r)
      <4>1. TypeIs \in Seq(Byte)
        BY TypeIsOrder, OrderIsOrders DEF AllOrders
      <4>2. Reply(f, TypeIs) \in Filters /\ Became(f, Reply(f, TypeIs), f.sub, f.naws, TypeIs)
        BY <4>1, ReplyType, ReplyBecomes
      <4> QED
        BY <1>5, <3>1, <4>2
    <3>3. PICK h \in Filters : h = To(g, "Data")
      BY ToType DEF FilterStates
    <3>4. Step(f, b) = [h EXCEPT !.sub = << >>]
      BY <2>1, <2>4, <3>2, <3>3 DEF OnSubIac, SE, IAC
    <3>5. Became(f, h, f.sub, f.naws, r)
      BY <1>4, <3>2, <3>3
    <3>6. \A x : Became(f, [h EXCEPT !.sub = x], x, f.naws, r)
      BY <3>5, FilterBecomes
    <3>7. Became(f, Step(f, b), << >>, f.naws, r)
      BY <3>4, <3>6, Zenon
    <3> QED
      BY <1>3, <2>2, <2>4, <3>1, <3>7
  <2>5. CASE b \notin {IAC, SE}
    <3>1. Step(f, b) = To(f, "Sub")
      BY <2>1, <2>5 DEF OnSubIac
    <3> QED
      BY <1>6, <2>2, <2>5, <3>1
  <2> QED
    BY <2>3, <2>4, <2>5
<1> QED
  BY <1>1, <1>7, <1>8, <1>9, <1>10, <1>11, <1>12, <1>13 DEF FilterStates
(* What a byte makes the filter say is commands.                           *)
LEMMA NextReplyType ==
  ASSUME NEW st, NEW sub, NEW sz \in Byte, NEW b \in Byte
  PROVE  AllOrders(NextReply(st, sub, sz, b)) /\ NextReply(st, sub, sz, b) \in Seq(Byte)
<1>1. AllOrders(OfWill(b))
  BY CommandOrder, OrderIsOrders DEF OfWill
<1>2. AllOrders(OfDo(sz, b))
  <2>1. CASE b = NAWS
    <3>1. AllOrders(<<IAC, WILL, NAWS>>)
      BY <2>1, CommandOrder, OrderIsOrders
    <3>2. AllOrders(Payload(sz))
      BY PayloadOrder, OrderIsOrders
    <3> QED
      BY <2>1, <3>1, <3>2, OrdersBoth DEF OfDo
  <2>2. CASE b # NAWS
    BY <2>2, CommandOrder, OrderIsOrders DEF OfDo
  <2> QED
    BY <2>1, <2>2
<1>3. AllOrders(TypeIs)
  BY TypeIsOrder, OrderIsOrders
<1>4. AllOrders(NextReply(st, sub, sz, b))
  BY <1>1, <1>2, <1>3, NoOrders DEF NextReply
<1> QED
  BY <1>4 DEF AllOrders

(* Two filters that agree but for the answers a the one has already.       *)
Alike(f, g, a) ==
  /\ f.state = g.state /\ f.sub = g.sub /\ f.naws = g.naws /\ f.size = g.size
  /\ f.replies = a \o g.replies

(* A byte makes both say the same.                                         *)
LEMMA StepAlike ==
  ASSUME NEW f \in Filters, NEW g \in Filters, NEW a \in Seq(Byte), Alike(f, g, a), NEW b \in Byte
  PROVE  Alike(Step(f, b), Step(g, b), a)
<1>1. PICK p \in Seq(Byte) : p = g.replies
  BY DEF Filters
<1>2. PICK r \in Seq(Byte) : r = NextReply(g.state, g.sub, g.size, b)
  BY NextReplyType, SizesAreBytes DEF Filters
<1>3. /\ f.state = g.state /\ f.sub = g.sub /\ f.naws = g.naws /\ f.size = g.size
      /\ f.replies = a \o p
  BY <1>1 DEF Alike
<1>4. (a \o p) \o r = a \o (p \o r)
  BY ConcatThree
<1>5. /\ Step(f, b).state = Step(g, b).state
      /\ Step(f, b).sub = Step(g, b).sub /\ Step(f, b).naws = Step(g, b).naws
      /\ Step(f, b).size = Step(g, b).size
  <2>1. Step(f, b).state = NextState(f.state, b) /\ Step(g, b).state = NextState(g.state, b)
    BY StepLets
  <2>2. /\ Step(f, b).sub = NextSub(f.state, f.sub, b)
        /\ Step(f, b).naws = NextNaws(f.state, f.naws, b) /\ Step(f, b).size = f.size
    BY StepTells, Zenon DEF Became
  <2>3. /\ Step(g, b).sub = NextSub(g.state, g.sub, b)
        /\ Step(g, b).naws = NextNaws(g.state, g.naws, b) /\ Step(g, b).size = g.size
    BY StepTells, Zenon DEF Became
  <2> QED
    BY <1>3, <2>1, <2>2, <2>3, Zenon
<1>6. Step(f, b).replies = (a \o p) \o r /\ Step(g, b).replies = p \o r
  BY <1>1, <1>2, <1>3, StepTells DEF Became
<1> QED
  BY <1>4, <1>5, <1>6, Zenon DEF Alike

(* The bytes of a chunk make both say the same too.                        *)
LEMMA FeedAlike ==
  ASSUME NEW f \in Filters, NEW g \in Filters, NEW a \in Seq(Byte), Alike(f, g, a),
         NEW s \in Seq(Byte)
  PROVE  Alike(Feed(f, s), Feed(g, s), a)
<1> DEFINE P == {t \in Seq(Byte) : Alike(Feed(f, t), Feed(g, t), a)}
<1>1. << >> \in P
  BY FeedNothing, NoBytes
<1>2. ASSUME NEW t \in Seq(Byte), NEW b \in Byte, t \in P PROVE Append(t, b) \in P
  <2>1. PICK h \in Filters : h = Feed(f, t)
    BY FeedType
  <2>2. PICK k \in Filters : k = Feed(g, t)
    BY FeedType
  <2>3. Alike(h, k, a)
    BY <1>2, <2>1, <2>2
  <2>4. Alike(Step(h, b), Step(k, b), a)
    BY <2>3, StepAlike
  <2>5. Feed(f, Append(t, b)) = Step(h, b) /\ Feed(g, Append(t, b)) = Step(k, b)
    BY <2>1, <2>2, FeedOne
  <2> QED
    BY <2>4, <2>5, AppendByte
<1> HIDE DEF P
<1>3. Seq(Byte) \subseteq P
  BY <1>1, <1>2, ByAppending
<1>4. s \in P
  BY <1>3
<1> QED
  BY <1>4 DEF P

(* A chunk does not change the size.                                       *)
LEMMA FeedSize ==
  ASSUME NEW f \in Filters, NEW s \in Seq(Byte)
  PROVE  Feed(f, s).size = f.size
<1> DEFINE P == {t \in Seq(Byte) : Feed(f, t).size = f.size}
<1>1. << >> \in P
  BY FeedNothing, NoBytes
<1>2. ASSUME NEW t \in Seq(Byte), NEW b \in Byte, t \in P PROVE Append(t, b) \in P
  <2>1. PICK h \in Filters : h = Feed(f, t)
    BY FeedType
  <2>2. h.size = f.size
    BY <1>2, <2>1
  <2>3. Step(h, b).size = h.size
    BY StepTells DEF Became
  <2>4. Feed(f, Append(t, b)) = Step(h, b)
    BY <2>1, FeedOne
  <2> QED
    BY <2>2, <2>3, <2>4, AppendByte
<1> HIDE DEF P
<1>3. Seq(Byte) \subseteq P
  BY <1>1, <1>2, ByAppending
<1>4. s \in P
  BY <1>3
<1> QED
  BY <1>4 DEF P

-----------------------------------------------------------------------------
(* What is said to the server.                                             *)

(* Every message but a size of the terminal.                               *)
Tells == {m \in Messages : ~(m[1] = IAC /\ m[2] = SB /\ m[3] = NAWS)}

(* The messages in s that are no sizes.                                    *)
Said(s) == Elements(Collected(<< >>, s).msgs) \cap Tells

(* What would turn NAWS on at the server, which is the terminal's to do.   *)
NawsAsked == <<IAC, DO, NAWS>>

(* What the filter sends is commands, and none of them asks for NAWS.      *)
Modest(s) == AllOrders(s) /\ NawsAsked \notin Said(s)

(* Nothing says nothing.                                                   *)
LEMMA SaidNothing == Said(<< >>) = {} /\ Modest(<< >>)
<1>1. Collected(<< >>, << >>) = Heard(<< >>, << >>)
  BY NoBytes, CollectedNothing
<1>2. Collected(<< >>, << >>).msgs = << >>
  BY <1>1 DEF Heard
<1>3. Elements(<< >>) = {}
  BY DEF Elements
<1>4. Said(<< >>) = {}
  BY <1>2, <1>3, Zenon DEF Said
<1> QED
  BY <1>4, NoOrders DEF Modest

(* A message by itself.                                                    *)
LEMMA SaidUnit ==
  ASSUME NEW u, Unit(u)
  PROVE  Said(u) = {u} \cap Tells
<1>1. Collected(<< >>, u).msgs = <<u>>
  BY DEF Unit
<1>2. Elements(<<u>>) = {u}
  BY DEF Elements
<1> QED
  BY <1>1, <1>2, Zenon DEF Said

(* Bytes that end with a message, and those behind them.                   *)
LEMMA SaidBoth ==
  ASSUME NEW s \in Seq(Byte), Collected(<< >>, s).at = << >>, NEW t \in Seq(Byte)
  PROVE  Said(s \o t) = Said(s) \cup Said(t)
<1>1. Collected(<< >>, s \o t).msgs = Collected(<< >>, s).msgs \o Collected(<< >>, t).msgs
  BY NoBytes, CollectedBoth
<1>2. PICK ms \in Seq(Messages) : ms = Collected(<< >>, s).msgs
  BY NoBytes, CollectedType
<1>3. PICK ns \in Seq(Messages) : ns = Collected(<< >>, t).msgs
  BY NoBytes, CollectedType
<1>4. Elements(ms \o ns) = Elements(ms) \cup Elements(ns)
  BY ElementsOfConcat
<1>5. Said(s \o t) = (Elements(ms) \cup Elements(ns)) \cap Tells
  BY <1>1, <1>2, <1>3, <1>4, Zenon DEF Said
<1>6. Said(s) = Elements(ms) \cap Tells /\ Said(t) = Elements(ns) \cap Tells
  BY <1>2, <1>3, Zenon DEF Said
<1> QED
  BY <1>5, <1>6

(* Modest words after modest words.                                        *)
LEMMA ModestBoth ==
  ASSUME NEW s, Modest(s), NEW t, Modest(t)
  PROVE  Modest(s \o t) /\ Said(s \o t) = Said(s) \cup Said(t)
<1>1. AllOrders(s) /\ AllOrders(t)
  BY DEF Modest
<1>2. AllOrders(s \o t)
  BY <1>1, OrdersBoth
<1>3. Said(s \o t) = Said(s) \cup Said(t)
  BY <1>1, SaidBoth DEF AllOrders
<1> QED
  BY <1>2, <1>3 DEF Modest

(* Any command about an option but the one for NAWS is modest.             *)
LEMMA CommandSaid ==
  ASSUME NEW c \in {DO, DONT, WILL, WONT}, NEW o \in Byte
  PROVE  /\ Said(<<IAC, c, o>>) = {<<IAC, c, o>>}
         /\ c # DO \/ o # NAWS => Modest(<<IAC, c, o>>)
<1>1. Order(<<IAC, c, o>>) /\ Unit(<<IAC, c, o>>)
  BY CommandOrder, CommandUnit
<1>2. <<IAC, c, o>>[2] = c /\ <<IAC, c, o>>[3] = o /\ NawsAsked[2] = DO /\ NawsAsked[3] = NAWS
  BY ThreeBytes DEF NawsAsked
<1>3. c # SB
  BY DEF DO, DONT, WILL, WONT, SB
<1>4. <<IAC, c, o>> \in Tells
  BY <1>1, <1>2, <1>3, Zenon DEF Unit, Tells
<1>5. Said(<<IAC, c, o>>) = {<<IAC, c, o>>}
  BY <1>1, <1>4, SaidUnit
<1>6. c # DO \/ o # NAWS => NawsAsked # <<IAC, c, o>>
  BY <1>2
<1> QED
  BY <1>1, <1>5, <1>6, OrderIsOrders DEF Modest

(* A size says nothing else.                                               *)
LEMMA PayloadSaid ==
  ASSUME NEW x \in Byte
  PROVE  Modest(Payload(x)) /\ Said(Payload(x)) = {}
<1>1. Order(Payload(x)) /\ Unit(Payload(x))
  BY PayloadOrder DEF Order
<1>2. PICK e \in Seq(Byte) : e = Escape(<<x>>)
  BY EscapeByte
<1>3. Payload(x) = <<IAC, SB, NAWS>> \o e \o <<IAC, SE>>
  BY <1>2 DEF Payload
<1>4. Payload(x)[1] = IAC /\ Payload(x)[2] = SB /\ Payload(x)[3] = NAWS
  BY <1>3
<1>5. Payload(x) \notin Tells
  BY <1>4 DEF Tells
<1>6. Said(Payload(x)) = {}
  BY <1>1, <1>5, SaidUnit
<1> QED
  BY <1>1, <1>6, OrderIsOrders DEF Modest

(* The terminal type answers the question for it.                          *)
LEMMA TypeIsSaid == Modest(TypeIs) /\ Said(TypeIs) = {TypeIs}
<1>1. Order(TypeIs) /\ Unit(TypeIs)
  BY TypeIsOrder DEF Order
<1>2. TypeIs[2] = SB /\ TypeIs[3] = TTYPE /\ NawsAsked[2] = DO
  BY DEF TypeIs, NawsAsked
<1>3. TTYPE # NAWS /\ SB # DO
  BY DEF TTYPE, NAWS, SB, DO
<1>4. TypeIs \in Tells /\ TypeIs # NawsAsked
  BY <1>1, <1>2, <1>3 DEF Unit, Tells
<1>5. Said(TypeIs) = {TypeIs}
  BY <1>1, <1>4, SaidUnit
<1> QED
  BY <1>1, <1>4, <1>5, OrderIsOrders DEF Modest

(* What answers an offer of an option, and a request for one.              *)
LEMMA AnswersSaid ==
  ASSUME NEW b \in Byte, NEW sz \in Byte
  PROVE  /\ Modest(OfWill(b)) /\ Said(OfWill(b)) \subseteq {<<IAC, DO, b>>, <<IAC, DONT, b>>}
         /\ Said(OfWill(b)) # {}
         /\ Modest(OfDo(sz, b)) /\ Said(OfDo(sz, b)) \subseteq {<<IAC, WILL, b>>, <<IAC, WONT, b>>}
         /\ Said(OfDo(sz, b)) # {}
<1>1. /\ \A c \in {DO, DONT, WILL, WONT} : Said(<<IAC, c, b>>) = {<<IAC, c, b>>}
      /\ \A c \in {DO, DONT, WILL, WONT} : c # DO \/ b # NAWS => Modest(<<IAC, c, b>>)
  BY CommandSaid
<1>2. NAWS \notin {ECHO, SGA} /\ DO # DONT /\ WILL # DO /\ WONT # DO
  BY DEF NAWS, ECHO, SGA, DO, DONT, WILL, WONT
<1>3. PICK c \in {DO, DONT} : OfWill(b) = <<IAC, c, b>> /\ (c = DO => b # NAWS)
  BY <1>2 DEF OfWill
<1>4. Modest(OfWill(b)) /\ Said(OfWill(b)) = {<<IAC, c, b>>}
  BY <1>1, <1>2, <1>3
<1>5. CASE b = NAWS
  <2>1. Modest(<<IAC, WILL, NAWS>>) /\ Said(<<IAC, WILL, NAWS>>) = {<<IAC, WILL, NAWS>>}
    BY <1>1, <1>2, <1>5
  <2>2. Modest(Payload(sz)) /\ Said(Payload(sz)) = {}
    BY PayloadSaid
  <2>3. /\ Modest(<<IAC, WILL, NAWS>> \o Payload(sz))
        /\ Said(<<IAC, WILL, NAWS>> \o Payload(sz)) = {<<IAC, WILL, NAWS>>} \cup {}
    BY <2>1, <2>2, ModestBoth
  <2>4. OfDo(sz, b) = <<IAC, WILL, NAWS>> \o Payload(sz)
    BY <1>5 DEF OfDo
  <2> QED
    BY <1>3, <1>4, <1>5, <2>3, <2>4
<1>6. CASE b # NAWS
  <2>1. PICK d \in {WILL, WONT} : OfDo(sz, b) = <<IAC, d, b>>
    BY <1>6 DEF OfDo
  <2> QED
    BY <1>1, <1>2, <1>3, <1>4, <2>1
<1> QED
  BY <1>5, <1>6

(* What a byte makes the filter say is modest.                             *)
LEMMA NextReplySaid ==
  ASSUME NEW st, NEW sub, NEW sz \in Byte, NEW b \in Byte
  PROVE  Modest(NextReply(st, sub, sz, b))
<1>1. Modest(OfWill(b)) /\ Modest(OfDo(sz, b))
  BY AnswersSaid
<1> QED
  BY <1>1, TypeIsSaid, SaidNothing DEF NextReply

(* Whatever is fed to it, the filter stays modest.                         *)
LEMMA FeedModest ==
  ASSUME NEW f \in Filters, Modest(f.replies), NEW s \in Seq(Byte)
  PROVE  Modest(Feed(f, s).replies)
<1> DEFINE P == {t \in Seq(Byte) : Modest(Feed(f, t).replies)}
<1>1. << >> \in P
  BY FeedNothing, NoBytes
<1>2. ASSUME NEW t \in Seq(Byte), NEW b \in Byte, t \in P PROVE Append(t, b) \in P
  <2>1. PICK h \in Filters : h = Feed(f, t)
    BY FeedType
  <2>2. Modest(h.replies)
    BY <1>2, <2>1
  <2>3. h.size \in Byte
    BY SizesAreBytes DEF Filters
  <2>4. PICK r : r = NextReply(h.state, h.sub, h.size, b)
    OBVIOUS
  <2>5. Modest(r)
    BY <2>3, <2>4, NextReplySaid
  <2>6. Step(h, b).replies = h.replies \o r
    BY <2>4, StepTells DEF Became
  <2>7. Modest(Step(h, b).replies)
    BY <2>2, <2>5, <2>6, ModestBoth
  <2>8. Feed(f, Append(t, b)) = Step(h, b)
    BY <2>1, FeedOne
  <2> QED
    BY <2>7, <2>8, AppendByte
<1> HIDE DEF P
<1>3. Seq(Byte) \subseteq P
  BY <1>1, <1>2, ByAppending
<1>4. s \in P
  BY <1>3
<1> QED
  BY <1>4 DEF P

(* Two filters that differ in the size of the terminal only: they say the  *)
(* same but for the size.                                                  *)
Resembles(f, g) ==
  /\ f.state = g.state /\ f.sub = g.sub /\ f.naws = g.naws
  /\ Modest(f.replies) /\ Modest(g.replies) /\ Said(f.replies) = Said(g.replies)

(* A byte leaves two such filters alike but for the size.                  *)
LEMMA StepResembles ==
  ASSUME NEW f \in Filters, NEW g \in Filters, Resembles(f, g), NEW b \in Byte
  PROVE  Resembles(Step(f, b), Step(g, b))
<1>1. /\ f.state = g.state /\ f.sub = g.sub /\ f.naws = g.naws
      /\ Modest(f.replies) /\ Modest(g.replies) /\ Said(f.replies) = Said(g.replies)
  BY DEF Resembles
<1>2. f.size \in Byte /\ g.size \in Byte
  BY SizesAreBytes DEF Filters
<1>3. PICK r : r = NextReply(f.state, f.sub, f.size, b)
  OBVIOUS
<1>4. PICK q : q = NextReply(f.state, f.sub, g.size, b)
  OBVIOUS
<1>5. Modest(r) /\ Modest(q)
  BY <1>2, <1>3, <1>4, NextReplySaid
<1>6. Said(r) = Said(q)
  <2>1. CASE f.state = "Do" /\ b = NAWS
    <3>1. r = <<IAC, WILL, NAWS>> \o Payload(f.size) /\ q = <<IAC, WILL, NAWS>> \o Payload(g.size)
      BY <1>3, <1>4, <2>1 DEF NextReply, OfDo
    <3>2. Modest(<<IAC, WILL, NAWS>>)
      BY <2>1, CommandSaid DEF WILL, DO
    <3>3. /\ Modest(Payload(f.size)) /\ Said(Payload(f.size)) = {}
          /\ Modest(Payload(g.size)) /\ Said(Payload(g.size)) = {}
      BY <1>2, PayloadSaid
    <3>4. /\ Said(<<IAC, WILL, NAWS>> \o Payload(f.size)) = Said(<<IAC, WILL, NAWS>>)
          /\ Said(<<IAC, WILL, NAWS>> \o Payload(g.size)) = Said(<<IAC, WILL, NAWS>>)
      BY <3>2, <3>3, ModestBoth
    <3> QED
      BY <3>1, <3>4
  <2>2. CASE f.state # "Do" \/ b # NAWS
    <3>1. r = q
      BY <1>3, <1>4, <2>2 DEF NextReply, OfDo
    <3> QED
      BY <3>1
  <2> QED
    BY <2>1, <2>2
<1>7. /\ Modest(f.replies \o r) /\ Said(f.replies \o r) = Said(f.replies) \cup Said(r)
      /\ Modest(g.replies \o q) /\ Said(g.replies \o q) = Said(g.replies) \cup Said(q)
  BY <1>1, <1>5, ModestBoth
<1>8. /\ Step(f, b).sub = NextSub(f.state, f.sub, b)
      /\ Step(f, b).naws = NextNaws(f.state, f.naws, b)
      /\ Step(f, b).replies = f.replies \o r
  BY <1>3, StepTells, Zenon DEF Became
<1>9. /\ Step(g, b).sub = NextSub(g.state, g.sub, b)
      /\ Step(g, b).naws = NextNaws(g.state, g.naws, b)
      /\ Step(g, b).replies = g.replies \o q
  BY <1>1, <1>4, StepTells, Zenon DEF Became
<1>10. Step(f, b).state = Step(g, b).state
  BY <1>1, StepLets
<1>11. /\ Step(f, b).sub = Step(g, b).sub /\ Step(f, b).naws = Step(g, b).naws
  BY <1>1, <1>8, <1>9, Zenon
<1>12. Said(Step(f, b).replies) = Said(Step(g, b).replies)
  BY <1>1, <1>6, <1>7, <1>8, <1>9, Zenon
<1> QED
  BY <1>7, <1>8, <1>9, <1>10, <1>11, <1>12, Zenon DEF Resembles

(* The bytes of a chunk leave it at that too.                              *)
LEMMA FeedResembles ==
  ASSUME NEW f \in Filters, NEW g \in Filters, Resembles(f, g), NEW s \in Seq(Byte)
  PROVE  Resembles(Feed(f, s), Feed(g, s))
<1> DEFINE P == {t \in Seq(Byte) : Resembles(Feed(f, t), Feed(g, t))}
<1>1. << >> \in P
  BY FeedNothing, NoBytes
<1>2. ASSUME NEW t \in Seq(Byte), NEW b \in Byte, t \in P PROVE Append(t, b) \in P
  <2>1. PICK h \in Filters : h = Feed(f, t)
    BY FeedType
  <2>2. PICK k \in Filters : k = Feed(g, t)
    BY FeedType
  <2>3. Resembles(h, k)
    BY <1>2, <2>1, <2>2
  <2>4. Resembles(Step(h, b), Step(k, b))
    BY <2>3, StepResembles
  <2>5. Feed(f, Append(t, b)) = Step(h, b) /\ Feed(g, Append(t, b)) = Step(k, b)
    BY <2>1, <2>2, FeedOne
  <2> QED
    BY <2>4, <2>5, AppendByte
<1> HIDE DEF P
<1>3. Seq(Byte) \subseteq P
  BY <1>1, <1>2, ByAppending
<1>4. s \in P
  BY <1>3
<1> QED
  BY <1>4 DEF P

-----------------------------------------------------------------------------
(* What the filter answers to whole commands.                              *)

(* The filter f has become one in state st, with sub and naws, and r       *)
(* behind its answers, when s was fed to it.                               *)
Fed(f, s, st, sub, naws, r) ==
  s \in Seq(Byte) /\ Feed(f, s).state = st /\ Became(f, Feed(f, s), sub, naws, r)

(* One byte more.                                                          *)
LEMMA FedOn ==
  ASSUME NEW f \in Filters, NEW s, NEW st, NEW sub, NEW naws, NEW r \in Seq(Byte),
         Fed(f, s, st, sub, naws, r), NEW b \in Byte,
         NEW a, a = NextReply(st, sub, f.size, b), NEW next, next = NextState(st, b),
         NEW more, more = NextSub(st, sub, b), NEW knows, knows = NextNaws(st, naws, b)
  PROVE  Fed(f, Append(s, b), next, more, knows, r \o a) /\ r \o a \in Seq(Byte)
<1>1. s \in Seq(Byte) /\ Feed(f, s).state = st /\ Became(f, Feed(f, s), sub, naws, r)
  BY DEF Fed
<1>2. PICK g \in Filters : g = Feed(f, s)
  BY <1>1, FeedType
<1>3. g.state = st /\ g.sub = sub /\ g.naws = naws /\ g.size = f.size /\ g.replies = f.replies \o r
  BY <1>1, <1>2, Zenon DEF Became
<1>4. f.size \in Byte /\ f.replies \in Seq(Byte)
  BY SizesAreBytes DEF Filters
<1>5. a \in Seq(Byte)
  BY <1>4, NextReplyType
<1>6. (f.replies \o r) \o a = f.replies \o (r \o a) /\ r \o a \in Seq(Byte)
  <2>1. PICK p \in Seq(Byte) : p = f.replies
    BY <1>4
  <2>2. (p \o r) \o a = p \o (r \o a)
    BY <1>5, ConcatThree
  <2>3. r \o a \in Seq(Byte)
    BY <1>5
  <2> QED
    BY <2>1, <2>2, <2>3, Zenon
<1>7. Became(g, Step(g, b), more, knows, a)
  BY <1>3, StepTells
<1>8. Step(g, b).state = next
  BY <1>3, StepLets
<1>9. Feed(f, Append(s, b)) = Step(g, b)
  BY <1>1, <1>2, FeedOne
<1>10. Became(f, Step(g, b), more, knows, r \o a)
  BY <1>3, <1>6, <1>7, Zenon DEF Became
<1> QED
  BY <1>1, <1>6, <1>8, <1>9, <1>10, AppendByte, Zenon DEF Fed

(* What the filter makes of a command about an option.                     *)
LEMMA FeedCommand ==
  ASSUME NEW f \in Filters, f.state = "Data", NEW c \in {DO, DONT, WILL, WONT}, NEW o \in Byte
  PROVE  LET g == Feed(f, <<IAC, c, o>>)
         IN  /\ o # NAWS \/ c = WILL => g.naws = f.naws
             /\ o = NAWS /\ c = DO => g.naws = TRUE
             /\ c = WILL => g.replies = f.replies \o OfWill(o)
             /\ c = DO => g.replies = f.replies \o OfDo(f.size, o)
             /\ c \in {DONT, WONT} => g.replies = f.replies \o << >>
<1>1. IAC \in Byte /\ c \in Byte /\ c # IAC /\ c # SB /\ NAWS \in Byte
  BY DEF IAC, DO, DONT, WILL, WONT, SB, Byte, NAWS
<1>2. PICK st \in {"Do", "Dont", "Will", "Wont"} :
        /\ st = Introduces(c) /\ (st = "Do") = (c = DO) /\ (st = "Will") = (c = WILL)
  BY DEF Introduces, DO, DONT, WILL, WONT
<1>3. PICK e \in Seq(Byte) : e = << >>
  BY NoBytes
<1>4. Fed(f, << >>, "Data", f.sub, f.naws, e)
  <2>1. f.replies \in Seq(Byte)
    BY DEF Filters
  <2>2. f.replies \o e = f.replies
    BY <1>3, <2>1
  <2> QED
    BY <2>2, NoBytes, FeedNothing DEF Fed, Became
<1>5. e = NextReply("Data", f.sub, f.size, IAC) /\ "Iac" = NextState("Data", IAC)
      /\ f.sub = NextSub("Data", f.sub, IAC) /\ f.naws = NextNaws("Data", f.naws, IAC)
  BY <1>3 DEF NextReply, NextState, NextSub, NextNaws
<1>6. e \o e = e
  BY <1>3
<1>7. PICK s1 : s1 = Append(<< >>, IAC)
  OBVIOUS
<1>8. Fed(f, s1, "Iac", f.sub, f.naws, e)
  <2>1. Fed(f, Append(<< >>, IAC), "Iac", f.sub, f.naws, e \o e)
    BY <1>1, <1>4, <1>5, FedOn
  <2> QED
    BY <1>6, <1>7, <2>1, Zenon
<1>9. e = NextReply("Iac", f.sub, f.size, c) /\ st = NextState("Iac", c)
      /\ f.sub = NextSub("Iac", f.sub, c) /\ f.naws = NextNaws("Iac", f.naws, c)
  BY <1>1, <1>2, <1>3 DEF NextReply, NextState, NextSub, NextNaws
<1>10. PICK s2 : s2 = Append(s1, c)
  OBVIOUS
<1>11. Fed(f, s2, st, f.sub, f.naws, e)
  <2>1. Fed(f, Append(s1, c), st, f.sub, f.naws, e \o e)
    BY <1>1, <1>8, <1>9, FedOn
  <2> QED
    BY <1>6, <1>10, <2>1, Zenon
<1>12. PICK r : r = NextReply(st, f.sub, f.size, o)
  OBVIOUS
<1>13. PICK n : n = NextNaws(st, f.naws, o)
  OBVIOUS
<1>14. PICK u : u = NextSub(st, f.sub, o)
  OBVIOUS
<1>15. Fed(f, Append(s2, o), "Data", u, n, e \o r)
  <2>1. "Data" = NextState(st, o)
    BY DEF NextState
  <2> QED
    BY <1>11, <1>12, <1>13, <1>14, <2>1, FedOn
<1>16. Append(s2, o) = <<IAC, c, o>>
  <2>1. s1 = <<IAC>>
    BY <1>7, OneByte
  <2>2. s2 = <<IAC, c>>
    BY <1>10, <2>1, TwoBytes
  <2> QED
    BY <2>2, ThreeBytes
<1>17. /\ c = WILL => r = OfWill(o)
       /\ c = DO => r = OfDo(f.size, o)
       /\ c \in {DONT, WONT} => r = << >>
  <2>1. WILL # DO /\ DONT # DO /\ DONT # WILL /\ WONT # DO /\ WONT # WILL
    BY DEF WILL, DO, DONT, WONT
  <2> QED
    BY <1>2, <1>12, <2>1 DEF NextReply
<1>18. /\ o # NAWS \/ c = WILL => n = f.naws
       /\ o = NAWS /\ c = DO => n = TRUE
  <2>1. WILL # DO
    BY DEF WILL, DO
  <2> QED
    BY <1>2, <1>13, <2>1 DEF NextNaws
<1>19. r \in Seq(Byte)
  <2>1. f.size \in Byte
    BY SizesAreBytes DEF Filters
  <2> QED
    BY <1>12, <2>1, NextReplyType
<1>20. e \o r = r
  BY <1>3, <1>19
<1>21. Feed(f, <<IAC, c, o>>).naws = n /\ Feed(f, <<IAC, c, o>>).replies = f.replies \o r
  BY <1>15, <1>16, <1>20, Zenon DEF Fed, Became
<1> QED
  BY <1>17, <1>18, <1>21, Zenon

(* One byte more that is not answered.                                     *)
LEMMA FedSilently ==
  ASSUME NEW f \in Filters, NEW s, NEW st, NEW sub, NEW naws, Fed(f, s, st, sub, naws, << >>),
         NEW b \in Byte, << >> = NextReply(st, sub, f.size, b),
         NEW next, next = NextState(st, b), NEW more, more = NextSub(st, sub, b),
         naws = NextNaws(st, naws, b), NEW t, t = Append(s, b)
  PROVE  Fed(f, t, next, more, naws, << >>)
<1>1. PICK e \in Seq(Byte) : e = << >>
  BY NoBytes
<1>2. Fed(f, s, st, sub, naws, e) /\ e = NextReply(st, sub, f.size, b) /\ e \o e = e
  BY <1>1
<1>3. Fed(f, Append(s, b), next, more, naws, e \o e)
  BY <1>2, FedOn
<1> QED
  BY <1>1, <1>2, <1>3, Zenon

(* A filter nothing was fed to.                                            *)
LEMMA FedNothing ==
  ASSUME NEW f \in Filters, f.state = "Data"
  PROVE  Fed(f, << >>, "Data", f.sub, f.naws, << >>)
<1>1. f.replies \in Seq(Byte)
  BY DEF Filters
<1>2. f.replies \o << >> = f.replies
  BY <1>1
<1> QED
  BY <1>2, NoBytes, FeedNothing DEF Fed, Became

(* The question for the terminal type is answered.                         *)
LEMMA FeedTypeAsk ==
  ASSUME NEW f \in Filters, f.state = "Data"
  PROVE  /\ Feed(f, TypeAsk).naws = f.naws
         /\ Feed(f, TypeAsk).replies = f.replies \o TypeIs
<1>1. /\ IAC \in Byte /\ SB \in Byte /\ TTYPE \in Byte /\ SEND \in Byte /\ SE \in Byte
      /\ SB # IAC /\ TTYPE # IAC /\ SEND # IAC /\ SE # IAC /\ SB # SE
  BY DEF IAC, SB, TTYPE, SEND, SE, Byte
<1>2. /\ "Iac" = NextState("Data", IAC) /\ "Sub" = NextState("Iac", SB)
      /\ "Sub" = NextState("Sub", TTYPE) /\ "Sub" = NextState("Sub", SEND)
      /\ "SubIac" = NextState("Sub", IAC) /\ "Data" = NextState("SubIac", SE)
  BY <1>1 DEF NextState
<1>3. /\ f.naws = NextNaws("Data", f.naws, IAC) /\ f.naws = NextNaws("Iac", f.naws, SB)
      /\ f.naws = NextNaws("Sub", f.naws, TTYPE) /\ f.naws = NextNaws("Sub", f.naws, SEND)
      /\ f.naws = NextNaws("Sub", f.naws, IAC) /\ f.naws = NextNaws("SubIac", f.naws, SE)
  BY DEF NextNaws
<1>4. PICK t1 : t1 = <<TTYPE>>
  OBVIOUS
<1>5. PICK t2 : t2 = <<TTYPE, SEND>>
  OBVIOUS
<1>6. /\ << >> = NextReply("Data", f.sub, f.size, IAC)
      /\ << >> = NextReply("Iac", f.sub, f.size, SB)
      /\ << >> = NextReply("Sub", << >>, f.size, TTYPE)
      /\ << >> = NextReply("Sub", t1, f.size, SEND)
      /\ << >> = NextReply("Sub", t2, f.size, IAC)
  BY DEF NextReply
<1>7. /\ f.sub = NextSub("Data", f.sub, IAC) /\ << >> = NextSub("Iac", f.sub, SB)
      /\ t1 = NextSub("Sub", << >>, TTYPE) /\ t2 = NextSub("Sub", t1, SEND)
      /\ t2 = NextSub("Sub", t2, IAC) /\ << >> = NextSub("SubIac", t2, SE)
  BY <1>1, <1>4, <1>5, OneByte, TwoBytes DEF NextSub
<1>8. PICK s1 : s1 = Append(<< >>, IAC)
  OBVIOUS
<1>9. Fed(f, s1, "Iac", f.sub, f.naws, << >>)
  BY <1>1, <1>2, <1>3, <1>6, <1>7, <1>8, FedNothing, FedSilently
<1>10. PICK s2 : s2 = Append(s1, SB)
  OBVIOUS
<1>11. Fed(f, s2, "Sub", << >>, f.naws, << >>)
  BY <1>1, <1>2, <1>3, <1>6, <1>7, <1>9, <1>10, FedSilently
<1>12. PICK s3 : s3 = Append(s2, TTYPE)
  OBVIOUS
<1>13. Fed(f, s3, "Sub", t1, f.naws, << >>)
  BY <1>1, <1>2, <1>3, <1>6, <1>7, <1>11, <1>12, FedSilently
<1>14. PICK s4 : s4 = Append(s3, SEND)
  OBVIOUS
<1>15. Fed(f, s4, "Sub", t2, f.naws, << >>)
  BY <1>1, <1>2, <1>3, <1>6, <1>7, <1>13, <1>14, FedSilently
<1>16. PICK s5 : s5 = Append(s4, IAC)
  OBVIOUS
<1>17. Fed(f, s5, "SubIac", t2, f.naws, << >>)
  BY <1>1, <1>2, <1>3, <1>6, <1>7, <1>15, <1>16, FedSilently
<1>18. TypeIs = NextReply("SubIac", t2, f.size, SE)
  <2>1. AsksType(t2)
    BY <1>5, TwoBytes DEF AsksType
  <2> QED
    BY <2>1 DEF NextReply
<1>19. PICK e \in Seq(Byte) : e = << >>
  BY NoBytes
<1>20. f.naws = NextNaws("SubIac", f.naws, SE)
  BY <1>3
<1>21. Fed(f, Append(s5, SE), "Data", << >>, f.naws, e \o TypeIs)
  <2>1. Fed(f, s5, "SubIac", t2, f.naws, e)
    BY <1>17, <1>19
  <2> QED
    BY <1>1, <1>2, <1>7, <1>18, <1>20, <2>1, FedOn
<1>22. TypeIs \in Seq(Byte)
  BY TypeIsOrder, OrderIsOrders DEF AllOrders
<1>23. e \o TypeIs = TypeIs
  BY <1>19, <1>22, EmptyBefore, Zenon
<1>24. TypeAsk =
         Append(Append(Append(Append(Append(Append(<< >>, IAC), SB), TTYPE), SEND), IAC), SE)
  BY DEF TypeAsk
<1>25. Append(s5, SE) = TypeAsk
  BY <1>8, <1>10, <1>12, <1>14, <1>16, <1>24, Zenon
<1> QED
  BY <1>21, <1>23, <1>25, Zenon DEF Fed, Became

(* What the host prints is not answered.                                   *)
LEMMA FeedPrinted ==
  ASSUME NEW f \in Filters, f.state = "Data", NEW b \in Byte, NEW r,
         r = IF b = IAC THEN <<IAC, IAC>> ELSE <<b>>
  PROVE  Feed(f, r).naws = f.naws /\ Feed(f, r).replies = f.replies
<1>1. \A st, sub, c : /\ st \in {"Data", "Iac"} => << >> = NextReply(st, sub, f.size, c)
                      /\ st \in {"Data", "Iac"} => f.naws = NextNaws(st, f.naws, c)
  BY DEF NextReply, NextNaws
<1>2. PICK sub, st : Fed(f, r, st, sub, f.naws, << >>)
  <2>1. IAC \in Byte
    BY DEF IAC, Byte
  <2>2. PICK s1 : s1 = Append(<< >>, b)
    OBVIOUS
  <2>3. Fed(f, s1, NextState("Data", b), NextSub("Data", f.sub, b), f.naws, << >>)
    BY <1>1, <2>2, FedNothing, FedSilently
  <2>4. CASE b # IAC
    BY <2>2, <2>3, <2>4, OneByte
  <2>5. CASE b = IAC
    <3>1. NextState("Data", b) = "Iac"
      BY <2>5 DEF NextState
    <3>2. PICK u : u = NextSub("Data", f.sub, b)
      OBVIOUS
    <3>3. Fed(f, s1, "Iac", u, f.naws, << >>)
      BY <2>3, <3>1, <3>2
    <3>4. r = Append(s1, IAC)
      <4>1. s1 = <<IAC>>
        BY <2>2, <2>5, OneByte
      <4> QED
        BY <2>5, <4>1, TwoBytes
    <3>5. Fed(f, r, NextState("Iac", IAC), NextSub("Iac", u, IAC), f.naws, << >>)
      BY <1>1, <2>1, <3>3, <3>4, FedSilently
    <3> QED
      BY <3>5
  <2> QED
    BY <2>4, <2>5
<1>3. f.replies \in Seq(Byte)
  BY DEF Filters
<1>4. f.replies \o << >> = f.replies
  BY <1>3
<1> QED
  BY <1>2, <1>4, Zenon DEF Fed, Became

-----------------------------------------------------------------------------
(* The server, and what it asks.                                           *)

(* What a server knows, asks and answers.                                  *)
Shows(v, pending, on, doing, replies, seen) ==
  /\ v.pending = pending /\ v.on = on /\ v.doing = doing
  /\ v.replies = replies /\ v.seen = seen

(* What setting one field does to the others.                              *)
LEMMA ShowsSet ==
  ASSUME NEW v \in Servers, NEW P, NEW O, NEW D, NEW r, NEW n, Shows(v, P, O, D, r, n), NEW x
  PROVE  /\ Shows([v EXCEPT !.pending = x], x, O, D, r, n)
         /\ Shows([v EXCEPT !.on = x], P, x, D, r, n)
         /\ Shows([v EXCEPT !.doing = x], P, O, x, r, n)
         /\ Shows([v EXCEPT !.replies = x], P, O, D, x, n)
         /\ Shows([v EXCEPT !.seen = x], P, O, D, r, x)
         /\ Shows([v EXCEPT !.got = x], P, O, D, r, n)
         /\ Shows([v EXCEPT !.at = x], P, O, D, r, n)
         /\ Shows([v EXCEPT !.up = x], P, O, D, r, n)
<1>1. DOMAIN v = {"up", "agrees", "at", "replies", "got", "seen", "on", "doing", "pending"}
  BY DEF Servers
<1>2. v.pending = P /\ v.on = O /\ v.doing = D /\ v.replies = r /\ v.seen = n
  BY DEF Shows
<1>3. /\ Shows([v EXCEPT !.pending = x], x, O, D, r, n)
      /\ Shows([v EXCEPT !.on = x], P, x, D, r, n)
      /\ Shows([v EXCEPT !.doing = x], P, O, x, r, n)
      /\ Shows([v EXCEPT !.replies = x], P, O, D, x, n)
  BY <1>1, <1>2 DEF Shows
<1>4. /\ Shows([v EXCEPT !.seen = x], P, O, D, r, x)
      /\ Shows([v EXCEPT !.got = x], P, O, D, r, n)
      /\ Shows([v EXCEPT !.at = x], P, O, D, r, n)
      /\ Shows([v EXCEPT !.up = x], P, O, D, r, n)
  BY <1>1, <1>2 DEF Shows
<1> QED
  BY <1>3, <1>4

(* Its own answers, questions and what it takes as answered.               *)
LEMMA ShowsSaid ==
  ASSUME NEW v \in Servers, NEW P, NEW O, NEW D, NEW r, NEW n, Shows(v, P, O, D, r, n),
         NEW c, NEW o
  PROVE  /\ Shows(Answer(v, c, o), P, O, D, r \o <<IAC, c, o>>, n)
         /\ Shows(Settled(v, c, o), P \ {<<c, o>>}, O, D, r, n)
         /\ Shows(AskType(v), P \cup {<<SB, TTYPE>>}, O, D, r \o TypeAsk, n)
<1>1. v.pending = P /\ v.replies = r
  BY DEF Shows
<1>2. \A x : /\ Shows([v EXCEPT !.pending = x], x, O, D, r, n)
            /\ Shows([v EXCEPT !.replies = x], P, O, D, x, n)
  BY ShowsSet
<1>3. PICK a : a = r \o <<IAC, c, o>>
  OBVIOUS
<1>4. Answer(v, c, o) = [v EXCEPT !.replies = a]
  BY <1>1, <1>3 DEF Answer
<1>5. Shows(Answer(v, c, o), P, O, D, a, n)
  BY <1>4, <1>2, Zenon
<1>6. PICK Q : Q = P \ {<<c, o>>}
  OBVIOUS
<1>7. Settled(v, c, o) = [v EXCEPT !.pending = Q]
  BY <1>1, <1>6 DEF Settled
<1>8. Shows(Settled(v, c, o), Q, O, D, r, n)
  BY <1>7, <1>2, Zenon
<1>9. Shows(AskType(v), P \cup {<<SB, TTYPE>>}, O, D, r \o TypeAsk, n)
  <2>1. PICK q : q = r \o TypeAsk
    OBVIOUS
  <2>2. PICK X : X = P \cup {<<SB, TTYPE>>}
    OBVIOUS
  <2>3. AskType(v) = [v EXCEPT !.replies = q, !.pending = X]
    BY <1>1, <2>1, <2>2 DEF AskType, TypeAsk
  <2>4. DOMAIN v = {"up", "agrees", "at", "replies", "got", "seen", "on", "doing", "pending"}
    BY DEF Servers
  <2>5. Shows(AskType(v), X, O, D, q, n)
    BY <2>3, <2>4 DEF Shows
  <2> QED
    BY <2>1, <2>2, <2>5
<1> QED
  BY <1>3, <1>5, <1>6, <1>8, <1>9

(* An option is on: the terminal type is asked for.                        *)
LEMMA ShowsOn ==
  ASSUME NEW v \in Servers, NEW P, NEW O, NEW D, NEW r, NEW n, Shows(v, P, O, D, r, n),
         NEW o \in Byte
  PROVE  IF o = TTYPE
           THEN Shows(TurnedOn(v, o), P \cup {<<SB, TTYPE>>}, O \cup {o}, D, r \o TypeAsk, n)
           ELSE Shows(TurnedOn(v, o), P, O \cup {o}, D, r, n)
<1>1. v.on = O /\ O \cup {o} \in SUBSET Byte
  BY DEF Shows, Servers
<1>2. PICK w \in Servers : w = [v EXCEPT !.on = O \cup {o}]
  BY <1>1, ServerFields
<1>3. Shows(w, P, O \cup {o}, D, r, n)
  BY <1>2, ShowsSet
<1>4. TurnedOn(v, o) = IF o = TTYPE THEN AskType(w) ELSE w
  BY <1>1, <1>2 DEF TurnedOn
<1>5. Shows(AskType(w), P \cup {<<SB, TTYPE>>}, O \cup {o}, D, r \o TypeAsk, n)
  BY <1>3, ShowsSaid
<1> QED
  BY <1>3, <1>4, <1>5

(* Every server shows something.                                           *)
LEMMA ShowsAll ==
  ASSUME NEW v \in Servers
  PROVE  /\ Shows(v, v.pending, v.on, v.doing, v.replies, v.seen)
         /\ v.on \subseteq Byte /\ v.doing \subseteq Byte
BY DEF Shows, Servers

(* What an offer makes of a server.                                        *)
LEMMA OfferShows ==
  ASSUME NEW v \in Servers, NEW o \in Byte
  PROVE  /\ o \in v.on => OnOffer(v, o) = v
         /\ o \notin v.on /\ <<DO, o>> \in v.pending =>
              /\ Settled(v, DO, o) \in Servers /\ OnOffer(v, o) = TurnedOn(Settled(v, DO, o), o)
         /\ o \notin v.on /\ <<DO, o>> \notin v.pending =>
              \/ /\ Answer(v, DO, o) \in Servers
                 /\ OnOffer(v, o) = TurnedOn(Answer(v, DO, o), o)
              \/ OnOffer(v, o) = Answer(v, DONT, o)
<1>1. DO \in Byte
  BY DEF DO, Byte
<1>2. Settled(v, DO, o) \in Servers /\ Answer(v, DO, o) \in Servers
  BY <1>1, SettledType, AnswerType
<1>3. o \in v.on => OnOffer(v, o) = v
  BY DEF OnOffer
<1>4. o \notin v.on /\ <<DO, o>> \in v.pending => OnOffer(v, o) = TurnedOn(Settled(v, DO, o), o)
  BY DEF OnOffer
<1>5. o \notin v.on /\ <<DO, o>> \notin v.pending =>
        OnOffer(v, o) \in {TurnedOn(Answer(v, DO, o), o), Answer(v, DONT, o)}
  BY DEF OnOffer
<1> QED
  BY <1>2, <1>3, <1>4, <1>5

(* What a request makes of a server.                                       *)
LEMMA RequestShows ==
  ASSUME NEW v \in Servers, NEW o \in Byte
  PROVE  /\ o \in v.doing => OnRequest(v, o) = v
         /\ o \notin v.doing /\ <<WILL, o>> \in v.pending =>
              Shows(OnRequest(v, o), v.pending \ {<<WILL, o>>}, v.on, v.doing \cup {o}, v.replies,
                    v.seen)
         /\ o \notin v.doing /\ <<WILL, o>> \notin v.pending =>
              \/ Shows(OnRequest(v, o), v.pending, v.on, v.doing \cup {o},
                       v.replies \o <<IAC, WILL, o>>, v.seen)
              \/ Shows(OnRequest(v, o), v.pending, v.on, v.doing,
                       v.replies \o <<IAC, WONT, o>>, v.seen)
<1>1. Shows(v, v.pending, v.on, v.doing, v.replies, v.seen)
  BY ShowsAll
<1>2. WILL \in Byte
  BY DEF WILL, Byte
<1>3. PICK w \in Servers : w = Settled(v, WILL, o)
  BY SettledType
<1>4. Shows(w, v.pending \ {<<WILL, o>>}, v.on, v.doing, v.replies, v.seen)
  BY <1>1, <1>3, ShowsSaid
<1>5. PICK y \in Servers : y = Answer(v, WILL, o)
  BY <1>2, AnswerType
<1>6. Shows(y, v.pending, v.on, v.doing, v.replies \o <<IAC, WILL, o>>, v.seen)
  BY <1>1, <1>5, ShowsSaid
<1>7. w.doing = v.doing /\ y.doing = v.doing
  BY <1>4, <1>6, Zenon DEF Shows
<1>8. PICK D : D = v.doing \cup {o}
  OBVIOUS
<1>9. /\ Shows([w EXCEPT !.doing = D], v.pending \ {<<WILL, o>>}, v.on, D, v.replies, v.seen)
      /\ Shows([y EXCEPT !.doing = D], v.pending, v.on, D, v.replies \o <<IAC, WILL, o>>, v.seen)
  BY <1>4, <1>6, ShowsSet
<1>10. Shows(Answer(v, WONT, o), v.pending, v.on, v.doing, v.replies \o <<IAC, WONT, o>>, v.seen)
  BY <1>1, ShowsSaid
<1>11. o \in v.doing => OnRequest(v, o) = v
  BY DEF OnRequest
<1>12. o \notin v.doing /\ <<WILL, o>> \in v.pending => OnRequest(v, o) = [w EXCEPT !.doing = D]
  BY <1>3, <1>7, <1>8 DEF OnRequest
<1>13. o \notin v.doing /\ <<WILL, o>> \notin v.pending =>
         OnRequest(v, o) \in {[y EXCEPT !.doing = D], Answer(v, WONT, o)}
  BY <1>5, <1>7, <1>8 DEF OnRequest
<1>14. /\ Shows([w EXCEPT !.doing = D], v.pending \ {<<WILL, o>>}, v.on, v.doing \cup {o},
                v.replies, v.seen)
       /\ Shows([y EXCEPT !.doing = D], v.pending, v.on, v.doing \cup {o},
                v.replies \o <<IAC, WILL, o>>, v.seen)
  BY <1>8, <1>9
<1> QED
  BY <1>10, <1>11, <1>12, <1>13, <1>14, Zenon

(* What a server asks: for an option of either side, or for the type.      *)
Questions == ({DO, WILL} \X Byte) \cup {<<SB, TTYPE>>}

(* The messages that settle the question x.                                *)
AnswersTo(x) ==
  CASE x[1] = DO -> {<<IAC, WILL, x[2]>>, <<IAC, WONT, x[2]>>}
    [] x[1] = WILL -> {<<IAC, DO, x[2]>>, <<IAC, DONT, x[2]>>}
    [] OTHER -> {TypeIs}

(* A server that waits for pending, with on and doing, gets along with a   *)
(* filter that knows of NAWS or not, if said is what is said to it by and  *)
(* by: every question is answered, none is about what is settled, and      *)
(* whoever has NAWS is told the size.                                      *)
Agreed(pending, on, doing, said, naws) ==
  /\ pending \subseteq Questions /\ NAWS \notin doing
  /\ \A o \in Byte : /\ <<DO, o>> \in pending => o \notin on
                     /\ <<WILL, o>> \in pending => o \notin doing
  /\ \A x \in pending : AnswersTo(x) \cap said # {}
  /\ NAWS \in on \/ <<DO, NAWS>> \in pending => naws
  /\ NawsAsked \notin said

(* A message answers one question at most.                                 *)
LEMMA AnswerFits ==
  ASSUME NEW x \in Questions, NEW m \in AnswersTo(x)
  PROVE  /\ m[1] = IAC
         /\ \/ m[2] \in {WILL, WONT} /\ x = <<DO, m[3]>>
            \/ m[2] \in {DO, DONT} /\ x = <<WILL, m[3]>>
            \/ m[2] = SB /\ m[3] = TTYPE /\ x = <<SB, TTYPE>>
<1>1. DO # WILL /\ SB # DO /\ SB # WILL
  BY DEF DO, WILL, SB
<1>2. CASE x \in {DO, WILL} \X Byte
  <2>1. PICK c \in {DO, WILL}, o \in Byte : x = <<c, o>>
    BY <1>2
  <2>2. x[1] = c /\ x[2] = o
    BY <2>1
  <2>3. CASE c = DO
    <3>1. m \in {<<IAC, WILL, o>>, <<IAC, WONT, o>>}
      BY <1>1, <2>2, <2>3 DEF AnswersTo
    <3>2. m[1] = IAC /\ m[2] \in {WILL, WONT} /\ m[3] = o
      BY <3>1, ThreeBytes
    <3> QED
      BY <2>1, <2>3, <3>2
  <2>4. CASE c = WILL
    <3>1. m \in {<<IAC, DO, o>>, <<IAC, DONT, o>>}
      BY <1>1, <2>2, <2>4 DEF AnswersTo
    <3>2. m[1] = IAC /\ m[2] \in {DO, DONT} /\ m[3] = o
      BY <3>1, ThreeBytes
    <3> QED
      BY <2>1, <2>4, <3>2
  <2> QED
    BY <2>1, <2>3, <2>4
<1>3. CASE x = <<SB, TTYPE>>
  <2>1. m = TypeIs
    BY <1>1, <1>3 DEF AnswersTo
  <2>2. TypeIs[1] = IAC /\ TypeIs[2] = SB /\ TypeIs[3] = TTYPE
    BY DEF TypeIs
  <2> QED
    BY <1>3, <2>1, <2>2
<1> QED
  BY <1>2, <1>3 DEF Questions

(* A message that is read, and the question it settles, if any.            *)
LEMMA AgreedDrops ==
  ASSUME NEW P, NEW O, NEW D, NEW m, NEW T, NEW n, Agreed(P, O, D, {m} \cup T, n),
         NEW Q \in SUBSET P, \A x \in Q : m \notin AnswersTo(x)
  PROVE  Agreed(Q, O, D, T, n)
<1>1. ASSUME NEW x \in Q PROVE AnswersTo(x) \cap T # {}
  <2>1. AnswersTo(x) \cap ({m} \cup T) # {}
    BY DEF Agreed
  <2> QED
    BY <2>1
<1> QED
  BY <1>1 DEF Agreed

(* More that is said, and NAWS that is agreed on, or was not.              *)
LEMMA AgreedMore ==
  ASSUME NEW P, NEW O, NEW D, NEW T, NEW n, Agreed(P, O, D, T, n),
         NEW S, T \subseteq S, NawsAsked \notin S,
         NEW k, k = n \/ k = TRUE \/ (NAWS \notin O /\ <<DO, NAWS>> \notin P)
  PROVE  Agreed(P, O, D, S, k)
<1>1. ASSUME NEW x \in P PROVE AnswersTo(x) \cap S # {}
  <2>1. AnswersTo(x) \cap T # {}
    BY DEF Agreed
  <2> QED
    BY <2>1
<1>2. NAWS \in O \/ <<DO, NAWS>> \in P => k
  BY Zenon DEF Agreed
<1> QED
  BY <1>1, <1>2 DEF Agreed

(* An option goes on or off on the other side, or on this one.             *)
LEMMA AgreedOptions ==
  ASSUME NEW P, NEW O, NEW D, NEW T, NEW n \in BOOLEAN, Agreed(P, O, D, T, n), NEW o \in Byte
  PROVE  /\ Agreed(P, O \ {o}, D, T, n) /\ Agreed(P, O, D \ {o}, T, n)
         /\ <<DO, o>> \notin P /\ (o = NAWS => n) => Agreed(P, O \cup {o}, D, T, n)
         /\ <<WILL, o>> \notin P /\ o # NAWS => Agreed(P, O, D \cup {o}, T, n)
BY DEF Agreed

(* A question that is answered already.                                    *)
LEMMA AgreedAsked ==
  ASSUME NEW P, NEW O, NEW D, NEW T, NEW n \in BOOLEAN, Agreed(P, O, D, T, n),
         NEW x \in Questions, AnswersTo(x) \cap T # {}, NEW o \in Byte,
         \/ x = <<SB, TTYPE>>
         \/ x = <<DO, o>> /\ o \notin O /\ (o = NAWS => n)
         \/ x = <<WILL, o>> /\ o \notin D
  PROVE  Agreed(P \cup {x}, O, D, T, n)
<1>1. P \cup {x} \subseteq Questions
  BY DEF Agreed
<1>2. \A y \in P \cup {x} : AnswersTo(y) \cap T # {}
  BY DEF Agreed
<1>3. DO # WILL /\ SB # DO /\ SB # WILL
  BY DEF DO, WILL, SB
<1>4. ASSUME NEW q \in Byte
      PROVE  /\ <<DO, q>> \in P \cup {x} => q \notin O /\ (q = NAWS => n)
             /\ <<WILL, q>> \in P \cup {x} => q \notin D
  <2>1. <<DO, q>> = x => q \notin O /\ (q = NAWS => n)
    BY <1>3
  <2>2. <<WILL, q>> = x => q \notin D
    BY <1>3
  <2>3. /\ <<DO, q>> \in P => q \notin O /\ (q = NAWS => n)
        /\ <<WILL, q>> \in P => q \notin D
    BY DEF Agreed
  <2> QED
    BY <2>1, <2>2, <2>3
<1>5. NAWS \in Byte
  BY DEF NAWS, Byte
<1> QED
  BY <1>1, <1>2, <1>4, <1>5 DEF Agreed

-----------------------------------------------------------------------------
(* A server that reads and asks, and a filter that will have its bytes.    *)

(* A server and a filter that get along once the filter has got the        *)
(* server's answers and the server has got what is said.                   *)
Talks(f, pending, on, doing, replies, said) ==
  LET g == Feed(f, replies)
  IN  Agreed(pending, on, doing, said \cup Said(g.replies), g.naws)

(* A filter that has just had whole commands.                              *)
Listens(f) == f \in Filters /\ f.state = "Data" /\ Modest(f.replies)

(* A filter that listens listens on after quiet bytes.                     *)
LEMMA ListensOn ==
  ASSUME NEW f, Listens(f), NEW r, Quiet(r)
  PROVE  Listens(Feed(f, r)) /\ r \in Seq(Byte) /\ Feed(f, r).naws \in BOOLEAN
<1>1. f \in Filters /\ f.state = "Data" /\ Modest(f.replies) /\ r \in Seq(Byte)
  BY DEF Listens, Quiet, Passes
<1>2. PICK g \in Filters : g = Feed(f, r)
  BY <1>1, FeedType
<1>3. g.state = "Data"
  BY <1>1, <1>2 DEF Quiet, Passes
<1>4. Modest(g.replies)
  BY <1>1, <1>2, FeedModest
<1>5. g.naws \in BOOLEAN
  BY DEF Filters
<1> QED
  BY <1>1, <1>2, <1>3, <1>4, <1>5 DEF Listens

(* NAWS is as it was, or agreed on, or nobody counts on it.                *)
NawsStays(pending, on, n, k) ==
  k = n \/ k = TRUE \/ (NAWS \notin on /\ <<DO, NAWS>> \notin pending)

(* A filter that has got replies hears w, and answers a.                   *)
Hears(f, replies, w, a, pending, on) ==
  LET g == Feed(f, replies)
      h == Feed(g, w)
  IN  h.replies = g.replies \o a /\ NawsStays(pending, on, g.naws, h.naws)

(* What the filter answers is said, and changes what it knows of NAWS only *)
(* when it is asked for or nobody counts on it.                            *)
LEMMA TalksOn ==
  ASSUME NEW f, Listens(f), NEW r, Quiet(r), NEW P, NEW O, NEW D, NEW R, Talks(f, P, O, D, r, R),
         NEW w \in Seq(Byte), NEW a, Modest(a), Hears(f, r, w, a, P, O)
  PROVE  Talks(f, P, O, D, r \o w, R) /\ Said(a) \subseteq Said(Feed(f, r \o w).replies)
<1>1. f \in Filters /\ r \in Seq(Byte)
  BY ListensOn DEF Listens
<1>2. PICK g : g = Feed(f, r)
  OBVIOUS
<1>3. PICK h : h = Feed(g, w)
  OBVIOUS
<1>4. h.replies = g.replies \o a /\ NawsStays(P, O, g.naws, h.naws)
  BY <1>2, <1>3 DEF Hears
<1>5. Modest(g.replies)
  BY <1>2, ListensOn DEF Listens
<1>6. Feed(f, r \o w) = h
  BY <1>2, <1>1, <1>3, FeedBoth
<1>7. Said(h.replies) = Said(g.replies) \cup Said(a) /\ Modest(h.replies)
  BY <1>5, <1>4, ModestBoth
<1>8. Agreed(P, O, D, R \cup Said(g.replies), g.naws)
  BY <1>2 DEF Talks
<1>9. NawsAsked \notin R \cup Said(h.replies)
  BY <1>7, <1>8 DEF Agreed, Modest
<1>10. PICK S : S = R \cup Said(h.replies)
  OBVIOUS
<1>11. PICK T : T = R \cup Said(g.replies)
  OBVIOUS
<1>12. T \subseteq S /\ NawsAsked \notin S
  BY <1>7, <1>9, <1>10, <1>11
<1>13. PICK n : n = g.naws
  OBVIOUS
<1>14. PICK k : k = h.naws
  OBVIOUS
<1>15. k = n \/ k = TRUE \/ (NAWS \notin O /\ <<DO, NAWS>> \notin P)
  BY <1>13, <1>14, <1>4 DEF NawsStays
<1>16. Agreed(P, O, D, T, n)
  BY <1>8, <1>11, <1>13
<1>17. Agreed(P, O, D, S, k)
  BY <1>12, <1>15, <1>16, AgreedMore
<1> QED
  BY <1>6, <1>7, <1>10, <1>14, <1>17 DEF Talks

(* The server says that it will, or that it will not, and the like.        *)
LEMMA TalksCommand ==
  ASSUME NEW f, Listens(f), NEW r, Quiet(r), NEW P, NEW O, NEW D, NEW R, Talks(f, P, O, D, r, R),
         NEW c \in {DO, DONT, WILL, WONT}, NEW o \in Byte,
         c \in {DO, WILL} \/ o # NAWS \/ (NAWS \notin O /\ <<DO, NAWS>> \notin P)
  PROVE  /\ Talks(f, P, O, D, r \o <<IAC, c, o>>, R) /\ Quiet(r \o <<IAC, c, o>>)
         /\ c = DO /\ o = NAWS => Feed(f, r \o <<IAC, c, o>>).naws = TRUE
         /\ c \in {DO, WILL} =>
              AnswersTo(<<c, o>>) \cap Said(Feed(f, r \o <<IAC, c, o>>).replies) # {}
<1>1. PICK g \in Filters : g = Feed(f, r) /\ g.state = "Data"
  BY ListensOn DEF Listens
<1>2. g.size \in Byte
  BY SizesAreBytes DEF Filters
<1>3. PICK w \in Seq(Byte) : w = <<IAC, c, o>>
  BY CommandOrder, OrderIsOrders DEF AllOrders
<1>4. PICK a \in {OfWill(o), OfDo(g.size, o), << >>} :
        /\ c = WILL => a = OfWill(o)
        /\ c = DO => a = OfDo(g.size, o)
        /\ c \in {DONT, WONT} => a = << >>
  BY DEF DO, DONT, WILL, WONT
<1>5. PICK h : h = Feed(g, w)
  OBVIOUS
<1>6. /\ o # NAWS \/ c = WILL => h.naws = g.naws
      /\ o = NAWS /\ c = DO => h.naws = TRUE
      /\ h.replies = g.replies \o a
  <2>1. LET z == Feed(g, <<IAC, c, o>>)
        IN  /\ o # NAWS \/ c = WILL => z.naws = g.naws
            /\ o = NAWS /\ c = DO => z.naws = TRUE
            /\ c = WILL => z.replies = g.replies \o OfWill(o)
            /\ c = DO => z.replies = g.replies \o OfDo(g.size, o)
            /\ c \in {DONT, WONT} => z.replies = g.replies \o << >>
    BY <1>1, FeedCommand, Zenon
  <2>2. c = WILL \/ c = DO \/ c \in {DONT, WONT}
    OBVIOUS
  <2> QED
    BY <1>3, <1>4, <1>5, <2>1, <2>2, Zenon
<1>7. /\ Modest(OfWill(o)) /\ Said(OfWill(o)) \subseteq {<<IAC, DO, o>>, <<IAC, DONT, o>>}
      /\ Said(OfWill(o)) # {}
      /\ Modest(OfDo(g.size, o))
      /\ Said(OfDo(g.size, o)) \subseteq {<<IAC, WILL, o>>, <<IAC, WONT, o>>}
      /\ Said(OfDo(g.size, o)) # {}
  BY <1>2, AnswersSaid
<1>8. Modest(a)
  BY <1>4, <1>7, SaidNothing
<1>9. WILL # DO
  BY DEF WILL, DO
<1>10. NawsStays(P, O, g.naws, h.naws)
  BY <1>6, Zenon DEF NawsStays
<1>11. Talks(f, P, O, D, r \o w, R) /\ Feed(f, r \o w) = h /\ Said(a) \subseteq Said(h.replies)
  <2>1. Hears(f, r, w, a, P, O)
    BY <1>1, <1>5, <1>6, <1>10, Zenon DEF Hears
  <2>2. Talks(f, P, O, D, r \o w, R) /\ Said(a) \subseteq Said(Feed(f, r \o w).replies)
    BY <1>3, <1>8, <2>1, TalksOn
  <2>3. Feed(f, r \o w) = h
    <3>1. f \in Filters /\ r \in Seq(Byte)
      BY ListensOn DEF Listens
    <3> QED
      BY <1>1, <1>3, <1>5, <3>1, FeedBoth
  <2> QED
    BY <2>2, <2>3
<1>12. Quiet(w)
  BY <1>3, QuietCommand
<1>13. c \in {DO, WILL} => AnswersTo(<<c, o>>) \cap Said(a) # {}
  <2>1. /\ AnswersTo(<<DO, o>>) = {<<IAC, WILL, o>>, <<IAC, WONT, o>>}
        /\ AnswersTo(<<WILL, o>>) = {<<IAC, DO, o>>, <<IAC, DONT, o>>}
    BY <1>9 DEF AnswersTo
  <2> QED
    BY <1>4, <1>7, <1>9, <2>1
<1>14. c = DO /\ o = NAWS => h.naws = TRUE
  BY <1>6, Zenon
<1> QED
  BY <1>3, <1>11, <1>12, <1>13, <1>14, QuietBoth

(* The server asks for the type of the terminal.                           *)
LEMMA TalksType ==
  ASSUME NEW f, Listens(f), NEW r, Quiet(r), NEW P, NEW O, NEW D, NEW R, Talks(f, P, O, D, r, R)
  PROVE  Talks(f, P \cup {<<SB, TTYPE>>}, O, D, r \o TypeAsk, R) /\ Quiet(r \o TypeAsk)
<1>1. PICK g \in Filters : g = Feed(f, r) /\ g.state = "Data"
  BY ListensOn DEF Listens
<1>2. PICK w \in Seq(Byte) : w = TypeAsk
  BY QuietAsk DEF Quiet, Passes
<1>3. Feed(g, w).naws = g.naws /\ Feed(g, w).replies = g.replies \o TypeIs
  BY <1>1, <1>2, FeedTypeAsk
<1>4. PICK h : h = Feed(g, w)
  OBVIOUS
<1>5. NawsStays(P, O, g.naws, h.naws)
  BY <1>3, <1>4, Zenon DEF NawsStays
<1>6. Feed(f, r \o w) = h
  BY <1>1, <1>2, <1>4, ListensOn, FeedBoth DEF Listens
<1>7. Talks(f, P, O, D, r \o w, R) /\ Said(TypeIs) \subseteq Said(h.replies)
  <2>1. Hears(f, r, w, TypeIs, P, O)
    BY <1>1, <1>3, <1>4, <1>5, Zenon DEF Hears
  <2>2. Talks(f, P, O, D, r \o w, R) /\ Said(TypeIs) \subseteq Said(Feed(f, r \o w).replies)
    BY <1>2, TypeIsSaid, <2>1, TalksOn
  <2> QED
    BY <1>6, <2>2
<1>8. Quiet(r \o w)
  BY <1>2, QuietAsk, QuietBoth
<1>9. h.naws \in BOOLEAN
  BY <1>8, <1>6, ListensOn
<1>10. PICK S : S = R \cup Said(h.replies)
  OBVIOUS
<1>11. Agreed(P, O, D, S, h.naws) /\ TypeIs \in S
  <2>1. Agreed(P, O, D, S, h.naws)
    BY <1>10, <1>7, <1>6, Zenon DEF Talks
  <2> QED
    BY <1>10, <1>7, <2>1, TypeIsSaid
<1>12. PICK x \in Questions : x = <<SB, TTYPE>>
  BY DEF Questions
<1>13. AnswersTo(x) \cap S # {}
  <2>1. SB # DO /\ SB # WILL /\ x[1] = SB
    BY <1>12 DEF SB, DO, WILL
  <2>2. AnswersTo(x) = {TypeIs}
    BY <2>1 DEF AnswersTo
  <2> QED
    BY <1>11, <2>2
<1>14. NAWS \in Byte
  BY DEF NAWS, Byte
<1>15. Agreed(P \cup {x}, O, D, S, h.naws)
  BY <1>9, <1>11, <1>12, <1>13, <1>14, AgreedAsked
<1>16. Talks(f, P \cup {x}, O, D, r \o w, R)
  BY <1>10, <1>15, <1>6, Zenon DEF Talks
<1> QED
  BY <1>2, <1>8, <1>12, <1>16, Zenon

(* A message that was read is out of the way, and with it the question it  *)
(* answers.                                                                *)
LEMMA TalksDrops ==
  ASSUME NEW f, NEW r, NEW P, NEW O, NEW D, NEW R, NEW m, Talks(f, P, O, D, r, {m} \cup R),
         NEW Q \in SUBSET P, \A x \in Q : m \notin AnswersTo(x)
  PROVE  Talks(f, Q, O, D, r, R)
<1>1. PICK S : S = Said(Feed(f, r).replies)
  OBVIOUS
<1>2. PICK n : n = Feed(f, r).naws
  OBVIOUS
<1>3. PICK T : T = R \cup S
  OBVIOUS
<1>4. ({m} \cup R) \cup S = {m} \cup T
  BY <1>3
<1>5. Agreed(P, O, D, {m} \cup T, n)
  BY <1>1, <1>2, <1>4, Zenon DEF Talks
<1>6. Agreed(Q, O, D, T, n)
  BY <1>5, AgreedDrops
<1> QED
  BY <1>1, <1>2, <1>3, <1>6, Zenon DEF Talks

(* An option goes on or off.                                               *)
LEMMA TalksOptions ==
  ASSUME NEW f, Listens(f), NEW r, Quiet(r), NEW P, NEW O, NEW D, NEW R, Talks(f, P, O, D, r, R),
         NEW o \in Byte
  PROVE  /\ Talks(f, P, O \ {o}, D, r, R) /\ Talks(f, P, O, D \ {o}, r, R)
         /\ <<DO, o>> \notin P /\ (o = NAWS => Feed(f, r).naws) => Talks(f, P, O \cup {o}, D, r, R)
         /\ <<WILL, o>> \notin P /\ o # NAWS => Talks(f, P, O, D \cup {o}, r, R)
<1>1. PICK S : S = R \cup Said(Feed(f, r).replies)
  OBVIOUS
<1>2. PICK n \in BOOLEAN : n = Feed(f, r).naws
  BY ListensOn
<1>3. Agreed(P, O, D, S, n)
  BY <1>1, <1>2, Zenon DEF Talks
<1>4. /\ Agreed(P, O \ {o}, D, S, n) /\ Agreed(P, O, D \ {o}, S, n)
      /\ <<DO, o>> \notin P /\ (o = NAWS => n) => Agreed(P, O \cup {o}, D, S, n)
      /\ <<WILL, o>> \notin P /\ o # NAWS => Agreed(P, O, D \cup {o}, S, n)
  BY <1>3, AgreedOptions
<1> QED
  BY <1>1, <1>2, <1>4, Zenon DEF Talks

(* The server itself, with what it knows.                                  *)
Speaks(f, v, said) == Talks(f, v.pending, v.on, v.doing, v.replies, said)

(* What a server shows is all that getting along is about.                 *)
LEMMA SpeaksShown ==
  ASSUME NEW v, NEW P, NEW O, NEW D, NEW r, NEW n, Shows(v, P, O, D, r, n), NEW f, NEW R
  PROVE  Speaks(f, v, R) <=> Talks(f, P, O, D, r, R)
  BY Zenon DEF Speaks, Shows

(* An option that the terminal has agreed to is on.                        *)
LEMMA TurnedOnSpeaks ==
  ASSUME NEW f, Listens(f), NEW v \in Servers, NEW o \in Byte,
         NEW P, NEW O, NEW D, NEW r, NEW n, Shows(v, P, O, D, r, n), Quiet(r),
         NEW R, Talks(f, P, O \cup {o}, D, r, R)
  PROVE  Speaks(f, TurnedOn(v, o), R)
<1>1. PICK U : U = O \cup {o}
  OBVIOUS
<1>2. /\ o = TTYPE => Shows(TurnedOn(v, o), P \cup {<<SB, TTYPE>>}, U, D, r \o TypeAsk, n)
      /\ o # TTYPE => Shows(TurnedOn(v, o), P, U, D, r, n)
  BY <1>1, ShowsOn, Zenon
<1>3. Talks(f, P, U, D, r, R)
  BY <1>1
<1>4. Talks(f, P \cup {<<SB, TTYPE>>}, U, D, r \o TypeAsk, R)
  BY <1>3, TalksType
<1> QED
  BY <1>2, <1>3, <1>4, SpeaksShown, Zenon

(* What a question and what it asks for have to do with what is on.        *)
LEMMA TalksKnows ==
  ASSUME NEW f, NEW r, NEW P, NEW O, NEW D, NEW R, Talks(f, P, O, D, r, R)
  PROVE  /\ P \subseteq Questions /\ NAWS \notin D /\ NawsAsked \notin R
         /\ \A o \in Byte : /\ <<DO, o>> \in P => o \notin O
                            /\ <<WILL, o>> \in P => o \notin D
  BY DEF Talks, Agreed

(* And who asks for NAWS is told the size.                                 *)
LEMMA TalksOfNaws ==
  ASSUME NEW f, NEW r, NEW P, NEW O, NEW D, NEW R, Talks(f, P, O, D, r, R), <<DO, NAWS>> \in P
  PROVE  Feed(f, r).naws
  BY Zenon DEF Talks, Agreed

(* A message that answers none of the questions.                           *)
LEMMA AnswersNothing ==
  ASSUME NEW f, NEW r, NEW P, NEW O, NEW D, NEW R, NEW m, Talks(f, P, O, D, r, {m} \cup R),
         \/ m[1] # IAC
         \/ m[2] \notin {DO, DONT, WILL, WONT, SB}
         \/ m[2] \in {WILL, WONT} /\ <<DO, m[3]>> \notin P
         \/ m[2] \in {DO, DONT} /\ <<WILL, m[3]>> \notin P
         \/ m[2] = SB /\ m[3] = NAWS
  PROVE  Talks(f, P, O, D, r, R)
<1>1. P \subseteq Questions
  BY DEF Talks, Agreed
<1>2. /\ TTYPE # NAWS /\ DO # WILL /\ DO # WONT /\ DONT # WILL /\ DONT # WONT
      /\ SB \notin {DO, DONT, WILL, WONT}
  BY DEF TTYPE, NAWS, DO, DONT, WILL, WONT, SB
<1>3. ASSUME NEW x \in P, m \in AnswersTo(x) PROVE FALSE
  <2>1. /\ m[1] = IAC
        /\ \/ m[2] \in {WILL, WONT} /\ x = <<DO, m[3]>>
           \/ m[2] \in {DO, DONT} /\ x = <<WILL, m[3]>>
           \/ m[2] = SB /\ m[3] = TTYPE /\ x = <<SB, TTYPE>>
    BY <1>1, <1>3, AnswerFits
  <2> QED
    BY <1>2, <1>3, <2>1
<1>4. P \in SUBSET P
  OBVIOUS
<1> QED
  BY <1>3, <1>4, TalksDrops

(* A message that answers a question settles it.                           *)
LEMMA AnswersOne ==
  ASSUME NEW f, NEW r, NEW P, NEW O, NEW D, NEW R, NEW m, Talks(f, P, O, D, r, {m} \cup R),
         NEW x,
         \/ m[2] \in {WILL, WONT} /\ x = <<DO, m[3]>>
         \/ m[2] \in {DO, DONT} /\ x = <<WILL, m[3]>>
         \/ m[2] = SB /\ x = <<SB, m[3]>>
  PROVE  Talks(f, P \ {x}, O, D, r, R)
<1>1. P \subseteq Questions
  BY DEF Talks, Agreed
<1>2. /\ DO # WILL /\ DO # WONT /\ DONT # WILL /\ DONT # WONT
      /\ SB \notin {DO, DONT, WILL, WONT}
  BY DEF DO, DONT, WILL, WONT, SB
<1>3. PICK Q \in SUBSET P : Q = P \ {x}
  OBVIOUS
<1>4. ASSUME NEW y \in Q, m \in AnswersTo(y) PROVE FALSE
  <2>1. /\ \/ m[2] \in {WILL, WONT} /\ y = <<DO, m[3]>>
           \/ m[2] \in {DO, DONT} /\ y = <<WILL, m[3]>>
           \/ m[2] = SB /\ m[3] = TTYPE /\ y = <<SB, TTYPE>>
    BY <1>1, <1>4, AnswerFits
  <2>2. y # x
    BY <1>3
  <2> QED
    BY <1>2, <2>1, <2>2
<1>5. Talks(f, Q, O, D, r, R)
  BY <1>4, TalksDrops
<1> QED
  BY <1>3, <1>5

(* The terminal offers an option.                                          *)
LEMMA OfferSpeaks ==
  ASSUME NEW f, Listens(f), NEW v \in Servers, Quiet(v.replies), NEW m, m[2] = WILL,
         NEW R, Speaks(f, v, {m} \cup R), NEW o \in Byte, o = m[3]
  PROVE  Speaks(f, OnOffer(v, o), R)
<1>1. PICK P, O, D, r, n : Shows(v, P, O, D, r, n) /\ P = v.pending /\ O = v.on /\ r = v.replies
  BY ShowsAll
<1>2. Talks(f, P, O, D, r, {m} \cup R) /\ Quiet(r)
  BY <1>1, SpeaksShown
<1>3. /\ <<DO, o>> \in P => o \notin O
      /\ <<DO, NAWS>> \in P => Feed(f, r).naws
  <2>1. PICK M : M = {m} \cup R
    OBVIOUS
  <2>2. Talks(f, P, O, D, r, M)
    BY <1>2, <2>1
  <2>3. \A q \in Byte : <<DO, q>> \in P => q \notin O
    BY <2>2, TalksKnows
  <2> QED
    BY <2>2, <2>3, TalksOfNaws, Zenon
<1>4. WILL # DO /\ DONT # DO /\ DONT # WILL
  BY DEF WILL, DO, DONT
<1>5. CASE o \in O
  <2>1. Talks(f, P, O, D, r, R)
    BY <1>2, <1>3, <1>5, AnswersNothing
  <2>2. OnOffer(v, o) = v
    BY <1>1, <1>5, OfferShows
  <2> QED
    BY <1>1, <2>1, <2>2, SpeaksShown
<1>6. CASE o \notin O /\ <<DO, o>> \in P
  <2>1. PICK Q : Q = P \ {<<DO, o>>}
    OBVIOUS
  <2>2. Talks(f, Q, O, D, r, R)
    BY <1>2, <2>1, AnswersOne
  <2>3. Talks(f, Q, O \cup {o}, D, r, R)
    BY <1>2, <1>3, <1>6, <2>1, <2>2, TalksOptions
  <2>4. PICK w \in Servers : w = Settled(v, DO, o) /\ OnOffer(v, o) = TurnedOn(w, o)
    BY <1>1, <1>6, OfferShows
  <2>5. Shows(w, Q, O, D, r, n)
    BY <1>1, <2>1, <2>4, ShowsSaid
  <2> QED
    BY <1>2, <2>3, <2>4, <2>5, TurnedOnSpeaks
<1>7. CASE o \notin O /\ <<DO, o>> \notin P
  <2>1. Talks(f, P, O, D, r, R)
    BY <1>2, <1>7, AnswersNothing
  <2>2. CASE Answer(v, DO, o) \in Servers /\ OnOffer(v, o) = TurnedOn(Answer(v, DO, o), o)
    <3>1. PICK u : u = r \o <<IAC, DO, o>>
      OBVIOUS
    <3>2. Talks(f, P, O, D, u, R) /\ Quiet(u) /\ (o = NAWS => Feed(f, u).naws = TRUE)
      BY <1>2, <2>1, <3>1, TalksCommand
    <3>3. Talks(f, P, O \cup {o}, D, u, R)
      BY <1>7, <3>2, TalksOptions
    <3>4. PICK w \in Servers : w = Answer(v, DO, o)
      BY <2>2
    <3>5. Shows(w, P, O, D, u, n)
      BY <1>1, <3>1, <3>4, ShowsSaid
    <3>6. Speaks(f, TurnedOn(w, o), R)
      BY <1>2, <3>2, <3>3, <3>5, TurnedOnSpeaks
    <3> QED
      BY <2>2, <3>4, <3>6, Zenon
  <2>3. CASE OnOffer(v, o) = Answer(v, DONT, o)
    <3>1. PICK u : u = r \o <<IAC, DONT, o>>
      OBVIOUS
    <3>2. Talks(f, P, O, D, u, R)
      BY <1>2, <1>7, <2>1, <3>1, TalksCommand, ZenonT(60)
    <3>3. Shows(Answer(v, DONT, o), P, O, D, u, n)
      BY <1>1, <3>1, ShowsSaid
    <3> QED
      BY <2>3, <3>2, <3>3, SpeaksShown
  <2> QED
    BY <1>1, <1>7, <2>2, <2>3, OfferShows
<1> QED
  BY <1>5, <1>6, <1>7

(* The terminal asks for an option.                                        *)
LEMMA RequestSpeaks ==
  ASSUME NEW f, Listens(f), NEW v \in Servers, Quiet(v.replies), NEW m, m[2] = DO,
         NEW R, Speaks(f, v, {m} \cup R), NEW o \in Byte, o = m[3], o # NAWS
  PROVE  Speaks(f, OnRequest(v, o), R)
<1>1. PICK P, O, D, r, n : /\ Shows(v, P, O, D, r, n)
                           /\ P = v.pending /\ O = v.on /\ D = v.doing /\ r = v.replies
                           /\ n = v.seen
  BY ShowsAll
<1>2. Talks(f, P, O, D, r, {m} \cup R) /\ Quiet(r)
  BY <1>1, SpeaksShown
<1>3. <<WILL, o>> \in P => o \notin D
  <2>1. PICK M : M = {m} \cup R
    OBVIOUS
  <2>2. Talks(f, P, O, D, r, M)
    BY <1>2, <2>1
  <2>3. \A q \in Byte : <<WILL, q>> \in P => q \notin D
    BY <2>2, TalksKnows
  <2> QED
    BY <2>3
<1>4. DO # WILL /\ DO # WONT
  BY DEF WILL, DO, WONT
<1>5. CASE o \in D
  <2>1. Talks(f, P, O, D, r, R)
    BY <1>2, <1>3, <1>5, AnswersNothing
  <2>2. OnRequest(v, o) = v
    BY <1>1, <1>5, RequestShows
  <2> QED
    BY <1>1, <2>1, <2>2, SpeaksShown
<1>6. CASE o \notin D /\ <<WILL, o>> \in P
  <2>1. PICK Q : Q = P \ {<<WILL, o>>}
    OBVIOUS
  <2>2. Talks(f, Q, O, D, r, R)
    BY <1>2, <2>1, AnswersOne
  <2>3. Talks(f, Q, O, D \cup {o}, r, R)
    BY <1>2, <2>1, <2>2, TalksOptions
  <2>4. Shows(OnRequest(v, o), Q, O, D \cup {o}, r, n)
    BY <1>1, <1>6, <2>1, RequestShows
  <2> QED
    BY <2>3, <2>4, SpeaksShown
<1>7. CASE o \notin D /\ <<WILL, o>> \notin P
  <2>1. Talks(f, P, O, D, r, R)
    BY <1>2, <1>7, AnswersNothing
  <2>2. PICK u : u = r \o <<IAC, WILL, o>>
    OBVIOUS
  <2>3. Talks(f, P, O, D, u, R) /\ Quiet(u)
    BY <1>2, <2>1, <2>2, TalksCommand
  <2>4. Talks(f, P, O, D \cup {o}, u, R)
    BY <1>7, <2>3, TalksOptions
  <2>5. PICK t : t = r \o <<IAC, WONT, o>>
    OBVIOUS
  <2>6. Talks(f, P, O, D, t, R)
    BY <1>2, <2>1, <2>5, TalksCommand
  <2>7. Shows(OnRequest(v, o), P, O, D \cup {o}, u, n) \/ Shows(OnRequest(v, o), P, O, D, t, n)
    BY <1>1, <1>7, <2>2, <2>5, RequestShows
  <2> QED
    BY <2>4, <2>6, <2>7, SpeaksShown
<1> QED
  BY <1>5, <1>6, <1>7

(* Messages that are not about options, but for the answer about the type  *)
(* of the terminal.                                                        *)
LEMMA OtherSpeaks ==
  ASSUME NEW f, Listens(f), NEW v \in Servers, NEW m \in Messages,
         m[1] # IAC \/ m[2] \in {IAC, NOP, SB}, NEW R, Speaks(f, v, {m} \cup R)
  PROVE  Speaks(f, Handle(v, m), R)
<1>1. PICK P, O, D, r, n : Shows(v, P, O, D, r, n) /\ P = v.pending
  BY ShowsAll
<1>2. Talks(f, P, O, D, r, {m} \cup R)
  BY <1>1, SpeaksShown
<1>3. /\ {DO, DONT, WILL, WONT} \cap {IAC, NOP} = {} /\ SB \notin {IAC, NOP, DO, DONT, WILL, WONT}
  BY DEF IAC, NOP, DO, DONT, WILL, WONT, SB
<1>4. CASE m[1] # IAC \/ (m[1] = IAC /\ m[2] \in {IAC, NOP})
  <2>1. Talks(f, P, O, D, r, R)
    BY <1>2, <1>3, <1>4, AnswersNothing
  <2>2. Handle(v, m) = v \/ \E x : Handle(v, m) = [v EXCEPT !.got = x]
    BY <1>4, Handling, Zenon
  <2>3. \A x : Shows([v EXCEPT !.got = x], P, O, D, r, n)
    BY <1>1, ShowsSet
  <2>4. Shows(Handle(v, m), P, O, D, r, n)
    BY <1>1, <2>2, <2>3, Zenon
  <2> QED
    BY <2>1, <2>4, SpeaksShown
<1>5. CASE m[1] = IAC /\ m[2] = SB /\ m[3] = NAWS
  <2>1. Talks(f, P, O, D, r, R)
    BY <1>2, <1>3, <1>5, AnswersNothing
  <2>2. PICK x : x = m[4]
    OBVIOUS
  <2>3. Handle(v, m) = [v EXCEPT !.seen = x]
    BY <1>5, <2>2, Handling, Zenon
  <2>4. \A y : Shows([v EXCEPT !.seen = y], P, O, D, r, y)
    BY <1>1, ShowsSet
  <2>5. Shows(Handle(v, m), P, O, D, r, x)
    BY <2>3, <2>4, Zenon
  <2> QED
    BY <2>1, <2>5, SpeaksShown
<1>6. CASE m[1] = IAC /\ m[2] = SB /\ m[3] # NAWS
  <2>1. PICK o : o = m[3]
    OBVIOUS
  <2>2. Talks(f, P \ {<<SB, o>>}, O, D, r, R)
    BY <1>2, <1>6, <2>1, AnswersOne
  <2>3. Handle(v, m) = IF m[3] = NAWS THEN [v EXCEPT !.seen = m[4]] ELSE Settled(v, SB, m[3])
    BY <1>6, Handling
  <2>4. Handle(v, m) = Settled(v, SB, m[3])
    BY <1>6, <2>3
  <2>5. \A c, q : Shows(Settled(v, c, q), P \ {<<c, q>>}, O, D, r, n)
    BY <1>1, ShowsSaid
  <2>6. Shows(Handle(v, m), P \ {<<SB, o>>}, O, D, r, n)
    BY <2>1, <2>4, <2>5, Zenon
  <2> QED
    BY <2>2, <2>6, SpeaksShown
<1> QED
  BY <1>4, <1>5, <1>6

(* The terminal does not want an option, or gives one up.                  *)
LEMMA RefusalSpeaks ==
  ASSUME NEW f, Listens(f), NEW v \in Servers, Quiet(v.replies), NEW m \in Messages,
         m[1] = IAC, m[2] \in {DONT, WONT}, NEW R, Speaks(f, v, {m} \cup R)
  PROVE  Speaks(f, Handle(v, m), R)
<1>1. PICK P, O, D, r, n : /\ Shows(v, P, O, D, r, n)
                           /\ P = v.pending /\ O = v.on /\ D = v.doing /\ r = v.replies
  BY ShowsAll
<1>2. Talks(f, P, O, D, r, {m} \cup R) /\ Quiet(r)
  BY <1>1, SpeaksShown
<1>3. PICK o \in Byte : o = m[3]
  BY MessageTypes
<1>4. CASE m[2] = WONT
  <2>1. PICK Q : Q = P \ {<<DO, o>>}
    OBVIOUS
  <2>2. Talks(f, Q, O, D, r, R)
    BY <1>2, <1>3, <1>4, <2>1, AnswersOne
  <2>3. Talks(f, Q, O \ {o}, D, r, R)
    BY <1>2, <2>2, TalksOptions
  <2>4. PICK w \in Servers : w = Settled(v, DO, o)
    BY SettledType
  <2>5. Shows(w, Q, O, D, r, n)
    BY <1>1, <2>1, <2>4, ShowsSaid
  <2>6. w.on = O
    BY <2>5 DEF Shows
  <2>7. Handle(v, m) = [Settled(v, DO, m[3]) EXCEPT !.on = Settled(v, DO, m[3]).on \ {m[3]}]
    BY <1>4, Handling, ZenonT(60)
  <2>8. Handle(v, m) = [w EXCEPT !.on = O \ {o}]
    BY <1>3, <2>4, <2>6, <2>7, Zenon
  <2>9. \A x : Shows([w EXCEPT !.on = x], Q, x, D, r, n)
    BY <2>5, ShowsSet
  <2>10. Shows(Handle(v, m), Q, O \ {o}, D, r, n)
    BY <2>8, <2>9, Zenon
  <2> QED
    BY <2>3, <2>10, SpeaksShown
<1>5. CASE m[2] = DONT
  <2>1. PICK Q : Q = P \ {<<WILL, o>>}
    OBVIOUS
  <2>2. Talks(f, Q, O, D, r, R)
    BY <1>2, <1>3, <1>5, <2>1, AnswersOne
  <2>3. Talks(f, Q, O, D \ {o}, r, R)
    BY <1>2, <2>2, TalksOptions
  <2>4. PICK w \in Servers : w = Settled(v, WILL, o)
    BY SettledType
  <2>5. Shows(w, Q, O, D, r, n)
    BY <1>1, <2>1, <2>4, ShowsSaid
  <2>6. w.doing = D
    BY <2>5 DEF Shows
  <2>7. Handle(v, m) =
          [Settled(v, WILL, m[3]) EXCEPT !.doing = Settled(v, WILL, m[3]).doing \ {m[3]}]
    BY <1>5, Handling, ZenonT(60)
  <2>8. Handle(v, m) = [w EXCEPT !.doing = D \ {o}]
    BY <1>3, <2>4, <2>6, <2>7, Zenon
  <2>9. \A x : Shows([w EXCEPT !.doing = x], Q, O, x, r, n)
    BY <2>5, ShowsSet
  <2>10. Shows(Handle(v, m), Q, O, D \ {o}, r, n)
    BY <2>8, <2>9, Zenon
  <2> QED
    BY <2>3, <2>10, SpeaksShown
<1> QED
  BY <1>4, <1>5

(* A command that asks for NAWS.                                           *)
LEMMA AsksNaws ==
  ASSUME NEW m \in Messages, m[1] = IAC, m[2] = DO, m[3] = NAWS
  PROVE  m = NawsAsked
<1>1. m \in Seq(Byte) /\ IsMessage(m)
  BY DEF Messages
<1>2. DO \notin {IAC, NOP} /\ DO # SB
  BY DEF DO, IAC, NOP, SB
<1>3. Len(m) = 3
  BY <1>1, <1>2 DEF IsMessage
<1>4. m = <<m[1], m[2], m[3]>>
  BY <1>1, <1>3
<1> QED
  BY <1>4 DEF NawsAsked

(* Whatever the server reads, it gets along with the filter.               *)
LEMMA HandleSpeaks ==
  ASSUME NEW f, Listens(f), NEW v \in Servers, Quiet(v.replies), NEW m \in Messages,
         NEW R, Speaks(f, v, {m} \cup R)
  PROVE  /\ Speaks(f, Handle(v, m), R)
         /\ Handle(v, m) \in Servers /\ Quiet(Handle(v, m).replies)
<1>1. Handle(v, m) \in Servers /\ Quiet(Handle(v, m).replies)
  <2>1. m \in Orders => Calmly(v, Handle(v, m))
    BY HandleData
  <2>2. m \notin Orders => Handle(v, m).replies = v.replies
    BY HandleData
  <2>3. Handle(v, m) \in Servers
    BY HandleType
  <2> QED
    BY <2>1, <2>2, <2>3 DEF Calmly
<1>2. /\ m[1] = IAC => m[2] \in {IAC, NOP, DO, DONT, WILL, WONT, SB}
      /\ m[1] = IAC /\ m[2] \in {DO, DONT, WILL, WONT} => m[3] \in Byte
  BY MessageTypes
<1>3. CASE m[1] # IAC \/ m[2] \in {IAC, NOP, SB}
  BY <1>1, <1>3, OtherSpeaks
<1>4. CASE m[1] = IAC /\ m[2] \in {DONT, WONT}
  BY <1>1, <1>4, RefusalSpeaks
<1>5. CASE m[1] = IAC /\ m[2] = WILL
  <2>1. PICK o \in Byte : o = m[3]
    BY <1>2, <1>5
  <2>2. Handle(v, m) = OnOffer(v, m[3])
    BY <1>5, Handling, Zenon
  <2>3. Handle(v, m) = OnOffer(v, o)
    BY <2>1, <2>2
  <2> QED
    BY <1>1, <1>5, <2>1, <2>3, OfferSpeaks
<1>6. CASE m[1] = IAC /\ m[2] = DO
  <2>1. PICK o \in Byte : o = m[3]
    BY <1>2, <1>6
  <2>2. Handle(v, m) = OnRequest(v, m[3])
    BY <1>6, Handling, Zenon
  <2>3. Handle(v, m) = OnRequest(v, o)
    BY <2>1, <2>2
  <2>4. NawsAsked \notin {m} \cup R
    BY Zenon DEF Speaks, Talks, Agreed
  <2>5. o # NAWS
    BY <1>6, <2>1, <2>4, AsksNaws
  <2> QED
    BY <1>1, <1>6, <2>1, <2>3, <2>5, RequestSpeaks
<1> QED
  BY <1>2, <1>3, <1>4, <1>5, <1>6

(* A message that is read before the others.                               *)
LEMMA OneBefore ==
  ASSUME NEW T, NEW p \in Seq(T), NEW m \in T, NEW q \in Seq(T)
  PROVE  /\ <<m>> \o q \in Seq(T) /\ p \o (<<m>> \o q) = Append(p, m) \o q
         /\ Elements(<<m>> \o q) = {m} \cup Elements(q)
<1>1. <<m>> \in Seq(T)
  OBVIOUS
<1>2. PICK s \in Seq(T) : s = <<m>>
  BY <1>1
<1>3. s \o q \in Seq(T)
  BY <1>2
<1>4. p \o (s \o q) = (p \o s) \o q
  BY <1>2
<1>5. p \o s = Append(p, m)
  BY <1>2
<1>6. Elements(s) = {m}
  BY <1>2 DEF Elements
<1>7. Elements(s \o q) = {m} \cup Elements(q)
  BY <1>6, ElementsOfConcat
<1> QED
  BY <1>2, <1>3, <1>4, <1>5, <1>7

(* What the server answers is commands.                                    *)
LEMMA HandleQuiet ==
  ASSUME NEW v \in Servers, Quiet(v.replies), NEW m \in Messages
  PROVE  Handle(v, m) \in Servers /\ Quiet(Handle(v, m).replies)
<1>1. m \in Orders => Calmly(v, Handle(v, m))
  BY HandleData
<1>2. m \notin Orders => Handle(v, m).replies = v.replies
  BY HandleData
<1>3. Handle(v, m) \in Servers
  BY HandleType
<1> QED
  BY <1>1, <1>2, <1>3 DEF Calmly

(* Messages one after the other.                                           *)
LEMMA HandledSpeaks ==
  ASSUME NEW f, Listens(f), NEW v \in Servers, Quiet(v.replies), NEW ms \in Seq(Messages),
         Speaks(f, v, Elements(ms))
  PROVE  LET w == Handled(v, ms)
         IN  w \in Servers /\ Quiet(w.replies) /\ Speaks(f, w, {})
<1> DEFINE Fine(p) == LET w == Handled(v, p)
                      IN  /\ w \in Servers /\ Quiet(w.replies)
                          /\ \A q \in Seq(Messages) : p \o q = ms => Speaks(f, w, Elements(q))
           S == {p \in Seq(Messages) : Fine(p)}
<1>1. << >> \in S
  <2>1. Handled(v, << >>) = v
    BY HandledNothing
  <2>2. \A q \in Seq(Messages) : << >> \o q = q
    OBVIOUS
  <2>3. << >> \in Seq(Messages)
    OBVIOUS
  <2>4. \A q \in Seq(Messages) : << >> \o q = ms => Speaks(f, v, Elements(q))
    BY <2>2
  <2> QED
    BY <2>1, <2>3, <2>4
<1>2. ASSUME NEW p \in Seq(Messages), NEW m \in Messages, p \in S PROVE Append(p, m) \in S
  <2>1. PICK w \in Servers : w = Handled(v, p) /\ Quiet(w.replies)
    BY <1>2
  <2>2. \A q \in Seq(Messages) : p \o q = ms => Speaks(f, w, Elements(q))
    BY <1>2, <2>1
  <2>3. Handled(v, Append(p, m)) = Handle(w, m)
    BY <2>1, HandledOne
  <2>4. Append(p, m) \in Seq(Messages)
    OBVIOUS
  <2>5. ASSUME NEW q \in Seq(Messages), Append(p, m) \o q = ms
        PROVE  Speaks(f, Handle(w, m), Elements(q))
    <3>1. /\ <<m>> \o q \in Seq(Messages) /\ p \o (<<m>> \o q) = Append(p, m) \o q
          /\ Elements(<<m>> \o q) = {m} \cup Elements(q)
      BY OneBefore, SMTT(40)
    <3>2. PICK z \in Seq(Messages) : /\ p \o z = Append(p, m) \o q
                                     /\ Elements(z) = {m} \cup Elements(q)
      BY <3>1, Zenon
    <3>3. Speaks(f, w, {m} \cup Elements(q))
      BY <2>2, <2>5, <3>2
    <3> QED
      BY <2>1, <3>3, HandleSpeaks
  <2>6. Handle(w, m) \in Servers /\ Quiet(Handle(w, m).replies)
    BY <2>1, HandleQuiet
  <2> QED
    BY <2>3, <2>4, <2>5, <2>6
<1> HIDE DEF S
<1>3. ms \in S
  BY <1>1, <1>2, ByAppending
<1>4. ms \o << >> = ms /\ << >> \in Seq(Messages) /\ Elements(<< >>) = {}
  BY DEF Elements
<1> QED
  BY <1>3, <1>4 DEF S

-----------------------------------------------------------------------------
(* The size that the server sees.                                          *)

(* An option that goes on leaves what the server has seen of the size.     *)
LEMMA TurnedOnSees ==
  ASSUME NEW w \in Servers, NEW P, NEW O, NEW D, NEW r, NEW n, Shows(w, P, O, D, r, n),
         NEW o \in Byte
  PROVE  TurnedOn(w, o).seen = n
<1>1. o = TTYPE => Shows(TurnedOn(w, o), P \cup {<<SB, TTYPE>>}, O \cup {o}, D, r \o TypeAsk, n)
  BY ShowsOn, Zenon
<1>2. o # TTYPE => Shows(TurnedOn(w, o), P, O \cup {o}, D, r, n)
  BY ShowsOn, Zenon
<1> QED
  BY <1>1, <1>2, Zenon DEF Shows

(* So do an offer and a request.                                           *)
LEMMA OptionsSee ==
  ASSUME NEW v \in Servers, NEW o \in Byte
  PROVE  OnOffer(v, o).seen = v.seen /\ OnRequest(v, o).seen = v.seen
<1>1. PICK P, O, D, r, n : /\ Shows(v, P, O, D, r, n) /\ n = v.seen
  BY ShowsAll
<1>2. \A c, q : /\ Shows(Answer(v, c, q), P, O, D, r \o <<IAC, c, q>>, n)
                /\ Shows(Settled(v, c, q), P \ {<<c, q>>}, O, D, r, n)
  BY <1>1, ShowsSaid
<1>3. OnOffer(v, o).seen = n
  <2>1. \A w \in Servers : w = Answer(v, DO, o) \/ w = Settled(v, DO, o) => TurnedOn(w, o).seen = n
    <3>1. ASSUME NEW w \in Servers, w = Answer(v, DO, o) \/ w = Settled(v, DO, o)
          PROVE  TurnedOn(w, o).seen = n
      <4>1. PICK Q, q : Shows(w, Q, O, D, q, n)
        BY <1>2, <3>1, Zenon
      <4> QED
        BY <4>1, TurnedOnSees
    <3> QED
      BY <3>1
  <2>2. Answer(v, DONT, o).seen = n
    BY <1>2, Zenon DEF Shows
  <2> QED
    BY <1>1, <2>1, <2>2, OfferShows
<1>4. OnRequest(v, o).seen = n
  <2>1. \/ OnRequest(v, o) = v
        \/ \E p, d, t : Shows(OnRequest(v, o), p, v.on, d, t, v.seen)
    BY RequestShows, Zenon
  <2> QED
    BY <1>1, <2>1, Zenon DEF Shows
<1> QED
  BY <1>1, <1>3, <1>4

(* The server has seen the size of the last message about it.              *)
LEMMA HandleSees ==
  ASSUME NEW v \in Servers, NEW m \in Messages
  PROVE  /\ m \in Tells => Handle(v, m).seen = v.seen
         /\ m \notin Tells => Handle(v, m).seen = m[4]
<1>1. PICK P, O, D, r, n : /\ Shows(v, P, O, D, r, n) /\ n = v.seen
  BY ShowsAll
<1>2. /\ m[1] = IAC => m[2] \in {IAC, NOP, DO, DONT, WILL, WONT, SB}
      /\ m[1] = IAC /\ m[2] \in {DO, DONT, WILL, WONT} => m[3] \in Byte
  BY MessageTypes
<1>3. SB \notin {IAC, NOP, DO, DONT, WILL, WONT}
  BY DEF IAC, NOP, DO, DONT, WILL, WONT, SB
<1>4. m \in Tells <=> ~(m[1] = IAC /\ m[2] = SB /\ m[3] = NAWS)
  BY DEF Tells
<1>5. /\ \A x : Shows([v EXCEPT !.got = x], P, O, D, r, n)
      /\ \A x : Shows([v EXCEPT !.seen = x], P, O, D, r, x)
  BY <1>1, ShowsSet
<1>6. \A c, o : Shows(Settled(v, c, o), P \ {<<c, o>>}, O, D, r, n) /\ Settled(v, c, o) \in Servers
  BY <1>1, ShowsSaid, SettledType
<1>7. CASE m[1] # IAC \/ (m[1] = IAC /\ m[2] \in {IAC, NOP})
  <2>1. Handle(v, m) = v \/ \E x : Handle(v, m) = [v EXCEPT !.got = x]
    BY <1>7, Handling, Zenon
  <2>2. Shows(Handle(v, m), P, O, D, r, n)
    BY <1>1, <1>5, <2>1, Zenon
  <2>3. Handle(v, m).seen = n
    BY <2>2, Zenon DEF Shows
  <2> QED
    BY <1>1, <1>3, <1>4, <1>7, <2>3
<1>8. CASE m[1] = IAC /\ m[2] = SB
  <2>1. Handle(v, m) = IF m[3] = NAWS THEN [v EXCEPT !.seen = m[4]] ELSE Settled(v, SB, m[3])
    BY <1>8, Handling
  <2>2. Settled(v, SB, m[3]).seen = n
    BY <1>6, Zenon DEF Shows
  <2>3. [v EXCEPT !.seen = m[4]].seen = m[4]
    BY <1>5, Zenon DEF Shows
  <2> QED
    BY <1>1, <1>4, <1>8, <2>1, <2>2, <2>3
<1>9. CASE m[1] = IAC /\ m[2] \in {WILL, DO}
  <2>1. PICK z \in Byte : z = m[3]
    BY <1>2, <1>9
  <2>2. Handle(v, m) = OnOffer(v, m[3]) \/ Handle(v, m) = OnRequest(v, m[3])
    BY <1>9, Handling, Zenon
  <2>3. Handle(v, m).seen = n
    BY <1>1, <2>1, <2>2, OptionsSee
  <2> QED
    BY <1>1, <1>3, <1>4, <1>9, <2>3
<1>10. CASE m[1] = IAC /\ m[2] \in {WONT, DONT}
  <2>1. \E w \in Servers : \E c, o, x : /\ w = Settled(v, c, o)
                                        /\ \/ Handle(v, m) = [w EXCEPT !.on = x]
                                           \/ Handle(v, m) = [w EXCEPT !.doing = x]
    <3>1. \/ \E o, x : Handle(v, m) = [Settled(v, DO, o) EXCEPT !.on = x]
          \/ \E o, x : Handle(v, m) = [Settled(v, WILL, o) EXCEPT !.doing = x]
      <4>1. /\ m[2] = WONT =>
                 Handle(v, m) = [Settled(v, DO, m[3]) EXCEPT
                                   !.on = Settled(v, DO, m[3]).on \ {m[3]}]
            /\ m[2] = DONT =>
                 Handle(v, m) = [Settled(v, WILL, m[3]) EXCEPT
                                   !.doing = Settled(v, WILL, m[3]).doing \ {m[3]}]
        BY <1>10, Handling, ZenonT(60)
      <4>2. CASE m[2] = WONT
        BY <4>1, <4>2, Zenon
      <4>3. CASE m[2] = DONT
        BY <4>1, <4>3, Zenon
      <4> QED
        BY <1>10, <4>2, <4>3, Zenon
    <3> QED
      BY <1>6, <3>1, Zenon
  <2>2. PICK w \in Servers : \E c, o, x : /\ w = Settled(v, c, o)
                                          /\ \/ Handle(v, m) = [w EXCEPT !.on = x]
                                             \/ Handle(v, m) = [w EXCEPT !.doing = x]
    BY <2>1
  <2>3. PICK Q : Shows(w, Q, O, D, r, n)
    BY <1>6, <2>2, Zenon
  <2>4. \A y : /\ Shows([w EXCEPT !.on = y], Q, y, D, r, n)
               /\ Shows([w EXCEPT !.doing = y], Q, O, y, r, n)
    BY <2>3, ShowsSet
  <2>5. Handle(v, m).seen = n
    BY <2>2, <2>4, Zenon DEF Shows
  <2> QED
    BY <1>1, <1>3, <1>4, <1>10, <2>5
<1> QED
  BY <1>2, <1>7, <1>8, <1>9, <1>10

(* Servers that have seen the same size see the same in the same messages. *)
LEMMA HandledSeesSame ==
  ASSUME NEW v \in Servers, NEW w \in Servers, v.seen = w.seen, NEW ms \in Seq(Messages)
  PROVE  Handled(v, ms).seen = Handled(w, ms).seen
<1> DEFINE P == {ns \in Seq(Messages) : Handled(v, ns).seen = Handled(w, ns).seen}
<1>1. << >> \in P
  BY HandledNothing
<1>2. ASSUME NEW ns \in Seq(Messages), NEW m \in Messages, ns \in P PROVE Append(ns, m) \in P
  <2>1. PICK x \in Servers : x = Handled(v, ns)
    BY HandledType
  <2>2. PICK y \in Servers : y = Handled(w, ns)
    BY HandledType
  <2>3. x.seen = y.seen
    BY <1>2, <2>1, <2>2
  <2>4. Handle(x, m).seen = Handle(y, m).seen
    BY <2>3, HandleSees
  <2>5. Append(ns, m) \in Seq(Messages)
    OBVIOUS
  <2>6. Handled(v, Append(ns, m)) = Handle(x, m) /\ Handled(w, Append(ns, m)) = Handle(y, m)
    BY <2>1, <2>2, HandledOne
  <2> QED
    BY <2>4, <2>5, <2>6
<1> HIDE DEF P
<1>3. Seq(Messages) \subseteq P
  BY <1>1, <1>2, ByAppending
<1> QED
  BY <1>3 DEF P

(* Messages about something else leave the size that was seen.             *)
LEMMA HandledTells ==
  ASSUME NEW v \in Servers, NEW ms \in Seq(Tells)
  PROVE  ms \in Seq(Messages) /\ Handled(v, ms).seen = v.seen
<1> DEFINE P == {ns \in Seq(Tells) : ns \in Seq(Messages) /\ Handled(v, ns).seen = v.seen}
<1>1. << >> \in P
  BY HandledNothing
<1>2. ASSUME NEW ns \in Seq(Tells), NEW m \in Tells, ns \in P PROVE Append(ns, m) \in P
  <2>1. m \in Messages
    BY DEF Tells
  <2>2. ns \in Seq(Messages)
    BY <1>2
  <2>3. PICK x \in Servers : x = Handled(v, ns)
    BY <2>2, HandledType
  <2>4. x.seen = v.seen
    BY <1>2, <2>3
  <2>5. Handle(x, m).seen = x.seen
    BY <2>1, HandleSees
  <2>6. Append(ns, m) \in Seq(Messages) /\ Append(ns, m) \in Seq(Tells)
    BY <2>1, <2>2
  <2>7. Handled(v, Append(ns, m)) = Handle(x, m)
    BY <2>1, <2>2, <2>3, HandledOne
  <2> QED
    BY <2>4, <2>5, <2>6, <2>7
<1> HIDE DEF P
<1>3. Seq(Tells) \subseteq P
  BY <1>1, <1>2, ByAppending
<1> QED
  BY <1>3 DEF P

(* The size a server has seen once it has read s.                          *)
Seen(v, s) == Handled(v, Collected(<< >>, s).msgs).seen

(* Bytes with whole messages that say nothing about the size.              *)
Plain(s) ==
  s \in Seq(Byte) /\ Collected(<< >>, s).at = << >> /\ Collected(<< >>, s).msgs \in Seq(Tells)

(* Bytes with whole messages.                                              *)
Whole(s) == s \in Seq(Byte) /\ Collected(<< >>, s).at = << >>

(* Whole messages and more of them.                                        *)
LEMMA WholeBoth ==
  ASSUME NEW s, Whole(s), NEW t, Whole(t)
  PROVE  Whole(s \o t)
<1>1. s \in Seq(Byte) /\ t \in Seq(Byte)
  BY DEF Whole
<1>2. Collected(<< >>, s \o t).at = Collected(<< >>, t).at
  BY <1>1, NoBytes, CollectedBoth DEF Whole
<1> QED
  BY <1>1, <1>2 DEF Whole

(* Nothing about the size changes nothing.                                 *)
LEMMA SeenPlain ==
  ASSUME NEW v \in Servers, NEW s, Whole(s), NEW t, Plain(t)
  PROVE  Seen(v, s \o t) = Seen(v, s) /\ Whole(s \o t)
<1>1. s \in Seq(Byte) /\ t \in Seq(Byte) /\ Whole(t)
  BY DEF Whole, Plain
<1>2. PICK ms \in Seq(Messages) : ms = Collected(<< >>, s).msgs
  BY <1>1, NoBytes, CollectedType
<1>3. PICK ns \in Seq(Tells) : ns = Collected(<< >>, t).msgs
  BY DEF Plain
<1>4. Collected(<< >>, s \o t).msgs = ms \o ns
  BY <1>1, <1>2, <1>3, NoBytes, CollectedBoth DEF Whole
<1>5. PICK w \in Servers : w = Handled(v, ms)
  BY HandledType
<1>6. ns \in Seq(Messages) /\ Handled(w, ns).seen = w.seen
  BY HandledTells
<1>7. Handled(v, ms \o ns) = Handled(w, ns)
  BY <1>5, <1>6, HandledBoth
<1>8. Seen(v, s \o t) = Handled(w, ns).seen
  BY <1>4, <1>7 DEF Seen
<1>9. Seen(v, s) = w.seen
  BY <1>2, <1>5 DEF Seen
<1> QED
  BY <1>1, <1>6, <1>8, <1>9, WholeBoth

(* The size a message tells is seen.                                       *)
LEMMA PayloadTells ==
  ASSUME NEW x \in Byte
  PROVE  /\ Whole(Payload(x)) /\ Collected(<< >>, Payload(x)).msgs = <<Payload(x)>>
         /\ Payload(x) \in Messages /\ Payload(x) \notin Tells /\ Payload(x)[4] = x
<1>1. Unit(Payload(x))
  BY PayloadOrder DEF Order
<1>2. Payload(x) \in Messages /\ Payload(x) \in Seq(Byte)
  BY <1>1, PayloadType DEF Unit
<1>3. PICK e \in Seq(Byte) : e = Escape(<<x>>) /\ Len(e) >= 1 /\ e[1] = x
  <2>1. Escape(<<x>>) = (IF x = IAC THEN <<IAC, IAC>> ELSE <<x>>) /\ Escape(<<x>>) \in Seq(Byte)
    BY EscapeByte
  <2>2. CASE x = IAC
    BY <2>1, <2>2, TwoBytes
  <2>3. CASE x # IAC
    BY <2>1, <2>3, OneByte
  <2> QED
    BY <2>2, <2>3
<1>4. Payload(x) = <<IAC, SB, NAWS>> \o e \o <<IAC, SE>>
  BY <1>3 DEF Payload
<1>5. Payload(x)[1] = IAC /\ Payload(x)[2] = SB /\ Payload(x)[3] = NAWS /\ Payload(x)[4] = x
  BY <1>3, <1>4
<1> QED
  BY <1>1, <1>2, <1>5 DEF Unit, Tells, Whole

(* A size at the end of the bytes is the one the server sees.              *)
LEMMA SeenPayload ==
  ASSUME NEW v \in Servers, NEW s, Whole(s), NEW x \in Byte
  PROVE  Seen(v, s \o Payload(x)) = x /\ Whole(s \o Payload(x))
<1>1. PICK t \in Seq(Byte) : t = Payload(x) /\ Whole(t)
  BY PayloadTells DEF Whole
<1>2. s \in Seq(Byte)
  BY DEF Whole
<1>3. PICK ms \in Seq(Messages) : ms = Collected(<< >>, s).msgs
  BY <1>2, NoBytes, CollectedType
<1>4. PICK m \in Messages : m = Payload(x) /\ m \notin Tells /\ m[4] = x
  BY PayloadTells
<1>5. Collected(<< >>, t).msgs = <<m>>
  BY <1>1, <1>4, PayloadTells
<1>6. Collected(<< >>, s \o t).msgs = Append(ms, m)
  <2>1. Collected(<< >>, s \o t).msgs = ms \o <<m>>
    <3>1. Collected(<< >>, s \o t).msgs = Collected(<< >>, s).msgs \o Collected(<< >>, t).msgs
      BY <1>1, <1>2, NoBytes, CollectedBoth DEF Whole
    <3> QED
      BY <1>3, <1>5, <3>1, Zenon
  <2>2. ms \o <<m>> = Append(ms, m)
    OBVIOUS
  <2> QED
    BY <2>1, <2>2
<1>7. PICK w \in Servers : w = Handled(v, ms)
  BY HandledType
<1>8. Handled(v, Append(ms, m)) = Handle(w, m)
  BY <1>7, HandledOne
<1>9. Handle(w, m).seen = x
  BY <1>4, HandleSees
<1>10. Seen(v, s \o t) = x
  BY <1>6, <1>8, <1>9 DEF Seen
<1> QED
  BY <1>1, <1>10, WholeBoth

(* A message about something else by itself.                               *)
LEMMA PlainUnit ==
  ASSUME NEW u, Unit(u), u \in Tells
  PROVE  Plain(u)
<1>1. u \in Seq(Byte) /\ <<u>> \in Seq(Tells)
  BY DEF Tells, Messages
<1> QED
  BY <1>1 DEF Plain, Unit

(* No bytes, a command, the type of the terminal and data.                 *)
LEMMA PlainWords ==
  /\ Plain(<< >>) /\ Plain(TypeIs)
  /\ \A c \in {DO, DONT, WILL, WONT} : \A o \in Byte : Plain(<<IAC, c, o>>)
<1>1. Plain(<< >>)
  <2>1. Collected(<< >>, << >>).at = << >> /\ Collected(<< >>, << >>).msgs = << >>
    <3>1. Collected(<< >>, << >>) = Heard(<< >>, << >>)
      BY NoBytes, CollectedNothing
    <3> QED
      BY <3>1 DEF Heard
  <2>2. << >> \in Seq(Tells)
    OBVIOUS
  <2> QED
    BY <2>1, <2>2, NoBytes, Zenon DEF Plain
<1>2. Plain(TypeIs)
  <2>1. TypeIs \in Tells
    BY TypeIsSaid DEF Said
  <2> QED
    BY <2>1, TypeIsOrder, PlainUnit DEF Order
<1>3. ASSUME NEW c \in {DO, DONT, WILL, WONT}, NEW o \in Byte PROVE Plain(<<IAC, c, o>>)
  <2>1. PICK u : u = <<IAC, c, o>>
    OBVIOUS
  <2>2. Unit(u) /\ u \in Tells
    BY <2>1, CommandUnit, CommandSaid DEF Said
  <2> QED
    BY <2>1, <2>2, PlainUnit
<1> QED
  BY <1>1, <1>2, <1>3

(* What the filter answers, but for a request for NAWS.                    *)
LEMMA NextReplyPlain ==
  ASSUME NEW st, NEW sub, NEW sz \in Byte, NEW b \in Byte, ~(st = "Do" /\ b = NAWS)
  PROVE  Plain(NextReply(st, sub, sz, b))
<1>1. Plain(OfWill(b))
  <2>1. PICK c \in {DO, DONT} : OfWill(b) = <<IAC, c, b>>
    BY DEF OfWill
  <2> QED
    BY <2>1, PlainWords
<1>2. b # NAWS => Plain(OfDo(sz, b))
  <2>1. b # NAWS => \E d \in {WILL, WONT} : OfDo(sz, b) = <<IAC, d, b>>
    BY DEF OfDo
  <2> QED
    BY <2>1, PlainWords
<1> QED
  BY <1>1, <1>2, PlainWords DEF NextReply

(* However it is fed: a filter that knows of NAWS has told its size.       *)
LEMMA FeedSees ==
  ASSUME NEW v \in Servers, NEW f \in Filters, f.replies = << >>, NEW s, Whole(s),
         f.naws => Seen(v, s) = f.size, NEW t \in Seq(Byte)
  PROVE  /\ Feed(f, t).naws => Seen(v, s \o Feed(f, t).replies) = f.size
         /\ Whole(s \o Feed(f, t).replies)
<1>1. PICK n \in Byte : n = f.size
  BY SizesAreBytes DEF Filters
<1> DEFINE Fine(u) == /\ Feed(f, u).naws => Seen(v, s \o Feed(f, u).replies) = n
                      /\ Whole(s \o Feed(f, u).replies)
           P == {u \in Seq(Byte) : Fine(u)}
<1>2. << >> \in P
  <2>1. Feed(f, << >>) = f
    BY FeedNothing
  <2>2. s \o << >> = s
    BY DEF Whole
  <2> QED
    BY <1>1, <2>1, <2>2, NoBytes
<1>3. ASSUME NEW u \in Seq(Byte), NEW b \in Byte, u \in P PROVE Append(u, b) \in P
  <2>1. PICK g \in Filters : g = Feed(f, u)
    BY FeedType
  <2>2. g.size = n
    BY <1>1, <2>1, FeedSize
  <2>3. PICK h \in Filters : h = Step(g, b) /\ h = Feed(f, Append(u, b))
    BY <2>1, StepType, FeedOne
  <2>4. PICK r \in Seq(Byte) : r = NextReply(g.state, g.sub, n, b)
    BY NextReplyType
  <2>5. h.replies = g.replies \o r /\ h.naws = NextNaws(g.state, g.naws, b)
    BY <2>2, <2>3, <2>4, StepTells, ZenonT(60) DEF Became
  <2>6. PICK q : q = s \o g.replies
    OBVIOUS
  <2>7. (g.naws => Seen(v, q) = n) /\ Whole(q)
    BY <1>3, <2>1, <2>6
  <2>8. s \o h.replies = q \o r
    <3>1. PICK p \in Seq(Byte) : p = g.replies
      BY DEF Filters
    <3>2. s \in Seq(Byte)
      BY DEF Whole
    <3>3. (s \o p) \o r = s \o (p \o r)
      BY <3>2, ConcatThree
    <3> QED
      BY <2>5, <2>6, <3>1, <3>3
  <2>9. ASSUME g.state = "Do", b = NAWS
        PROVE  (h.naws => Seen(v, s \o h.replies) = n) /\ Whole(s \o h.replies)
    <3>1. r = <<IAC, WILL, NAWS>> \o Payload(n)
      BY <2>4, <2>9 DEF NextReply, OfDo
    <3>2. PICK w \in Seq(Byte) : w = <<IAC, WILL, NAWS>> /\ Plain(w)
      <4>1. Plain(<<IAC, WILL, NAWS>>)
        BY <2>9, PlainWords
      <4> QED
        BY <4>1 DEF Plain
    <3>3. PICK p \in Seq(Byte) : p = Payload(n)
      BY PayloadType
    <3>4. Whole(q \o w)
      BY <2>7, <3>2, SeenPlain
    <3>5. Seen(v, (q \o w) \o p) = n /\ Whole((q \o w) \o p)
      BY <3>3, <3>4, SeenPayload
    <3>6. (q \o w) \o p = q \o r
      <4>1. q \in Seq(Byte)
        BY <2>7 DEF Whole
      <4>2. (q \o w) \o p = q \o (w \o p)
        BY <4>1, ConcatThree
      <4> QED
        BY <3>1, <3>2, <3>3, <4>2
    <3> QED
      BY <2>8, <3>5, <3>6, Zenon
  <2>10. ASSUME ~(g.state = "Do" /\ b = NAWS)
         PROVE  (h.naws => Seen(v, s \o h.replies) = n) /\ Whole(s \o h.replies)
    <3>1. Plain(r)
      BY <2>4, <2>10, NextReplyPlain
    <3>2. Seen(v, q \o r) = Seen(v, q) /\ Whole(q \o r)
      BY <2>7, <3>1, SeenPlain
    <3>3. h.naws => g.naws
      BY <2>5, <2>10, Zenon DEF NextNaws
    <3> QED
      BY <2>7, <2>8, <3>2, <3>3, Zenon
  <2>11. Append(u, b) \in Seq(Byte)
    BY AppendByte
  <2>12. (h.naws => Seen(v, s \o h.replies) = n) /\ Whole(s \o h.replies)
    BY <2>9, <2>10, Zenon
  <2> QED
    BY <2>3, <2>11, <2>12, Zenon
<1> HIDE DEF P
<1>4. Seq(Byte) \subseteq P
  BY <1>2, <1>3, ByAppending
<1> QED
  BY <1>1, <1>4 DEF P

-----------------------------------------------------------------------------
(* What is on the way between the two.                                     *)

(* The filter f and the server v get along, with c and s on the way to     *)
(* them.                                                                   *)
Accord(f, c, v, s) ==
  LET g == Feed(f, c)
  IN  Agreed(v.pending, v.on, v.doing, Said(s) \cup Said(g.replies), g.naws)

(* It is about the server and the filter once it has what is on the way.   *)
LEMMA AccordSpeaks ==
  ASSUME NEW f \in Filters, NEW c \in Seq(Byte), NEW v \in Servers, v.replies = << >>, NEW s,
         NEW g \in Filters, g = Feed(f, c)
  PROVE  Accord(f, c, v, s) <=> Speaks(g, v, Said(s))
<1>1. PICK e : e = << >>
  OBVIOUS
<1>2. Feed(g, e) = g
  BY <1>1, FeedNothing
<1>3. v.replies = e
  BY <1>1
<1> QED
  BY <1>2, <1>3, Zenon DEF Accord, Speaks, Talks

(* More is said to the server.                                             *)
LEMMA AccordSaid ==
  ASSUME NEW f, NEW c, NEW v, NEW s, Accord(f, c, v, s), Whole(s),
         NEW u \in Seq(Byte), NawsAsked \notin Said(u)
  PROVE  Accord(f, c, v, s \o u)
<1>1. Said(s \o u) = Said(s) \cup Said(u)
  BY SaidBoth DEF Whole
<1>2. PICK g : g = Feed(f, c)
  OBVIOUS
<1>3. PICK n : n = g.naws
  OBVIOUS
<1>4. PICK T : T = Said(s) \cup Said(g.replies)
  OBVIOUS
<1>5. PICK S : S = Said(s \o u) \cup Said(g.replies)
  OBVIOUS
<1>6. PICK P, O, D : P = v.pending /\ O = v.on /\ D = v.doing
  OBVIOUS
<1>7. Agreed(P, O, D, T, n)
  BY <1>2, <1>3, <1>4, <1>6, Zenon DEF Accord
<1>8. T \subseteq S /\ NawsAsked \notin S
  BY <1>1, <1>4, <1>5, <1>7 DEF Agreed
<1>9. Agreed(P, O, D, S, n)
  BY <1>7, <1>8, AgreedMore
<1> QED
  BY <1>2, <1>3, <1>5, <1>6, <1>9, Zenon DEF Accord

(* The size of the terminal is another.                                    *)
LEMMA AccordResembles ==
  ASSUME NEW f \in Filters, NEW g \in Filters, Resembles(f, g), NEW c \in Seq(Byte),
         NEW v, NEW s, Accord(f, c, v, s)
  PROVE  Accord(g, c, v, s)
<1>1. Resembles(Feed(f, c), Feed(g, c))
  BY FeedResembles
<1>2. Feed(f, c).naws = Feed(g, c).naws /\ Said(Feed(f, c).replies) = Said(Feed(g, c).replies)
  BY <1>1, Zenon DEF Resembles
<1> QED
  BY <1>2, Zenon DEF Accord

(* A chunk is read: what the filter answered goes to the server.           *)
LEMMA AccordChunk ==
  ASSUME NEW f \in Filters, f.replies = << >>, NEW a \in Seq(Byte), NEW b \in Seq(Byte),
         NEW v, NEW s, Accord(f, a \o b, v, s), Whole(s),
         NEW h \in Filters, h = Feed(f, a),
         NEW g, g = [h EXCEPT !.replies = << >>, !.app = << >>]
  PROVE  Accord(g, b, v, s \o h.replies)
<1>1. g \in Filters /\ g.replies = << >>
  BY FilterTaken
<1>2. PICK r \in Seq(Byte) : r = h.replies
  BY DEF Filters
<1>3. Modest(r)
  BY <1>2, FeedModest, SaidNothing
<1>4. Alike(h, g, r)
  <2>1. r \o << >> = r
    BY <1>2
  <2>2. g.state = h.state /\ g.sub = h.sub /\ g.naws = h.naws /\ g.size = h.size
    BY DEF Filters
  <2> QED
    BY <1>1, <1>2, <2>1, <2>2 DEF Alike
<1>5. PICK x : x = Feed(h, b)
  OBVIOUS
<1>6. PICK y \in Filters : y = Feed(g, b)
  BY <1>1, FeedType
<1>7. Alike(x, y, r)
  BY <1>1, <1>4, <1>5, <1>6, FeedAlike
<1>8. x.naws = y.naws /\ x.replies = r \o y.replies
  BY <1>7 DEF Alike
<1>9. Feed(f, a \o b) = x
  BY <1>5, FeedBoth
<1>10. y.replies \in Seq(Byte)
  BY DEF Filters
<1>11. Said(x.replies) = Said(r) \cup Said(y.replies)
  BY <1>3, <1>8, <1>10, <1>2, SaidBoth DEF Modest, AllOrders
<1>12. Said(s \o r) = Said(s) \cup Said(r)
  BY <1>2, SaidBoth DEF Whole
<1>13. Said(s) \cup Said(x.replies) = Said(s \o r) \cup Said(y.replies)
  BY <1>11, <1>12
<1>14. Agreed(v.pending, v.on, v.doing, Said(s) \cup Said(x.replies), x.naws)
  BY <1>9, Zenon DEF Accord
<1>15. Agreed(v.pending, v.on, v.doing, Said(s \o r) \cup Said(y.replies), y.naws)
  BY <1>8, <1>13, <1>14, Zenon
<1> QED
  BY <1>2, <1>6, <1>15, Zenon DEF Accord

(* The host prints.                                                        *)
LEMMA AccordPrints ==
  ASSUME NEW f \in Filters, NEW c \in Seq(Byte), NEW v, NEW s, Accord(f, c, v, s),
         NEW g \in Filters, g = Feed(f, c), g.state = "Data",
         NEW b \in Byte, NEW r \in Seq(Byte), r = IF b = IAC THEN <<IAC, IAC>> ELSE <<b>>
  PROVE  Accord(f, c \o r, v, s)
<1>1. PICK h : h = Feed(g, r)
  OBVIOUS
<1>2. h.naws = g.naws /\ h.replies = g.replies
  BY <1>1, FeedPrinted, ZenonT(60)
<1>3. Feed(f, c \o r) = h
  BY <1>1, FeedBoth
<1> QED
  BY <1>2, <1>3, Zenon DEF Accord

(* The server that is asked about options is the one that asks.            *)
LEMMA AccordSame ==
  ASSUME NEW f, NEW c, NEW v, NEW s, Accord(f, c, v, s), NEW w,
         w.pending = v.pending, w.on = v.on, w.doing = v.doing
  PROVE  Accord(f, c, w, s)
  BY Zenon DEF Accord

(* Nothing on the way says nothing.                                        *)
LEMMA NothingCollected ==
  /\ Collected(<< >>, << >>).at = << >> /\ Collected(<< >>, << >>).msgs = << >>
  /\ Whole(<< >>)
<1>1. Collected(<< >>, << >>) = Heard(<< >>, << >>)
  BY NoBytes, CollectedNothing
<1>2. Collected(<< >>, << >>).at = << >> /\ Collected(<< >>, << >>).msgs = << >>
  BY <1>1 DEF Heard
<1> QED
  BY <1>2, NoBytes DEF Whole

(* The server reads what is on the way to it, and answers.                 *)
LEMMA AccordReads ==
  ASSUME NEW f \in Filters, NEW c \in Seq(Byte), NEW v \in Servers, v.replies = << >>,
         NEW s \in Seq(Byte), Accord(f, c, v, s), Listens(Feed(f, c)),
         NEW ms \in Seq(Messages), ms = Collected(<< >>, s).msgs,
         NEW w, w = Handled(v, ms),
         NEW y, y.pending = w.pending, y.on = w.on, y.doing = w.doing
  PROVE  Accord(f, c \o w.replies, y, << >>)
<1>1. PICK g \in Filters : g = Feed(f, c)
  BY FeedType
<1>2. Listens(g)
  BY <1>1
<1>3. Quiet(v.replies)
  BY PassesNothing DEF Quiet
<1>4. Speaks(g, v, Said(s))
  BY <1>1, AccordSpeaks
<1>5. Speaks(g, v, Elements(ms))
  <2>1. Said(s) = Elements(ms) \cap Tells
    BY Zenon DEF Said
  <2>2. Elements(ms) \subseteq Messages
    BY DEF Elements
  <2>3. NawsAsked \in Messages => NawsAsked \in Tells
    BY DEF NawsAsked, Tells, DO, SB
  <2>4. PICK P, O, D, r, n : Shows(v, P, O, D, r, n)
    BY ShowsAll
  <2>5. Talks(g, P, O, D, r, Said(s))
    BY <1>4, <2>4, SpeaksShown
  <2>6. PICK k : k = Feed(g, r).naws
    OBVIOUS
  <2>7. PICK T : T = Said(s) \cup Said(Feed(g, r).replies)
    OBVIOUS
  <2>8. PICK S : S = Elements(ms) \cup Said(Feed(g, r).replies)
    OBVIOUS
  <2>9. Agreed(P, O, D, T, k)
    BY <2>5, <2>6, <2>7, Zenon DEF Talks
  <2>10. T \subseteq S
    BY <2>1, <2>7, <2>8
  <2>11. NawsAsked \notin T
    BY <2>9 DEF Agreed
  <2>12. NawsAsked \notin S
    BY <2>1, <2>2, <2>3, <2>7, <2>8, <2>11
  <2>13. Agreed(P, O, D, S, k)
    BY <2>9, <2>10, <2>12, AgreedMore
  <2>14. Talks(g, P, O, D, r, Elements(ms))
    BY <2>6, <2>8, <2>13, Zenon DEF Talks
  <2> QED
    BY <2>4, <2>14, SpeaksShown
<1>6. w \in Servers /\ Quiet(w.replies) /\ Speaks(g, w, {})
  BY <1>2, <1>3, <1>5, HandledSpeaks, Zenon
<1>7. PICK r \in Seq(Byte) : r = w.replies
  BY <1>6 DEF Servers
<1>8. PICK h : h = Feed(g, r)
  OBVIOUS
<1>9. Feed(f, c \o r) = h
  BY <1>1, <1>7, <1>8, FeedBoth
<1>10. Agreed(w.pending, w.on, w.doing, {} \cup Said(h.replies), h.naws)
  BY <1>6, <1>7, <1>8, Zenon DEF Speaks, Talks
<1>11. Said(<< >>) = {}
  BY SaidNothing
<1>12. Agreed(y.pending, y.on, y.doing, Said(<< >>) \cup Said(h.replies), h.naws)
  BY <1>10, <1>11, Zenon
<1> QED
  BY <1>7, <1>9, <1>12, Zenon DEF Accord

(* A question is answered by what is said.                                 *)
Answered(x, said) == AnswersTo(x) \cap said # {}

(* A command is the first the filter hears of the server.                  *)
LEMMA TalksAsked ==
  ASSUME NEW g, Listens(g), NEW e, e = << >>, NEW P, NEW O, NEW D, NEW R, Talks(g, P, O, D, e, R),
         NEW d \in {DO, DONT, WILL, WONT}, NEW o \in Byte,
         d \in {DO, WILL} \/ o # NAWS \/ (NAWS \notin O /\ <<DO, NAWS>> \notin P),
         NEW w \in Seq(Byte), w = <<IAC, d, o>>
  PROVE  /\ Talks(g, P, O, D, w, R) /\ (d = DO /\ o = NAWS => Feed(g, w).naws = TRUE)
         /\ d \in {DO, WILL} => Answered(<<d, o>>, Said(Feed(g, w).replies))
<1>1. Quiet(e)
  BY PassesNothing DEF Quiet
<1>2. e \o <<IAC, d, o>> = w
  BY EmptyBefore
<1>3. /\ Talks(g, P, O, D, e \o <<IAC, d, o>>, R)
      /\ d = DO /\ o = NAWS => Feed(g, e \o <<IAC, d, o>>).naws = TRUE
      /\ d \in {DO, WILL} => AnswersTo(<<d, o>>) \cap Said(Feed(g, e \o <<IAC, d, o>>).replies) # {}
  BY <1>1, TalksCommand, ZenonT(30)
<1> QED
  BY <1>2, <1>3, Zenon DEF Answered

(* What the server asks by itself.                                         *)
MayAskOf(v, c, o) ==
  CASE c = DO -> o \notin v.on /\ <<DO, o>> \notin v.pending
    [] c = WILL -> o \notin v.doing /\ <<WILL, o>> \notin v.pending
    [] c = DONT -> o \in v.on
    [] c = WONT -> o \in v.doing

(* The server that has asked it.                                           *)
AskedOf(v, c, o) ==
  CASE c \in {DO, WILL} -> [v EXCEPT !.pending = @ \cup {<<c, o>>}]
    [] c = DONT -> [v EXCEPT !.on = @ \ {o}]
    [] c = WONT -> [v EXCEPT !.doing = @ \ {o}]

(* A question or a demand of the server is answered by the filter.         *)
LEMMA AccordAsks ==
  ASSUME NEW f \in Filters, NEW c \in Seq(Byte), NEW v \in Servers, v.replies = << >>, NEW s,
         Accord(f, c, v, s), Listens(Feed(f, c)),
         NEW d \in {DO, DONT, WILL, WONT}, NEW o \in Byte, MayAskOf(v, d, o),
         NEW y, y = AskedOf(v, d, o)
  PROVE  Accord(f, c \o <<IAC, d, o>>, y, s)
<1>1. PICK g \in Filters : g = Feed(f, c)
  BY FeedType
<1>2. Listens(g)
  BY <1>1
<1>3. PICK e \in Seq(Byte) : e = << >>
  BY NoBytes
<1>4. Quiet(e)
  BY <1>3, PassesNothing DEF Quiet
<1>5. PICK P, O, D, n : Shows(v, P, O, D, e, n) /\ P = v.pending /\ O = v.on /\ D = v.doing
  BY <1>3, ShowsAll
<1>6. PICK R : R = Said(s)
  OBVIOUS
<1>7. Talks(g, P, O, D, e, R)
  BY <1>1, <1>5, <1>6, AccordSpeaks, SpeaksShown
<1>8. PICK w \in Seq(Byte) : w = <<IAC, d, o>>
  BY CommandOrder, OrderIsOrders DEF AllOrders
<1>9. PICK h \in Filters : h = Feed(g, w)
  BY <1>8, FeedType
<1>10. Feed(f, c \o w) = h
  BY <1>1, <1>8, <1>9, FeedBoth, ZenonT(60)
<1>11. h.naws \in BOOLEAN
  BY DEF Filters
<1>12. ASSUME NEW Q, NEW U, NEW V, Talks(g, Q, U, V, w, R), y.pending = Q, y.on = U, y.doing = V
       PROVE  Accord(f, c \o w, y, s)
  <2>1. Agreed(Q, U, V, R \cup Said(h.replies), h.naws)
    BY <1>9, <1>12, Zenon DEF Talks
  <2> QED
    BY <1>6, <1>10, <1>12, <2>1, Zenon DEF Accord
<1>13. DO # WILL /\ DO # DONT /\ DO # WONT /\ WILL # DONT /\ WILL # WONT /\ DONT # WONT
  BY DEF DO, DONT, WILL, WONT
<1>14. \A x : /\ Shows([v EXCEPT !.pending = x], x, O, D, e, n)
              /\ Shows([v EXCEPT !.on = x], P, x, D, e, n)
              /\ Shows([v EXCEPT !.doing = x], P, O, x, e, n)
  BY <1>5, ShowsSet
<1>15. CASE d = DONT
  <2>1. o \in O
    BY <1>5, <1>13, <1>15 DEF MayAskOf
  <2>2. PICK U : U = O \ {o}
    OBVIOUS
  <2>3. Talks(g, P, U, D, e, R)
    BY <1>2, <1>4, <1>7, <2>2, TalksOptions
  <2>4. o # NAWS \/ (NAWS \notin U /\ <<DO, NAWS>> \notin P)
    <3>1. \A q \in Byte : <<DO, q>> \in P => q \notin O
      BY <1>7, TalksKnows
    <3> QED
      BY <2>1, <2>2, <3>1
  <2>5. Talks(g, P, U, D, w, R)
    BY <1>2, <1>3, <1>8, <2>3, <2>4, TalksAsked
  <2>6. y = [v EXCEPT !.on = U]
    <3>1. y = [v EXCEPT !.on = @ \ {o}]
      BY <1>15 DEF AskedOf, DO, DONT, WILL, WONT
    <3> QED
      BY <1>5, <2>2, <3>1, Zenon
  <2>7. y.pending = P /\ y.on = U /\ y.doing = D
    <3>1. Shows(y, P, U, D, e, n)
      BY <1>14, <2>6, Zenon
    <3> QED
      BY <3>1, Zenon DEF Shows
  <2> QED
    BY <1>8, <1>12, <2>5, <2>7
<1>16. CASE d = WONT
  <2>1. o \in D
    BY <1>5, <1>13, <1>16 DEF MayAskOf
  <2>2. PICK V : V = D \ {o}
    OBVIOUS
  <2>3. Talks(g, P, O, V, e, R)
    BY <1>2, <1>4, <1>7, <2>2, TalksOptions
  <2>4. o # NAWS
    <3>1. NAWS \notin D
      BY <1>7, TalksKnows
    <3> QED
      BY <2>1, <3>1
  <2>5. Talks(g, P, O, V, w, R)
    BY <1>2, <1>3, <1>8, <2>3, <2>4, TalksAsked
  <2>6. y = [v EXCEPT !.doing = V]
    <3>1. y = [v EXCEPT !.doing = @ \ {o}]
      BY <1>16 DEF AskedOf, DO, DONT, WILL, WONT
    <3> QED
      BY <1>5, <2>2, <3>1, Zenon
  <2>7. y.pending = P /\ y.on = O /\ y.doing = V
    <3>1. Shows(y, P, O, V, e, n)
      BY <1>14, <2>6, Zenon
    <3> QED
      BY <3>1, Zenon DEF Shows
  <2> QED
    BY <1>8, <1>12, <2>5, <2>7
<1>17. CASE d \in {DO, WILL}
  <2>1. PICK x : x = <<d, o>>
    OBVIOUS
  <2>2. /\ Talks(g, P, O, D, w, R) /\ (d = DO /\ o = NAWS => h.naws = TRUE)
        /\ AnswersTo(x) \cap Said(h.replies) # {}
    <3>1. /\ Talks(g, P, O, D, w, R) /\ (d = DO /\ o = NAWS => Feed(g, w).naws = TRUE)
          /\ AnswersTo(<<d, o>>) \cap Said(Feed(g, w).replies) # {}
      <4>1. d \in {DO, WILL} \/ o # NAWS \/ (NAWS \notin O /\ <<DO, NAWS>> \notin P)
        BY <1>17
      <4>2. Talks(g, P, O, D, w, R)
        BY <1>2, <1>3, <1>7, <1>8, <4>1, TalksAsked
      <4>3. d \in {DO, WILL} => Answered(<<d, o>>, Said(Feed(g, w).replies))
        BY <1>2, <1>3, <1>7, <1>8, <4>1, TalksAsked
      <4>4. d = DO /\ o = NAWS => Feed(g, w).naws = TRUE
        BY <1>2, <1>3, <1>7, <1>8, <4>1, TalksAsked
      <4> QED
        BY <1>17, <4>2, <4>3, <4>4, Zenon DEF Answered
    <3> QED
      BY <1>9, <2>1, <3>1, Zenon
  <2>3. PICK S : S = R \cup Said(h.replies)
    OBVIOUS
  <2>4. Agreed(P, O, D, S, h.naws)
    BY <1>9, <2>2, <2>3, Zenon DEF Talks
  <2>5. AnswersTo(x) \cap S # {}
    BY <2>2, <2>3
  <2>6. x \in Questions
    BY <1>17, <2>1 DEF Questions
  <2>7. \/ x = <<DO, o>> /\ o \notin O /\ (o = NAWS => h.naws)
        \/ x = <<WILL, o>> /\ o \notin D
    BY <1>5, <1>13, <1>17, <2>1, <2>2 DEF MayAskOf
  <2>8. Agreed(P \cup {x}, O, D, S, h.naws)
    BY <1>11, <2>4, <2>5, <2>6, <2>7, AgreedAsked
  <2>9. PICK Q : Q = P \cup {x}
    OBVIOUS
  <2>10. Talks(g, Q, O, D, w, R)
    BY <1>9, <2>3, <2>8, <2>9, Zenon DEF Talks
  <2>11. y = [v EXCEPT !.pending = Q]
    <3>1. y = [v EXCEPT !.pending = @ \cup {<<d, o>>}]
      BY <1>13, <1>17 DEF AskedOf
    <3> QED
      BY <1>5, <2>1, <2>9, <3>1, Zenon
  <2>12. y.pending = Q /\ y.on = O /\ y.doing = D
    <3>1. Shows(y, Q, O, D, e, n)
      BY <1>14, <2>11, Zenon
    <3> QED
      BY <3>1, Zenon DEF Shows
  <2> QED
    BY <1>8, <1>12, <2>10, <2>12
<1> QED
  BY <1>15, <1>16, <1>17

-----------------------------------------------------------------------------
(* The invariant.                                                          *)

(* What the commands make of the size the thread knows.                    *)
Resizings ==
  [x \in Sizes \X Commands |-> IF x[2][1] = "resize" THEN x[2][2] ELSE x[1]]

(* Commands lead from a size to a size.                                    *)
LEMMA ResizingsTake == Takes(Resizings, Sizes, Commands)
<1>1. ASSUME NEW x \in Sizes, NEW c \in Commands
      PROVE  (IF c[1] = "resize" THEN c[2] ELSE x) \in Sizes
  BY CommandTypes
<1> QED
  BY <1>1 DEF Takes, Resizings

(* What one command does to it.                                            *)
LEMMA ResizingsOf ==
  ASSUME NEW x \in Sizes, NEW c \in Commands
  PROVE  Resizings[<<x, c>>] = IF c[1] = "resize" THEN c[2] ELSE x
  BY DEF Resizings

(* One place first, and then the others.                                   *)
LEMMA AlongFirst ==
  ASSUME NEW step, NEW A, NEW B, Takes(step, A, B), NEW a \in A, NEW s \in Seq(B), s # << >>
  PROVE  Along(step, a, s) = Along(step, step[<<a, Head(s)>>], Tail(s))
<1>1. PICK c \in B : c = Head(s)
  OBVIOUS
<1>2. PICK cs \in Seq(B) : cs = Tail(s)
  <2>1. Tail(s) \in Seq(B)
    OBVIOUS
  <2> QED
    BY <2>1
<1>3. s = <<c>> \o cs
  BY <1>1, <1>2
<1>4. PICK o \in Seq(B) : o = <<c>>
  <2>1. <<c>> \in Seq(B)
    OBVIOUS
  <2> QED
    BY <2>1
<1>5. Along(step, a, o \o cs) = Along(step, Along(step, a, o), cs)
  BY AlongConcat
<1>6. PICK e \in Seq(B) : e = << >>
  <2>1. << >> \in Seq(B)
    OBVIOUS
  <2> QED
    BY <2>1
<1>7. Append(e, c) = o
  BY <1>4, <1>6, OneByte
<1>8. Along(step, a, Append(e, c)) = step[<<Along(step, a, e), c>>]
  BY AlongAppend
<1>9. Along(step, a, e) = a
  BY <1>6, AlongEmpty
<1> QED
  BY <1>1, <1>2, <1>3, <1>4, <1>5, <1>7, <1>8, <1>9, Zenon

(* The server v has seen the size that the filter f knows, if it has NAWS  *)
(* and once it has s, and the commands cs make the size n of it.           *)
Told(f, v, s, cs, n) ==
  (f.naws => Seen(v, s) = f.size) /\ Along(Resizings, f.size, cs) = n

(* At any moment both get along, and the size is told or about to be.      *)
AskInv ==
  /\ link = "connecting" => ~filter.naws
  /\ link # "ended" => /\ Accord(filter, toClient, server, toServer)
                       /\ Told(filter, server, toServer, commands, size)

(* What the types and the streams say of both ends.                        *)
LEMMA AskFacts ==
  ASSUME TelnetTypeOK, ToTerminal, ToHost
  PROVE  /\ filter \in Filters /\ filter.replies = << >> /\ filter.naws \in BOOLEAN
         /\ filter.size \in Sizes /\ size \in Sizes /\ commands \in Seq(Commands)
         /\ toClient \in Seq(Byte) /\ toServer \in Seq(Byte) /\ Whole(toServer)
         /\ server \in Servers /\ server.replies = << >> /\ server.at = << >>
         /\ Listens(Feed(filter, toClient))
<1>1. /\ filter \in Filters /\ filter.replies = << >> /\ size \in Sizes
      /\ commands \in Seq(Commands) /\ toClient \in Seq(Byte) /\ toServer \in Seq(Byte)
      /\ server \in Servers
  BY DEF TelnetTypeOK
<1>2. filter.naws \in BOOLEAN /\ filter.size \in Sizes
  BY <1>1 DEF Filters
<1>3. /\ server.replies = << >> /\ server.at = << >> /\ Whole(toServer)
      /\ Feed(filter, toClient).state = "Data"
  BY <1>1 DEF ToTerminal, ToHost, Whole
<1>4. Feed(filter, toClient) \in Filters
  BY <1>1, FeedType
<1>5. Modest(Feed(filter, toClient).replies)
  BY <1>1, FeedModest, SaidNothing
<1> QED
  BY <1>1, <1>2, <1>3, <1>4, <1>5 DEF Listens

(* Servers that have seen the same see the same.                           *)
LEMMA SeenSame ==
  ASSUME NEW v \in Servers, NEW w \in Servers, v.seen = w.seen, NEW s \in Seq(Byte)
  PROVE  Seen(v, s) = Seen(w, s)
<1>1. PICK ms \in Seq(Messages) : ms = Collected(<< >>, s).msgs
  BY NoBytes, CollectedType
<1>2. Handled(v, ms).seen = Handled(w, ms).seen
  BY HandledSeesSame
<1> QED
  BY <1>1, <1>2, Zenon DEF Seen

(* A step that leaves what was agreed on as it is.                         *)
LEMMA AskKept ==
  ASSUME TelnetTypeOK, ToTerminal, ToHost, AskInv,
         UNCHANGED <<link, filter, toClient, toServer>>, server' \in Servers,
         server'.pending = server.pending, server'.on = server.on,
         server'.doing = server.doing, server'.seen = server.seen,
         Along(Resizings, filter.size, commands) = size =>
           Along(Resizings, filter.size, commands') = size'
  PROVE  AskInv'
<1>1. CASE link # "ended"
  <2>1. PICK f, c, s, v, w : /\ f = filter /\ c = toClient /\ s = toServer /\ v = server
                             /\ w = server' /\ v \in Servers /\ w \in Servers /\ s \in Seq(Byte)
    BY AskFacts
  <2>2. Accord(f, c, v, s) /\ Told(f, v, s, commands, size)
    BY <1>1, <2>1, Zenon DEF AskInv
  <2>3. w.pending = v.pending /\ w.on = v.on /\ w.doing = v.doing /\ w.seen = v.seen
    BY <2>1
  <2>4. Accord(f, c, w, s)
    BY <2>2, <2>3, AccordSame
  <2>5. Seen(w, s) = Seen(v, s)
    BY <2>1, <2>3, SeenSame
  <2>6. Told(f, w, s, commands', size')
    BY <2>1, <2>2, <2>5, Zenon DEF Told
  <2>7. filter' = f /\ toClient' = c /\ toServer' = s /\ server' = w /\ link' = link
    BY <2>1
  <2>8. /\ Accord(filter, toClient, server, toServer)'
        /\ Told(filter, server, toServer, commands, size)'
    BY <2>4, <2>6, <2>7, Zenon
  <2> QED
    BY <2>8 DEF AskInv
<1> QED
  BY <1>1 DEF AskInv

(* What is said in the greeting.                                           *)
LEMMA GreetingSaid == Modest(Greeting)
<1>1. /\ \A c \in {DO, WILL} : \A o \in {SGA, ECHO, TTYPE} : Modest(<<IAC, c, o>>)
      /\ Modest(<<IAC, WILL, NAWS>>)
  <2>1. {SGA, ECHO, TTYPE, NAWS} \subseteq Byte /\ NAWS \notin {SGA, ECHO, TTYPE} /\ WILL # DO
    BY DEF SGA, ECHO, TTYPE, NAWS, Byte, WILL, DO
  <2> QED
    BY <2>1, CommandSaid
<1>2. PICK p : p = <<IAC, DO, SGA>>
  OBVIOUS
<1>3. PICK q : q = <<IAC, WILL, SGA>>
  OBVIOUS
<1>4. PICK r : r = <<IAC, DO, ECHO>>
  OBVIOUS
<1>5. PICK s : s = <<IAC, WILL, NAWS>>
  OBVIOUS
<1>6. PICK t : t = <<IAC, WILL, TTYPE>>
  OBVIOUS
<1>7. Modest(p) /\ Modest(q) /\ Modest(r) /\ Modest(s) /\ Modest(t)
  BY <1>1, <1>2, <1>3, <1>4, <1>5, <1>6
<1>8. Modest(p \o q)
  BY <1>7, ModestBoth
<1>9. Modest((p \o q) \o r)
  BY <1>7, <1>8, ModestBoth
<1>10. Modest(((p \o q) \o r) \o s)
  BY <1>7, <1>9, ModestBoth
<1>11. Modest((((p \o q) \o r) \o s) \o t)
  BY <1>7, <1>10, ModestBoth
<1> QED
  BY <1>2, <1>3, <1>4, <1>5, <1>6, <1>11, Zenon DEF Greeting

(* The client greets the server.                                           *)
LEMMA AskConnects ==
  ASSUME TelnetTypeOK, ToTerminal, ToHost, AskInv, Connect
  PROVE  AskInv'
<1>1. /\ link = "connecting" /\ toServer = << >> /\ link' = "up" /\ toServer' = Greeting
      /\ UNCHANGED <<filter, toClient, server, commands, size>> /\ ~filter.naws
  BY DEF Connect, ToHost, AskInv
<1>2. PICK e \in Seq(Byte) : e = << >> /\ Whole(e)
  BY NoBytes, NothingCollected
<1>3. PICK u \in Seq(Byte) : u = Greeting
  BY GreetingType
<1>4. NawsAsked \notin Said(u)
  BY <1>3, GreetingSaid DEF Modest
<1>5. e \o u = u
  BY <1>2, EmptyBefore
<1>6. PICK f, c, v : f = filter /\ c = toClient /\ v = server
  OBVIOUS
<1>7. Accord(f, c, v, e) /\ Told(f, v, e, commands, size)
  BY <1>1, <1>2, <1>6 DEF AskInv
<1>8. Accord(f, c, v, e \o u)
  BY <1>2, <1>4, <1>7, AccordSaid
<1>9. Told(f, v, u, commands, size)
  BY <1>1, <1>6, <1>7, Zenon DEF Told
<1>10. /\ Accord(filter, toClient, server, toServer)'
       /\ Told(filter, server, toServer, commands, size)'
  BY <1>1, <1>3, <1>5, <1>6, <1>8, <1>9, Zenon
<1> QED
  BY <1>1, <1>10 DEF AskInv

(* A byte of the user says nothing of options.                             *)
LEMMA ByteSaid ==
  ASSUME NEW b \in Byte
  PROVE  Plain(Escape(<<b>>)) /\ NawsAsked \notin Said(Escape(<<b>>))
<1>1. PICK u : u = Escape(<<b>>) /\ u = IF b = IAC THEN <<IAC, IAC>> ELSE <<b>>
  BY EscapeByte
<1>2. Unit(u)
  BY <1>1, IacUnit, DataUnit
<1>3. u[1] # IAC \/ u[2] = IAC
  BY <1>1, TwoBytes, OneByte
<1>4. IAC # SB /\ IAC # DO
  BY DEF IAC, SB, DO
<1>5. u \in Tells
  BY <1>2, <1>3, <1>4 DEF Tells, Unit
<1>6. NawsAsked[1] = IAC /\ NawsAsked[2] = DO
  BY DEF NawsAsked
<1>7. u # NawsAsked
  BY <1>3, <1>4, <1>6
<1>8. Said(u) = {u} \cap Tells
  BY <1>2, SaidUnit
<1> QED
  BY <1>1, <1>2, <1>5, <1>7, <1>8, PlainUnit

(* The bytes that a command makes of it are written, and what is known of  *)
(* the size as well.                                                       *)
LEMMA AskWritten ==
  ASSUME TelnetTypeOK, ToTerminal, ToHost, AskInv, TakeCommand,
         NEW u \in Seq(Byte), Written(u), NawsAsked \notin Said(u),
         NEW g \in Filters, filter' = g, Resembles(filter, g),
         g.naws => Seen(server, toServer \o u) = g.size,
         g.size = Resizings[<<filter.size, Head(commands)>>]
  PROVE  AskInv'
<1>1. /\ link = "up" /\ commands # << >> /\ commands' = Tail(commands)
      /\ UNCHANGED <<size, toClient, server>>
  BY DEF TakeCommand
<1>2. \/ toServer' = toServer \o u /\ link' = "up"
      \/ link' = "ended"
  BY <1>1 DEF Written, Ends
<1>3. CASE link' = "ended"
  BY <1>3 DEF AskInv
<1>4. CASE toServer' = toServer \o u /\ link' = "up"
  <2>1. toServer \o u \in Seq(Byte)
    BY AskFacts
  <2>2. PICK f \in Filters, c \in Seq(Byte), v \in Servers, s \in Seq(Byte), t \in Seq(Byte) :
          f = filter /\ c = toClient /\ v = server /\ s = toServer /\ Whole(s) /\ t = s \o u
    BY <2>1, AskFacts
  <2>3. Accord(f, c, v, s) /\ Told(f, v, s, commands, size)
    BY <1>1, <2>2 DEF AskInv
  <2>4. Accord(f, c, v, t)
    BY <2>2, <2>3, AccordSaid
  <2>5. Accord(g, c, v, t)
    BY <2>2, <2>4, AccordResembles
  <2>6. Along(Resizings, f.size, commands) = size
    BY <2>3, Zenon DEF Told
  <2>7. Along(Resizings, f.size, commands) = Along(Resizings, g.size, commands')
    <3>1. f.size \in Sizes /\ commands \in Seq(Commands)
      BY <2>2, AskFacts
    <3>2. Along(Resizings, f.size, commands) =
            Along(Resizings, Resizings[<<f.size, Head(commands)>>], Tail(commands))
      BY <1>1, <3>1, ResizingsTake, AlongFirst
    <3> QED
      BY <1>1, <2>2, <3>2, Zenon
  <2>8. g.naws => Seen(v, t) = g.size
    BY <2>2, Zenon
  <2>9. Told(g, v, t, commands', size)
    BY <2>6, <2>7, <2>8, Zenon DEF Told
  <2>10. filter' = g /\ toClient' = c /\ toServer' = t /\ server' = v /\ size' = size
    BY <1>1, <1>4, <2>2
  <2>11. /\ Accord(filter, toClient, server, toServer)'
         /\ Told(filter, server, toServer, commands, size)'
    BY <2>5, <2>9, <2>10, Zenon
  <2> QED
    BY <1>4, <2>11 DEF AskInv
<1> QED
  BY <1>2, <1>3, <1>4

(* What the user typed is written.                                         *)
LEMMA AskTakesWrite ==
  ASSUME TelnetTypeOK, ToTerminal, ToHost, AskInv, TakeCommand, TakeWrite
  PROVE  AskInv'
<1>1. PICK c \in Commands : c = Head(commands)
  BY FirstCommand DEF TakeCommand
<1>2. PICK b \in Byte : c[2] = <<b>> /\ c[1] = "write"
  BY <1>1, CommandTypes, TypedAreBytes DEF TakeWrite
<1>3. PICK u \in Seq(Byte) : u = Escape(<<b>>)
  BY EscapeByte
<1>4. Plain(u) /\ NawsAsked \notin Said(u)
  BY <1>3, ByteSaid
<1>5. Written(u) /\ filter' = filter
  BY <1>1, <1>2, <1>3 DEF TakeWrite
<1>6. PICK f \in Filters, s \in Seq(Byte), v \in Servers :
        /\ f = filter /\ s = toServer /\ v = server /\ Whole(s) /\ f.replies = << >>
        /\ f.size \in Sizes
  BY AskFacts
<1>7. Resembles(f, f)
  BY <1>6, SaidNothing DEF Resembles
<1>8. f.naws => Seen(v, s) = f.size
  BY <1>6, Zenon DEF AskInv, Told, TakeCommand
<1>9. Seen(v, s \o u) = Seen(v, s)
  BY <1>4, <1>6, SeenPlain
<1>10. f.size = Resizings[<<f.size, c>>]
  BY <1>2, <1>6, ResizingsOf
<1>11. f.naws => Seen(server, toServer \o u) = f.size
  BY <1>6, <1>8, <1>9, Zenon
<1>12. filter' = f /\ Resembles(filter, f) /\ f.size = Resizings[<<filter.size, Head(commands)>>]
  BY <1>1, <1>5, <1>6, <1>7, <1>10, Zenon
<1> QED
  BY <1>4, <1>5, <1>11, <1>12, AskWritten

(* A filter whose answers were taken.                                      *)
Taken(f) == [f EXCEPT !.replies = << >>]

(* What the filter makes of another size.                                  *)
LEMMA ResizedShows ==
  ASSUME NEW f \in Filters, f.replies = << >>, NEW x \in Sizes, NEW h, h = Resized(f, x),
         NEW g, g = Taken(h)
  PROVE  /\ g.size = x /\ g.naws = f.naws /\ Resembles(f, g)
         /\ h.replies = << >> \/ h.replies = Payload(x)
         /\ h.replies = << >> => ~f.naws \/ x = f.size
<1>1. f.size = x \/ f.size # x
  OBVIOUS
<1>2. g.size = x /\ g.naws = f.naws /\ g.state = f.state /\ g.sub = f.sub /\ g.replies = << >>
  BY DEF Resized, Filters, Taken
<1>3. Resembles(f, g)
  BY <1>2, SaidNothing DEF Resembles
<1>4. Payload(x) # << >>
  <2>1. Unit(Payload(x))
    BY SizesAreBytes, PayloadOrder DEF Order
  <2> QED
    BY <2>1 DEF Unit, Messages
<1>5. CASE x = f.size
  BY <1>2, <1>3, <1>4, <1>5 DEF Resized
<1>6. CASE x # f.size
  <2>1. Resized(f, x).replies = IF f.naws THEN Payload(x) ELSE << >>
    BY <1>6 DEF Resized, Filters
  <2> QED
    BY <1>2, <1>3, <1>4, <1>6, <2>1
<1> QED
  BY <1>5, <1>6

(* A size is told to the server that has NAWS.                             *)
LEMMA AskTakesResize ==
  ASSUME TelnetTypeOK, ToTerminal, ToHost, AskInv, TakeCommand, TakeResize
  PROVE  AskInv'
<1>1. PICK c \in Commands : c = Head(commands)
  BY FirstCommand DEF TakeCommand
<1>2. PICK x \in Sizes : c[2] = x /\ c[1] = "resize"
  BY <1>1, CommandTypes DEF TakeResize
<1>3. PICK f \in Filters, s \in Seq(Byte), v \in Servers :
        /\ f = filter /\ s = toServer /\ v = server /\ Whole(s) /\ f.replies = << >>
        /\ f.size \in Sizes
  BY AskFacts
<1>4. PICK h : h = Resized(f, x)
  OBVIOUS
<1>5. PICK g \in Filters : g = Taken(h)
  BY <1>4, ResizedType DEF Taken
<1>6. PICK u : u = h.replies
  OBVIOUS
<1>7. Written(u) /\ filter' = g
  BY <1>6, <1>1, <1>2, <1>3, <1>4, <1>5 DEF TakeResize, Taken
<1>8. /\ g.size = x /\ g.naws = f.naws /\ Resembles(f, g)
      /\ u = << >> \/ u = Payload(x)
      /\ u = << >> => ~f.naws \/ x = f.size
  BY <1>6, <1>3, <1>4, <1>5, ResizedShows
<1>9. x \in Byte
  BY SizesAreBytes
<1>10. f.naws => Seen(v, s) = f.size
  BY <1>3, Zenon DEF AskInv, Told, TakeCommand
<1>11. u \in Seq(Byte) /\ NawsAsked \notin Said(u)
  BY <1>8, <1>9, NoBytes, PayloadType, SaidNothing, PayloadSaid DEF Modest
<1>12. g.naws => Seen(v, s \o u) = g.size
  <2>1. CASE u = Payload(x)
    BY <1>3, <1>8, <1>9, <2>1, SeenPayload
  <2>2. CASE u = << >>
    <3>1. s \o << >> = s
      BY <1>3 DEF Whole
    <3> QED
      BY <1>8, <1>10, <2>2, <3>1
  <2> QED
    BY <1>8, <2>1, <2>2
<1>13. g.size = Resizings[<<f.size, c>>]
  BY <1>2, <1>3, <1>8, ResizingsOf
<1>14. g.naws => Seen(server, toServer \o u) = g.size
  BY <1>3, <1>12, Zenon
<1>15. Resembles(filter, g) /\ g.size = Resizings[<<filter.size, Head(commands)>>]
  BY <1>1, <1>3, <1>8, <1>13, Zenon
<1> QED
  BY <1>7, <1>11, <1>14, <1>15, AskWritten

(* A chunk is read, and what the filter answered is written.               *)
LEMMA AskChunk ==
  ASSUME TelnetTypeOK, ToTerminal, ToHost, AskInv, ReadChunk
  PROVE  AskInv'
<1>1. toClient \in Seq(Byte) /\ link = "up" /\ UNCHANGED <<size, commands, server>>
  BY DEF TelnetTypeOK, ReadChunk
<1>2. PICK f \in Filters, s \in Seq(Byte), v \in Servers :
        f = filter /\ s = toServer /\ v = server /\ Whole(s) /\ f.replies = << >>
  BY AskFacts
<1>3. PICK n \in 1..Len(toClient) :
        LET h == Feed(filter, SubSeq(toClient, 1, n)) IN
          /\ toClient' = SubSeq(toClient, n + 1, Len(toClient))
          /\ filter' = [h EXCEPT !.replies = <<>>, !.app = <<>>]
          /\ Written(h.replies)
  BY DEF ReadChunk
<1>4. PICK a \in Seq(Byte), b \in Seq(Byte) :
        /\ a = SubSeq(toClient, 1, n) /\ b = SubSeq(toClient, n + 1, Len(toClient))
        /\ toClient = a \o b
  BY <1>1, ChunkTypes
<1>5. PICK h \in Filters : h = Feed(f, a)
  BY FeedType
<1>6. PICK g \in Filters : g = [h EXCEPT !.replies = <<>>, !.app = <<>>]
  BY FilterTaken
<1>7. filter' = g /\ toClient' = b /\ Written(h.replies)
  BY <1>2, <1>3, <1>4, <1>5, <1>6, Zenon
<1>8. Accord(f, a \o b, v, s) /\ Told(f, v, s, commands, size)
  BY <1>1, <1>2, <1>4 DEF AskInv
<1>9. Accord(g, b, v, s \o h.replies)
  BY <1>2, <1>5, <1>6, <1>8, AccordChunk
<1>10. h.naws => Seen(v, s \o h.replies) = f.size
  <2>1. f.naws => Seen(v, s) = f.size
    BY <1>8, Zenon DEF Told
  <2>2. Feed(f, a).naws => Seen(v, s \o Feed(f, a).replies) = f.size
    BY <1>2, <2>1, FeedSees
  <2> QED
    BY <1>5, <2>2, Zenon
<1>11. g.naws = h.naws /\ g.size = f.size
  <2>1. h.size = f.size
    BY <1>5, FeedSize
  <2>2. g.naws = h.naws /\ g.size = h.size
    BY <1>6 DEF Filters
  <2> QED
    BY <2>1, <2>2
<1>12. Told(g, v, s \o h.replies, commands, size)
  <2>1. g.naws => Seen(v, s \o h.replies) = g.size
    BY <1>10, <1>11
  <2>2. Along(Resizings, g.size, commands) = size
    BY <1>8, <1>11, Zenon DEF Told
  <2> QED
    BY <2>1, <2>2, Zenon DEF Told
<1>13. CASE link' = "ended"
  BY <1>13 DEF AskInv
<1>14. CASE toServer' = toServer \o h.replies /\ link' = "up"
  <2>1. toServer' = s \o h.replies /\ server' = v /\ filter' = g /\ toClient' = b
        /\ commands' = commands /\ size' = size
    BY <1>1, <1>2, <1>7, <1>14
  <2>2. /\ Accord(filter, toClient, server, toServer)'
        /\ Told(filter, server, toServer, commands, size)'
    BY <1>9, <1>12, <2>1, Zenon
  <2> QED
    BY <1>14, <2>2 DEF AskInv
<1> QED
  BY <1>1, <1>7, <1>13, <1>14 DEF Written, Ends

(* A server that has read knows what it knew.                              *)
LEMMA ServerReadShows ==
  ASSUME NEW v \in Servers, NEW w, w = [v EXCEPT !.at = << >>, !.replies = << >>]
  PROVE  /\ w \in Servers /\ w.pending = v.pending /\ w.on = v.on /\ w.doing = v.doing
         /\ w.seen = v.seen
<1>1. w \in Servers
  BY NoBytes, ServerRead
<1>2. w.pending = v.pending /\ w.on = v.on /\ w.doing = v.doing /\ w.seen = v.seen
  BY DEF Servers
<1> QED
  BY <1>1, <1>2

(* The server reads, and what it answers is on the way to the filter.      *)
LEMMA AskReads ==
  ASSUME TelnetTypeOK, ToTerminal, ToHost, AskInv, ServerReads
  PROVE  AskInv'
<1>1. PICK f \in Filters, c \in Seq(Byte), v \in Servers, s \in Seq(Byte) :
        /\ f = filter /\ c = toClient /\ v = server /\ s = toServer
        /\ v.replies = << >> /\ v.at = << >> /\ Whole(s)
  BY AskFacts
<1>2. Listens(Feed(f, c))
  BY <1>1, AskFacts
<1>3. PICK ms \in Seq(Messages) : ms = Collected(<< >>, s).msgs
  BY NoBytes, CollectedType
<1>4. PICK w \in Servers : w = Handled(v, ms)
  BY HandledType
<1>5. PICK y : y = [w EXCEPT !.at = << >>, !.replies = << >>]
  OBVIOUS
<1>6. /\ y \in Servers /\ y.pending = w.pending /\ y.on = w.on /\ y.doing = w.doing
      /\ y.seen = w.seen
  BY <1>5, ServerReadShows
<1>7. Collected(<< >>, s).at = << >>
  BY <1>1 DEF Whole
<1>8. /\ server' = [Handled(server, Collected(server.at, toServer).msgs) EXCEPT
                      !.at = Collected(server.at, toServer).at, !.replies = << >>]
      /\ toClient' = toClient \o Handled(server, Collected(server.at, toServer).msgs).replies
      /\ toServer' = << >> /\ UNCHANGED <<link, filter, size, commands>>
  BY DEF ServerReads, client
<1>9. /\ server' = y /\ toClient' = c \o w.replies
  BY <1>1, <1>3, <1>4, <1>5, <1>7, <1>8, Zenon
<1>10. CASE link # "ended"
  <2>1. Accord(f, c, v, s) /\ Told(f, v, s, commands, size)
    BY <1>1, <1>10, Zenon DEF AskInv
  <2>2. Accord(f, c \o w.replies, y, << >>)
    BY <1>1, <1>2, <1>3, <1>4, <1>6, <2>1, AccordReads
  <2>3. Seen(v, s) = w.seen
    BY <1>3, <1>4, Zenon DEF Seen
  <2>4. Seen(y, << >>) = y.seen
    <3>1. Handled(y, << >>) = y
      BY <1>6, HandledNothing
    <3>2. Collected(<< >>, << >>).msgs = << >>
      BY NothingCollected
    <3> QED
      BY <3>1, <3>2, Zenon DEF Seen
  <2>5. Seen(y, << >>) = Seen(v, s)
    BY <1>6, <2>3, <2>4, Zenon
  <2>6. Told(f, y, << >>, commands, size)
    BY <2>1, <2>5, Zenon DEF Told
  <2>7. /\ Accord(filter, toClient, server, toServer)'
        /\ Told(filter, server, toServer, commands, size)'
    BY <1>1, <1>8, <1>9, <2>2, <2>6, Zenon
  <2> QED
    BY <1>8, <1>10, <2>7 DEF AskInv
<1>11. link = "connecting" => ~filter.naws
  BY DEF AskInv
<1>12. link' = link /\ filter' = filter
  BY <1>8
<1>13. link' = "connecting" => ~filter'.naws
  BY <1>11, <1>12
<1> QED
  BY <1>10, <1>12, <1>13 DEF AskInv

(* The server asks, and nothing else changes.                              *)
LEMMA AskAsks ==
  ASSUME TelnetTypeOK, ToTerminal, ToHost, AskInv, ServerAsks, server' \in Servers
  PROVE  AskInv'
<1>1. PICK f \in Filters, c \in Seq(Byte), v \in Servers, s \in Seq(Byte) :
        f = filter /\ c = toClient /\ v = server /\ s = toServer /\ v.replies = << >>
  BY AskFacts
<1>2. Listens(Feed(f, c))
  BY <1>1, AskFacts
<1>3. /\ link = "up" /\ UNCHANGED <<link, filter, size, commands, toServer>>
      /\ \E d \in {DO, DONT, WILL, WONT}, o \in Asked :
           /\ MayAsk(d, o) /\ toClient' = toClient \o <<IAC, d, o>>
           /\ server' = CASE d \in {DO, WILL} ->
                               [server EXCEPT !.pending = @ \cup {<<d, o>>}]
                          [] d = DONT -> [server EXCEPT !.on = @ \ {o}]
                          [] d = WONT -> [server EXCEPT !.doing = @ \ {o}]
  BY DEF ServerAsks, client
<1>4. PICK d \in {DO, DONT, WILL, WONT}, o \in Byte :
        /\ MayAsk(d, o) /\ toClient' = toClient \o <<IAC, d, o>>
        /\ server' = CASE d \in {DO, WILL} ->
                            [server EXCEPT !.pending = @ \cup {<<d, o>>}]
                       [] d = DONT -> [server EXCEPT !.on = @ \ {o}]
                       [] d = WONT -> [server EXCEPT !.doing = @ \ {o}]
  BY <1>3, TelnetAssumption
<1>5. PICK y \in Servers : y = server'
  OBVIOUS
<1>6. y = AskedOf(v, d, o)
  BY <1>1, <1>4, <1>5 DEF AskedOf
<1>7. MayAskOf(v, d, o)
  BY <1>1, <1>4 DEF MayAskOf, MayAsk
<1>8. Accord(f, c, v, s) /\ Told(f, v, s, commands, size)
  BY <1>1, <1>3 DEF AskInv
<1>9. Accord(f, c \o <<IAC, d, o>>, y, s)
  BY <1>1, <1>2, <1>6, <1>7, <1>8, AccordAsks
<1>10. y.seen = v.seen
  <2>1. \A x : /\ [v EXCEPT !.pending = x].seen = v.seen
               /\ [v EXCEPT !.on = x].seen = v.seen /\ [v EXCEPT !.doing = x].seen = v.seen
    BY DEF Servers
  <2> QED
    BY <1>6, <2>1 DEF AskedOf, DO, DONT, WILL, WONT
<1>11. Seen(y, s) = Seen(v, s)
  BY <1>10, SeenSame
<1>12. Told(f, y, s, commands, size)
  BY <1>8, <1>11, Zenon DEF Told
<1>13. /\ Accord(filter, toClient, server, toServer)'
       /\ Told(filter, server, toServer, commands, size)'
  BY <1>1, <1>3, <1>4, <1>5, <1>9, <1>12, Zenon
<1> QED
  BY <1>3, <1>13 DEF AskInv

(* The host prints.                                                        *)
LEMMA AskPrints ==
  ASSUME TelnetTypeOK, ToTerminal, ToHost, AskInv, HostPrints
  PROVE  AskInv'
<1>1. PICK f \in Filters, c \in Seq(Byte), v \in Servers, s \in Seq(Byte) :
        f = filter /\ c = toClient /\ v = server /\ s = toServer
  BY AskFacts
<1>2. PICK g \in Filters : g = Feed(f, c)
  BY FeedType
<1>3. g.state = "Data"
  BY <1>1, <1>2, AskFacts DEF Listens
<1>4. /\ link = "up" /\ UNCHANGED <<link, filter, size, commands, toServer, server>>
      /\ \E b \in Typed : toClient' = toClient \o (IF b = IAC THEN <<IAC, IAC>> ELSE <<b>>)
  BY DEF HostPrints, client
<1>5. PICK b \in Byte : toClient' = toClient \o (IF b = IAC THEN <<IAC, IAC>> ELSE <<b>>)
  BY <1>4, TypedAreBytes
<1>6. PICK r \in Seq(Byte) : r = IF b = IAC THEN <<IAC, IAC>> ELSE <<b>>
  BY EscapeByte
<1>7. Accord(f, c, v, s) /\ Told(f, v, s, commands, size)
  BY <1>1, <1>4 DEF AskInv
<1>8. Accord(f, c \o r, v, s)
  BY <1>2, <1>3, <1>6, <1>7, AccordPrints
<1>9. Accord(filter, toClient, server, toServer)' /\ Told(filter, server, toServer, commands, size)'
  BY <1>1, <1>4, <1>5, <1>6, <1>7, <1>8, Zenon
<1> QED
  BY <1>4, <1>9 DEF AskInv

(* A command that waits makes another size of it, or leaves it.            *)
LEMMA AskQueued ==
  ASSUME TelnetTypeOK, ToTerminal, ToHost, AskInv,
         UNCHANGED <<link, filter, toClient, toServer, server>>,
         NEW c \in Commands, Queued(c), size' = IF c[1] = "resize" THEN c[2] ELSE size
  PROVE  AskInv'
<1>1. /\ commands \in Seq(Commands) /\ commands' = Append(commands, c) /\ filter.size \in Sizes
      /\ size \in Sizes /\ server \in Servers
  BY AskFacts DEF Queued
<1>2. Along(Resizings, filter.size, Append(commands, c)) =
        Resizings[<<Along(Resizings, filter.size, commands), c>>]
  BY <1>1, ResizingsTake, AlongAppend
<1>3. Resizings[<<size, c>>] = size'
  BY <1>1, ResizingsOf
<1>4. Along(Resizings, filter.size, commands) = size =>
        Along(Resizings, filter.size, commands') = size'
  BY <1>1, <1>2, <1>3, Zenon
<1>5. server' = server /\ server' \in Servers
  BY <1>1
<1> QED
  BY <1>4, <1>5, AskKept

(* Every step keeps what was agreed on.                                    *)
LEMMA AskStep ==
  ASSUME TelnetTypeOK, ToTerminal, ToHost, AskInv, TelnetNext
  PROVE  AskInv'
<1>1. server' \in Servers /\ server \in Servers
  BY TelnetStepTypes DEF TelnetTypeOK
<1>2. CASE ConnectFails \/ ReadFails \/ ReadEnd
  BY <1>2 DEF ConnectFails, ReadFails, ReadEnd, Ends, AskInv
<1>3. CASE TakeCommand
  <2>1. CASE TakeDisconnect
    BY <2>1 DEF TakeDisconnect, Ends, AskInv
  <2> QED
    BY <1>3, <2>1, AskTakesWrite, AskTakesResize DEF TakeCommand
<1>4. CASE HangsUp
  <2>1. /\ server'.pending = server.pending /\ server'.on = server.on
        /\ server'.doing = server.doing /\ server'.seen = server.seen
    BY <1>1, <1>4 DEF HangsUp, Servers
  <2>2. UNCHANGED <<link, filter, size, commands, toClient, toServer>>
    BY <1>4 DEF HangsUp, client
  <2> QED
    BY <1>1, <2>1, <2>2, AskKept
<1>5. CASE Types
  <2>1. PICK b \in Typed : Queued(<<"write", <<b>>>>)
    BY <1>5 DEF Types
  <2>2. PICK c \in Commands : c = <<"write", <<b>>>>
    BY DEF Commands
  <2>3. c[1] # "resize"
    BY <2>2
  <2> QED
    BY <1>5, <2>1, <2>2, <2>3, AskQueued DEF Types
<1>6. CASE Resizes
  <2>1. PICK x \in Sizes : Queued(<<"resize", x>>) /\ size' = x
    BY <1>6 DEF Resizes
  <2>2. PICK c \in Commands : c = <<"resize", x>>
    BY DEF Commands
  <2>3. c[1] = "resize" /\ c[2] = x
    BY <2>2
  <2> QED
    BY <1>6, <2>1, <2>2, <2>3, AskQueued DEF Resizes
<1>7. CASE Disconnects
  <2>1. PICK c \in Commands : c = <<"disconnect", 0>>
    BY DEF Commands
  <2>2. c[1] # "resize"
    BY <2>1
  <2> QED
    BY <1>7, <2>1, <2>2, AskQueued DEF Disconnects
<1> QED
  BY <1>1, <1>2, <1>3, <1>4, <1>5, <1>6, <1>7, AskChunk, AskConnects, AskReads, AskAsks, AskPrints
  DEF TelnetNext, ThreadStep

(* Nothing was asked at first.                                             *)
LEMMA AskBegins ==
  ASSUME TelnetInit
  PROVE  AskInv
<1>1. /\ toServer = << >> /\ toClient = << >> /\ commands = << >> /\ size \in Sizes
      /\ filter = NewFilter(size)
  BY DEF TelnetInit
<1>2. PICK f \in Filters, v \in Servers : f = filter /\ v = server
  BY TelnetInitTypes DEF TelnetTypeOK
<1>3. f.naws = FALSE /\ f.size = size /\ f.replies = << >>
  BY <1>1, <1>2 DEF NewFilter
<1>4. v.pending = {} /\ v.on = {} /\ v.doing = {}
  BY <1>2 DEF TelnetInit, NewServer
<1>5. PICK e \in Seq(Byte) : e = << >>
  BY NoBytes
<1>6. Feed(f, e) = f
  BY <1>5, FeedNothing
<1>7. Said(e) = {}
  BY <1>5, SaidNothing
<1>8. Agreed({}, {}, {}, {}, FALSE)
  BY DEF Agreed
<1>9. Agreed(v.pending, v.on, v.doing, Said(e) \cup Said(f.replies), f.naws)
  <2>1. {} \cup {} = {}
    OBVIOUS
  <2> QED
    BY <1>3, <1>4, <1>5, <1>7, <1>8, <2>1, Zenon
<1>10. Accord(f, e, v, e)
  BY <1>6, <1>9, Zenon DEF Accord
<1>11. PICK cs \in Seq(Commands) : cs = << >>
  BY <1>1, TelnetInitTypes DEF TelnetTypeOK
<1>12. Along(Resizings, f.size, cs) = f.size
  BY <1>1, <1>3, <1>11, ResizingsTake, AlongEmpty
<1>13. Told(f, v, e, cs, size)
  BY <1>3, <1>12, Zenon DEF Told
<1>14. Accord(filter, toClient, server, toServer) /\ Told(filter, server, toServer, commands, size)
  BY <1>1, <1>2, <1>5, <1>10, <1>11, <1>13, Zenon
<1> QED
  BY <1>2, <1>3, <1>14 DEF AskInv

(* They get along whatever the connection does.                            *)
LEMMA AsksHold == FarSpec => []AskInv
<1>1. FarInit => AskInv
  BY AskBegins DEF FarInit
<1>2. TelnetTypeOK /\ ToTerminal /\ ToHost /\ AskInv /\ [FarNext]_farVars => AskInv'
  <2> SUFFICES ASSUME TelnetTypeOK, ToTerminal, ToHost, AskInv, [FarNext]_farVars
               PROVE  AskInv'
    OBVIOUS
  <2>1. CASE UNCHANGED telnetVars
    <3>1. UNCHANGED <<link, filter, size, commands, toServer, toClient, server>>
      BY <2>1 DEF telnetVars, client
    <3> QED
      BY <3>1, AskFacts, AskKept
  <2> QED
    BY <2>1, AskStep DEF FarNext, farVars
<1> QED
  BY <1>1, <1>2, TelnetTypesHold, StreamsHold, PTL DEF FarSpec

(* When nothing is on the way, for every set of options the server has and *)
(* asks about and every order of its requests, the answers and the         *)
(* resizes: everything the server asked was answered ("everything else is  *)
(* refused", codec.rs), and a server that has NAWS knows the size of the   *)
(* terminal ("NAWS is sent when the server negotiated it", session.rs).    *)
THEOREM AsksGetAnswers == FarSpec => []AsksAreAnswered
<1>1. ASSUME TelnetTypeOK, ToTerminal, ToHost, AskInv, Settles
      PROVE  server.pending = {} /\ (NAWS \in server.on => server.seen = size)
  <2>1. /\ link = "up" /\ commands = << >> /\ toServer = << >> /\ toClient = << >>
    BY <1>1 DEF Settles
  <2>2. PICK f \in Filters, v \in Servers :
          f = filter /\ v = server /\ f.replies = << >> /\ f.size \in Sizes
    BY <1>1, AskFacts
  <2>3. PICK e \in Seq(Byte) : e = << >>
    BY NoBytes
  <2>4. PICK cs \in Seq(Commands) : cs = << >>
    BY <1>1, <2>1, AskFacts
  <2>5. Accord(f, e, v, e) /\ Told(f, v, e, cs, size)
    BY <1>1, <2>1, <2>2, <2>3, <2>4 DEF AskInv
  <2>6. Feed(f, e) = f
    BY <2>3, FeedNothing
  <2>7. Said(e) = {} /\ f.replies = e
    BY <2>2, <2>3, SaidNothing
  <2>8. PICK P, O, D, n : P = v.pending /\ O = v.on /\ D = v.doing /\ n = f.naws
    OBVIOUS
  <2>9. Agreed(P, O, D, Said(e) \cup Said(e), n)
    BY <2>5, <2>6, <2>7, <2>8, Zenon DEF Accord
  <2>10. Agreed(P, O, D, {}, n)
    <3>1. {} \cup {} = {}
      OBVIOUS
    <3> QED
      BY <2>7, <2>9, <3>1, Zenon
  <2>11. P = {} /\ (NAWS \in O => n)
    BY <2>10 DEF Agreed
  <2>12. Seen(v, e) = v.seen
    <3>1. Handled(v, << >>) = v
      BY HandledNothing
    <3>2. Collected(<< >>, << >>).msgs = << >>
      BY NothingCollected
    <3> QED
      BY <2>3, <3>1, <3>2, Zenon DEF Seen
  <2>13. Along(Resizings, f.size, cs) = f.size
    BY <2>2, <2>4, ResizingsTake, AlongEmpty
  <2>14. (n => v.seen = f.size) /\ f.size = size
    BY <2>5, <2>8, <2>12, <2>13, Zenon DEF Told
  <2> QED
    BY <2>2, <2>8, <2>11, <2>14
<1>2. TelnetTypeOK /\ ToTerminal /\ ToHost /\ AskInv => AsksAreAnswered
  BY <1>1 DEF AsksAreAnswered
<1> QED
  BY <1>2, TelnetTypesHold, StreamsHold, AsksHold, PTL
=============================================================================
