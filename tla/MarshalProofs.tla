--------------------------- MODULE MarshalProofs ---------------------------
(***************************************************************************)
(* Proofs, for every size of the bus, of the messages and of the            *)
(* parameters, of what Marshal states of arguments and results: MarshalInv  *)
(* is invariant, and each property of the marshal run follows from it.      *)
(***************************************************************************)
EXTENDS MarshalInv, SequenceTheorems, WellFoundedInduction, TLAPS

-----------------------------------------------------------------------------
(* The constants. *)

LEMMA OpsAre ==
    Ops = {"OPEN", "CONNECT", "READ_MSGS", "WRITE_MSGS", "START_PERIODIC_MSG",
           "STOP_PERIODIC_MSG", "START_MSG_FILTER", "STOP_MSG_FILTER",
           "SET_PROGRAMMING_VOLTAGE", "READ_VERSION", "DISCONNECT", "CLOSE",
           "RESET", "GET_LAST_ERROR", "GET_LAST_SOCKET_ERROR"} \cup IoctlOps
BY DEF Ops, FunctionOf

\* Every command has its function among the sixteen that loadDLL looks up.
LEMMA CalleeIsLoaded == ASSUME NEW op \in Ops PROVE Callee(op) \in Names
<1>1. \A n \in 1 .. 16 : Functions[n] \in Names
  BY DEF Functions, Names
<1>2. /\ Functions[1] = "PassThruConnect" /\ Functions[2] = "PassThruDisconnect"
      /\ Functions[3] = "PassThruReadMsgs" /\ Functions[4] = "PassThruWriteMsgs"
      /\ Functions[5] = "PassThruStartPeriodicMsg"
      /\ Functions[6] = "PassThruStopPeriodicMsg"
      /\ Functions[7] = "PassThruStartMsgFilter"
      /\ Functions[8] = "PassThruStopMsgFilter"
      /\ Functions[9] = "PassThruSetProgrammingVoltage"
      /\ Functions[10] = "PassThruReadVersion"
      /\ Functions[11] = "PassThruGetLastError"
      /\ Functions[12] = "PassThruIoctl" /\ Functions[13] = "PassThruOpen"
      /\ Functions[14] = "PassThruClose" /\ Functions[15] = "PassThruReset"
      /\ Functions[16] = "PassThruGetLastSocketError"
  BY DEF Functions
<1>3. CASE op \in IoctlOps
  BY <1>1, <1>2, <1>3 DEF Callee
<1>4. CASE op \notin IoctlOps
  <2>1. Callee(op) = FunctionOf[op]
    BY <1>4 DEF Callee
  <2> QED BY <1>1, <1>2, <1>4, <2>1, OpsAre DEF FunctionOf
<1> QED BY <1>3, <1>4

LEMMA DatumHas == Nat \subseteq Datum /\ {Name, Null, Old, Pointer} \subseteq Datum
BY DEF Datum

-----------------------------------------------------------------------------
(* Sequences: prefixes, overlays and the sums of at most three numbers. *)

LEMMA FirstIs ==
    ASSUME NEW S, NEW s \in Seq(S), NEW n \in 0 .. Len(s)
    PROVE  /\ First(s, n) \in Seq(S) /\ Len(First(s, n)) = n
           /\ First(s, n) = [i \in 1 .. n |-> s[i]]
           /\ \A i \in 1 .. n : First(s, n)[i] = s[i]
BY SMT DEF First

LEMMA WholeFirst == ASSUME NEW S, NEW s \in Seq(S) PROVE First(s, Len(s)) = s
BY SMT DEF First

LEMMA OverlayIs ==
    ASSUME NEW S, NEW s \in Seq(S), NEW t \in Seq(S)
    PROVE  /\ Overlay(s, t) \in Seq(S) /\ Len(Overlay(s, t)) = Len(s)
           /\ Overlay(s, t) = [i \in 1 .. Len(s) |-> IF i <= Len(t) THEN t[i] ELSE s[i]]
BY SMT DEF Overlay

LEMMA OverlayEmpty == ASSUME NEW S, NEW s \in Seq(S) PROVE Overlay(s, <<>>) = s
BY SMT DEF Overlay

LEMMA IsSequence ==
    ASSUME NEW S, NEW m \in Nat, NEW f \in [1 .. m -> S]
    PROVE  f \in Seq(S) /\ Len(f) = m
BY SMT

LEMMA Singleton ==
    ASSUME NEW S, NEW x \in S PROVE <<x>> \in Seq(S) /\ Len(<<x>>) = 1 /\ <<x>>[1] = x
OBVIOUS

LEMMA SeqWidens ==
    ASSUME NEW S, NEW T, S \subseteq T, NEW s \in Seq(S) PROVE s \in Seq(T)
BY SMT

LEMMA IsFunction ==
    ASSUME NEW S, NEW s \in Seq(S) PROVE s \in [1 .. Len(s) -> S]
BY SMT

\* The function that Sum chooses exists, for it can be written down.
LEMMA SumIs ==
    ASSUME NEW s \in Seq(Nat), Len(s) \in 1 .. 3
    PROVE  Sum(s) = s[1] + (IF Len(s) > 1 THEN s[2] ELSE 0)
                         + (IF Len(s) > 2 THEN s[3] ELSE 0)
<1> DEFINE Step(f) == [n \in 0 .. Len(s) |-> IF n = 0 THEN 0 ELSE f[n - 1] + s[n]]
           g == [n \in 0 .. Len(s) |->
                    IF n = 0 THEN 0
                    ELSE s[1] + (IF n > 1 THEN s[2] ELSE 0) + (IF n > 2 THEN s[3] ELSE 0)]
           sum == CHOOSE f : f = Step(f)
<1>0. Len(s) = 1 \/ Len(s) = 2 \/ Len(s) = 3
  <2>1. \A l \in 1 .. 3 : l = 1 \/ l = 2 \/ l = 3
    OBVIOUS
  <2> QED BY <2>1
<1>t. s[1] \in Nat /\ (Len(s) > 1 => s[2] \in Nat) /\ (Len(s) > 2 => s[3] \in Nat)
  OBVIOUS
<1>1. g = Step(g)
  <2>2. ASSUME NEW n \in 0 .. Len(s)
        PROVE  g[n] = IF n = 0 THEN 0 ELSE g[n - 1] + s[n]
    <3>1. CASE n = 0
      BY <3>1
    <3>2. CASE n = 1
      BY <1>t, <3>2
    <3>3. CASE n = 2
      BY <1>t, <3>3
    <3>4. CASE n = 3
      BY <1>t, <3>4
    <3>5. n \in Nat /\ n <= 3
      <4>1. \A l \in 1 .. 3 : \A m \in 0 .. l : m \in Nat /\ m <= 3
        OBVIOUS
      <4> HIDE DEF g
      <4> QED BY <4>1
    <3>6. n = 0 \/ n = 1 \/ n = 2 \/ n = 3
      BY ONLY <3>5
    <3> HIDE DEF g
    <3> QED BY <3>1, <3>2, <3>3, <3>4, <3>6
  <2> QED BY <2>2
<1>2. sum = Step(sum)
  BY <1>1
<1>3. Sum(s) = sum[Len(s)]
  BY DEF Sum
<1> HIDE DEF sum
<1>4. \A n \in 0 .. Len(s) : sum[n] = IF n = 0 THEN 0 ELSE sum[n - 1] + s[n]
  BY <1>2
<1>5. sum[0] = 0 /\ sum[1] = s[1]
  BY <1>4
<1>6. CASE Len(s) = 1
  BY <1>t, <1>3, <1>5, <1>6
<1>7. CASE Len(s) = 2
  <2>1. sum[2] = s[1] + s[2]
    BY <1>4, <1>5, <1>7
  <2> QED BY <1>t, <1>3, <1>7, <2>1
<1>8. CASE Len(s) = 3
  <2>1. sum[2] = s[1] + s[2]
    BY <1>4, <1>5, <1>8
  <2> QED BY <1>t, <1>3, <1>4, <1>8, <2>1
<1> QED BY <1>0, <1>6, <1>7, <1>8

-----------------------------------------------------------------------------
(* The lists that calls come with. *)

LEMMA ListsAre ==
    ASSUME NEW S, NEW n \in Nat, NEW s \in Lists(S, n)
    PROVE  s \in Seq(S) /\ Len(s) \in 1 .. n
<1>1. PICK m \in 1 .. n : s \in [1 .. m -> S]
  BY DEF Lists
<1> QED BY <1>1, IsSequence

LEMMA IoctlArgsAre ==
    /\ IoctlArgs("SET_CONFIG") = {<<v, NoOut>> : v \in Lists(Words, Params)}
    /\ IoctlArgs("GET_CONFIG") = {<<v, ListOut(v)>> : v \in Lists({Old}, Params)}
    /\ IoctlArgs("FIVE_BAUD_INIT") = {<<<<1>>, ListOut(<<Old, Old>>)>>}
    /\ IoctlArgs("FAST_INIT") = {<<m, ListOut(<<Old>>)>> : m \in {<<1>>, <<Null>>}}
    /\ \A op \in Arrays \ {"FIVE_BAUD_INIT"} :
           IoctlArgs(op) = {<<b, NoOut>> : b \in Lists({1}, PtrSize)}
    /\ \A op \in Volts \cup Clears : IoctlArgs(op) = {<<<<>>, NoOut>>}
<1>1. IoctlArgs("SET_CONFIG") = {<<v, NoOut>> : v \in Lists(Words, Params)}
  BY Zenon DEF IoctlArgs, Arrays
<1>2. IoctlArgs("GET_CONFIG") = {<<v, ListOut(v)>> : v \in Lists({Old}, Params)}
  BY Zenon DEF IoctlArgs, Arrays
<1>3. IoctlArgs("FIVE_BAUD_INIT") = {<<<<1>>, ListOut(<<Old, Old>>)>>}
  BY Zenon DEF IoctlArgs, Arrays
<1>4. IoctlArgs("FAST_INIT") = {<<m, ListOut(<<Old>>)>> : m \in {<<1>>, <<Null>>}}
  BY Zenon DEF IoctlArgs, Arrays
<1>5. ASSUME NEW op \in Arrays \ {"FIVE_BAUD_INIT"}
      PROVE  IoctlArgs(op) = {<<b, NoOut>> : b \in Lists({1}, PtrSize)}
  BY <1>5, Zenon DEF IoctlArgs, Arrays
<1>6. ASSUME NEW op \in Volts \cup Clears PROVE IoctlArgs(op) = {<<<<>>, NoOut>>}
  <2>1. /\ op \notin Arrays
        /\ op \notin {"SET_CONFIG", "GET_CONFIG", "FIVE_BAUD_INIT", "FAST_INIT"}
    BY DEF Volts, Clears, Arrays, Configs
  <2> QED BY <2>1, Zenon DEF IoctlArgs
<1> QED BY <1>1, <1>2, <1>3, <1>4, <1>5, <1>6

LEMMA GivenAre ==
    /\ Given("OPEN") = {<<Null>>, <<Name>>}
    /\ Given("START_MSG_FILTER") = [1 .. 3 -> {1, 2, Null}]
    /\ Given("READ_MSGS") = {First(buf, n) : n \in 1 .. MaxMsgs}
    /\ Given("WRITE_MSGS") = Lists({1, 2}, MaxMsgs)
    /\ Given("START_PERIODIC_MSG") = {<<1>>, <<2>>}
    /\ \A op \in IoctlOps : Given(op) = {a[1] : a \in IoctlArgs(op)}
    /\ \A op \in Ops \ ({"OPEN", "START_MSG_FILTER", "READ_MSGS", "WRITE_MSGS",
                         "START_PERIODIC_MSG"} \cup IoctlOps) : Given(op) = {<<>>}
<1>1. /\ Given("OPEN") = {<<Null>>, <<Name>>}
      /\ Given("START_MSG_FILTER") = [1 .. 3 -> {1, 2, Null}]
      /\ Given("READ_MSGS") = {First(buf, n) : n \in 1 .. MaxMsgs}
      /\ Given("WRITE_MSGS") = Lists({1, 2}, MaxMsgs)
      /\ Given("START_PERIODIC_MSG") = {<<1>>, <<2>>}
  BY Zenon DEF Given, IoctlOps
<1>2. ASSUME NEW op \in IoctlOps PROVE Given(op) = {a[1] : a \in IoctlArgs(op)}
  <2>1. op \notin {"OPEN", "START_MSG_FILTER", "READ_MSGS", "WRITE_MSGS",
                   "START_PERIODIC_MSG"}
    BY DEF IoctlOps
  <2> QED BY <2>1, Zenon DEF Given
<1>3. ASSUME NEW op \in Ops \ ({"OPEN", "START_MSG_FILTER", "READ_MSGS", "WRITE_MSGS",
                                "START_PERIODIC_MSG"} \cup IoctlOps)
      PROVE  Given(op) = {<<>>}
  BY Zenon DEF Given
<1> QED BY <1>1, <1>2, <1>3

\* What a call of op comes with, as far as the handlers and the properties
\* depend on it.
Shaped(op, s) ==
    /\ s \in Seq(Datum)
    /\ op = "OPEN" => Len(s) = 1
    /\ op = "START_MSG_FILTER" => Len(s) = 3 /\ s \in [1 .. 3 -> {1, 2, Null}]
    /\ op = "READ_MSGS" => Len(s) \in 1 .. MaxMsgs /\ s = First(buf, Len(s))
    /\ op = "START_PERIODIC_MSG" => Len(s) = 1 /\ s[1] \in {1, 2}
    /\ op = "SET_CONFIG" => s \in Seq(Words) /\ Len(s) \in 1 .. Params
    /\ op = "GET_CONFIG" => s \in Seq({Old}) /\ Len(s) \in 1 .. Params
    /\ op = "FIVE_BAUD_INIT" => s = <<1>>
    /\ op = "FAST_INIT" => s = <<1>> \/ s = <<Null>>
    /\ op \notin {"OPEN", "START_MSG_FILTER", "READ_MSGS", "WRITE_MSGS",
                  "START_PERIODIC_MSG", "FAST_INIT"} \cup Configs \cup Arrays
         => s = <<>>

LEMMA GivenIs ==
    ASSUME buf \in [1 .. MaxMsgs -> Datum], NEW op \in Ops, NEW s \in Given(op)
    PROVE  Shaped(op, s)
<1> USE DatumHas
<1>1. CASE op = "OPEN"
  <2>1. s = <<Null>> \/ s = <<Name>>
    BY <1>1, GivenAre
  <2>2. s \in Seq(Datum) /\ Len(s) = 1
    BY <2>1, Singleton
  <2> QED BY <1>1, <2>2 DEF Shaped, Configs, Arrays
<1>2. CASE op = "START_MSG_FILTER"
  <2>1. s \in [1 .. 3 -> {1, 2, Null}]
    BY <1>2, GivenAre
  <2>2. s \in Seq({1, 2, Null}) /\ Len(s) = 3
    <3> DEFINE S == {1, 2, Null}
    <3>1. s \in [1 .. 3 -> S]
      BY <2>1
    <3> HIDE DEF S
    <3>2. PICK m \in Nat : m = 3
      OBVIOUS
    <3>3. s \in [1 .. m -> S]
      BY <3>1, <3>2
    <3>4. s \in Seq(S) /\ Len(s) = m
      BY <3>3, IsSequence
    <3> QED BY <3>2, <3>4 DEF S
  <2>a. s \in Seq(Datum)
    BY <2>2, SeqWidens
  <2> QED BY <1>2, <2>1, <2>2, <2>a DEF Shaped, Configs, Arrays
<1>3. CASE op = "READ_MSGS"
  <2>1. buf \in Seq(Datum) /\ Len(buf) = MaxMsgs
    BY MarshalAssumption, IsSequence
  <2>2. PICK n \in 1 .. MaxMsgs : s = First(buf, n)
    BY <1>3, GivenAre, Zenon
  <2>3. First(buf, n) \in Seq(Datum) /\ Len(First(buf, n)) = n
    BY <2>1, <2>2, FirstIs, MarshalAssumption
  <2> QED BY <1>3, <2>2, <2>3 DEF Shaped, Configs, Arrays
<1>4. CASE op = "WRITE_MSGS"
  <2>1. s \in Seq({1, 2})
    BY <1>4, GivenAre, ListsAre, MarshalAssumption
  <2>2. s \in Seq(Datum)
    BY <2>1
  <2> QED BY <1>4, <2>2 DEF Shaped, Configs, Arrays
<1>5. CASE op = "START_PERIODIC_MSG"
  <2>1. s = <<1>> \/ s = <<2>>
    BY <1>5, GivenAre
  <2>2. s \in Seq(Datum) /\ Len(s) = 1 /\ s[1] \in {1, 2}
    BY <2>1
  <2> QED BY <1>5, <2>2 DEF Shaped, Configs, Arrays
<1>6. CASE op \in IoctlOps
  <2>1. PICK a \in IoctlArgs(op) : s = a[1]
    BY <1>6, GivenAre, Zenon
  <2>2. CASE op = "SET_CONFIG"
    <3>1. s \in Lists(Words, Params)
      BY <2>1, <2>2, IoctlArgsAre
    <3>2. s \in Seq(Words) /\ Len(s) \in 1 .. Params
      BY <3>1, ListsAre, MarshalAssumption
    <3>3. s \in Seq(Datum)
      BY <3>2, SeqWidens, MarshalAssumption
    <3> QED BY <2>2, <3>2, <3>3 DEF Shaped, Configs, Arrays
  <2>3. CASE op = "GET_CONFIG"
    <3>1. PICK v \in Lists({Old}, Params) : a = <<v, ListOut(v)>>
      BY <2>3, IoctlArgsAre, Zenon
    <3>2. s = v
      BY <2>1, <3>1
    <3>3. s \in Seq({Old}) /\ Len(s) \in 1 .. Params
      BY <3>2, ListsAre, MarshalAssumption
    <3>4. s \in Seq(Datum)
      BY <3>3
    <3> QED BY <2>3, <3>3, <3>4 DEF Shaped, Configs, Arrays
  <2>4. CASE op = "FIVE_BAUD_INIT"
    <3>1. s = <<1>>
      BY <2>1, <2>4, IoctlArgsAre
    <3> QED BY <2>4, <3>1 DEF Shaped, Configs, Arrays
  <2>5. CASE op = "FAST_INIT"
    <3>1. s = <<1>> \/ s = <<Null>>
      BY <2>1, <2>5, IoctlArgsAre
    <3>2. s \in Seq(Datum)
      BY <3>1, Singleton
    <3> QED BY <2>5, <3>1, <3>2 DEF Shaped, Configs, Arrays
  <2>6. CASE op \in Arrays \ {"FIVE_BAUD_INIT"}
    <3>1. s \in Lists({1}, PtrSize)
      BY <2>1, <2>6, IoctlArgsAre
    <3>2. s \in Seq({1}) /\ s \in Seq(Datum)
      BY <3>1, ListsAre, MarshalAssumption
    <3> QED BY <2>6, <3>2 DEF Shaped, Configs, Arrays
  <2>7. CASE op \in Volts \cup Clears
    <3>1. s = <<>>
      BY <2>1, <2>7, IoctlArgsAre
    <3> QED BY <2>7, <3>1 DEF Shaped, Volts, Clears, IoctlOps, Configs, Arrays
  <2> QED BY <1>6, <2>2, <2>3, <2>4, <2>5, <2>6, <2>7
          DEF IoctlOps, Arrays, Volts, Clears, Configs
<1>7. CASE op \notin {"OPEN", "START_MSG_FILTER", "READ_MSGS", "WRITE_MSGS",
                      "START_PERIODIC_MSG"} \cup IoctlOps
  <2>1. s = <<>>
    BY <1>7, GivenAre
  <2> QED BY <1>7, <2>1 DEF Shaped, Configs, Arrays, IoctlOps
<1> QED BY <1>1, <1>2, <1>3, <1>4, <1>5, <1>6, <1>7

-----------------------------------------------------------------------------
(* The client's functions. *)

\* What every one of them does.
Asked ==
    /\ main = "serve" /\ at = "app" /\ at' = "server"
    /\ calls < MaxCalls /\ calls' = calls + 1
    /\ Sent'
    /\ UNCHANGED <<loaderVars, args, ans, reply, appVars, libVars>>

LEMMA AskDoes ==
    ASSUME NEW op \in Ops, NEW word \in Nat, NEW list \in Given(op), NEW wire, NEW out,
           wire = Wire([op |-> op, word |-> word, list |-> list, out |-> out]),
           out = OutOf([op |-> op, word |-> word, list |-> list, out |-> out]),
           Ask(op, word, list, wire, out)
    PROVE  Asked
<1> DEFINE c == [op |-> op, word |-> word, list |-> list, out |-> out]
<1>1. call' = c /\ cmd' = [op |-> op, word |-> word, list |-> wire] /\ buf' = buf
  BY DEF Ask, appVars
<1>2. Given(op)' = Given(op)
  BY <1>1 DEF Given, First
<1>3. Wire(c) = wire /\ OutOf(c) = out /\ c.op = op /\ c.word = word /\ c.list = list
  OBVIOUS
<1> HIDE DEF c
<1>4. Wire(call)' = wire /\ OutOf(call)' = out
  BY <1>1, <1>3 DEF Wire, OutOf
<1>5. Sent'
  <2>1. call'.op = op /\ call'.word = word /\ call'.list = list
    BY <1>1, <1>3
  <2>2. (call' = [op |-> call'.op, word |-> call'.word, list |-> call'.list, out |-> OutOf(call)'])
    BY <1>1, <1>4, <2>1 DEF c
  <2>3. Given(call.op)' = Given(op)
    BY <1>2, <2>1 DEF Given
  <2> QED BY <1>1, <1>4, <2>1, <2>2, <2>3 DEF Sent
<1> QED BY <1>5 DEF Asked, Ask

\* Where a list goes out as it is, and nothing comes back but a word.
LEMMA WireSame ==
    ASSUME NEW c, c.op \notin {"START_MSG_FILTER", "ADD_TO_FUNCT_MSG_LOOKUP_TABLE"}
    PROVE  Wire(c) = c.list
BY DEF Wire

LEMMA OutNone ==
    ASSUME NEW c, c.op \notin {"READ_MSGS", "WRITE_MSGS", "GET_CONFIG",
                               "FIVE_BAUD_INIT", "FAST_INIT"}
    PROVE  OutOf(c) = NoOut
BY DEF OutOf

LEMMA AskPlainly ==
    ASSUME NEW op \in Ops, NEW word \in Nat, NEW list \in Given(op),
           op \notin {"START_MSG_FILTER", "ADD_TO_FUNCT_MSG_LOOKUP_TABLE",
                      "READ_MSGS", "WRITE_MSGS", "GET_CONFIG",
                      "FIVE_BAUD_INIT", "FAST_INIT"},
           Ask(op, word, list, list, NoOut)
    PROVE  Asked
<1> DEFINE c == [op |-> op, word |-> word, list |-> list, out |-> NoOut]
<1>1. c.op = op /\ c.list = list
  OBVIOUS
<1>2. Wire(c) = list /\ OutOf(c) = NoOut
  BY <1>1, WireSame, OutNone
<1> QED BY <1>2, AskDoes

LEMMA NumbersAre ==
    0 \in Nat /\ Words \subseteq Nat /\ FilterTypes \subseteq Nat /\ 1 .. MaxMsgs \subseteq Nat
BY MarshalAssumption DEF FilterTypes

LEMMA MakeCallDoes ==
    ASSUME TypeOK, MakeCall
    PROVE  Asked
<1> USE NumbersAre
<1>1. CASE PassThruOpen
  <2>1. PICK name \in {Null, Name} : Ask("OPEN", 0, <<name>>, <<name>>, NoOut)
    BY <1>1 DEF PassThruOpen
  <2>2. <<name>> \in Given("OPEN") /\ "OPEN" \in Ops
    BY GivenAre, OpsAre
  <2> QED BY <2>1, <2>2, AskPlainly
<1>2. CASE PassThruStartMsgFilter
  <2>1. PICK type \in FilterTypes, m \in [1 .. 3 -> {1, 2, Null}] :
            Ask("START_MSG_FILTER", type, m,
                [i \in 1 .. 3 |-> IF m[i] = Null THEN 0 ELSE m[i]], NoOut)
    BY <1>2 DEF PassThruStartMsgFilter
  <2>2. m \in Given("START_MSG_FILTER") /\ "START_MSG_FILTER" \in Ops /\ type \in Nat
    BY GivenAre, OpsAre
  <2> DEFINE c == [op |-> "START_MSG_FILTER", word |-> type, list |-> m, out |-> NoOut]
  <2>3. c.op = "START_MSG_FILTER" /\ c.list = m
    OBVIOUS
  <2>4. Wire(c) = [i \in 1 .. 3 |-> IF m[i] = Null THEN 0 ELSE m[i]] /\ OutOf(c) = NoOut
    BY <2>3, OutNone DEF Wire
  <2> QED BY <2>1, <2>2, <2>4, AskDoes
<1>3. CASE \/ PassThruStopMsgFilter \/ PassThruSetProgrammingVoltage
           \/ PassThruReadVersion \/ PassThruConnect \/ PassThruDisconnect
           \/ PassThruClose
  <2>1. PICK op \in {"STOP_MSG_FILTER", "SET_PROGRAMMING_VOLTAGE", "READ_VERSION",
                     "CONNECT", "DISCONNECT", "CLOSE"}, w \in Words :
            Ask(op, w, <<>>, <<>>, NoOut)
    BY <1>3 DEF PassThruStopMsgFilter, PassThruSetProgrammingVoltage,
                PassThruReadVersion, PassThruConnect, PassThruDisconnect, PassThruClose
  <2>2. op \in Ops \ IoctlOps
    BY OpsAre DEF IoctlOps
  <2>3. <<>> \in Given(op)
    BY <2>2, GivenAre
  <2> QED BY <2>1, <2>2, <2>3, AskPlainly DEF IoctlOps
<1>4. CASE PassThruGetLastError \/ PassThruGetLastSocketError \/ PassThruReset
  <2>1. PICK op \in {"GET_LAST_ERROR", "GET_LAST_SOCKET_ERROR", "RESET"} :
            Ask(op, 0, <<>>, <<>>, NoOut)
    BY <1>4 DEF PassThruGetLastError, PassThruGetLastSocketError, PassThruReset
  <2>2. op \in Ops \ IoctlOps
    BY OpsAre DEF IoctlOps
  <2>3. <<>> \in Given(op)
    BY <2>2, GivenAre
  <2> QED BY <2>1, <2>2, <2>3, AskPlainly DEF IoctlOps
<1>5. CASE PassThruReadMsgs
  <2>1. PICK n \in 1 .. MaxMsgs :
            Ask("READ_MSGS", 0, First(buf, n), First(buf, n),
                [CountOut(n) EXCEPT !.list = First(buf, n)])
    BY <1>5 DEF PassThruReadMsgs
  <2>2. First(buf, n) \in Given("READ_MSGS") /\ "READ_MSGS" \in Ops
    BY GivenAre, OpsAre
  <2>3. Len(First(buf, n)) = n
    <3>1. buf \in Seq(Datum) /\ Len(buf) = MaxMsgs
      BY IsSequence, MarshalAssumption DEF TypeOK
    <3> QED BY <3>1, FirstIs, MarshalAssumption
  <2> DEFINE out == [CountOut(n) EXCEPT !.list = First(buf, n)]
             c == [op |-> "READ_MSGS", word |-> 0, list |-> First(buf, n), out |-> out]
  <2>4. c.op = "READ_MSGS" /\ c.list = First(buf, n)
    OBVIOUS
  <2>5. Wire(c) = First(buf, n) /\ OutOf(c) = out
    BY <2>3, <2>4, WireSame DEF OutOf
  <2> HIDE DEF out
  <2> QED BY <2>1, <2>2, <2>5, AskDoes DEF out
<1>6. CASE PassThruWriteMsgs
  <2>1. PICK m \in Lists({1, 2}, MaxMsgs) : Ask("WRITE_MSGS", 0, m, m, CountOut(Len(m)))
    BY <1>6 DEF PassThruWriteMsgs
  <2>2. m \in Given("WRITE_MSGS") /\ "WRITE_MSGS" \in Ops
    BY GivenAre, OpsAre
  <2> DEFINE c == [op |-> "WRITE_MSGS", word |-> 0, list |-> m, out |-> CountOut(Len(m))]
  <2>3. c.op = "WRITE_MSGS" /\ c.list = m
    OBVIOUS
  <2>4. Wire(c) = m /\ OutOf(c) = CountOut(Len(m))
    BY <2>3, WireSame DEF OutOf
  <2> QED BY <2>1, <2>2, <2>4, AskDoes
<1>7. CASE PassThruStartPeriodicMsg
  <2>1. PICK m \in {1, 2} : Ask("START_PERIODIC_MSG", 0, <<m>>, <<m>>, NoOut)
    BY <1>7 DEF PassThruStartPeriodicMsg
  <2>2. <<m>> \in Given("START_PERIODIC_MSG") /\ "START_PERIODIC_MSG" \in Ops
    BY GivenAre, OpsAre
  <2> QED BY <2>1, <2>2, AskPlainly
<1>8. CASE PassThruStopPeriodicMsg
  <2>1. PICK h \in handles : Ask("STOP_PERIODIC_MSG", h[1], <<>>, <<>>, NoOut)
    BY <1>8 DEF PassThruStopPeriodicMsg
  <2>2. h[1] \in Nat
    BY DEF TypeOK
  <2>3. "STOP_PERIODIC_MSG" \in Ops \ IoctlOps
    BY OpsAre DEF IoctlOps
  <2>4. <<>> \in Given("STOP_PERIODIC_MSG")
    BY <2>3, GivenAre
  <2> QED BY <2>1, <2>2, <2>3, <2>4, AskPlainly
<1>9. CASE PassThruIoctl
  <2> DEFINE wire(op, v) == IF op = "ADD_TO_FUNCT_MSG_LOOKUP_TABLE"
                              THEN [b \in 1 .. Len(v) |-> Pointer] ELSE v
  <2>1. PICK op \in IoctlOps : \E a \in IoctlArgs(op) : Ask(op, 0, a[1], wire(op, a[1]), a[2])
    BY <1>9 DEF PassThruIoctl
  <2>2. PICK a \in IoctlArgs(op) : Ask(op, 0, a[1], wire(op, a[1]), a[2])
    BY <2>1
  <2>3. a[1] \in Given(op) /\ op \in Ops
    BY GivenAre, OpsAre
  <2> DEFINE c == [op |-> op, word |-> 0, list |-> a[1], out |-> a[2]]
  <2>4. c.op = op /\ c.list = a[1]
    OBVIOUS
  <2> HIDE DEF c
  <2>5. Wire(c) = wire(op, a[1])
    BY <2>4, WireSame DEF Wire, IoctlOps
  <2>6. OutOf(c) = a[2]
    <3>1. CASE op = "GET_CONFIG"
      <4>1. PICK v \in Lists({Old}, Params) : a = <<v, ListOut(v)>>
        BY <3>1, IoctlArgsAre, Zenon
      <4>2. a[1] = v /\ a[2] = ListOut(v)
        BY <4>1
      <4> QED BY <2>4, <3>1, <4>2 DEF OutOf
    <3>2. CASE op = "FIVE_BAUD_INIT"
      <4>1. a = <<<<1>>, ListOut(<<Old, Old>>)>>
        BY <3>2, IoctlArgsAre, Zenon
      <4> QED BY <2>4, <3>2, <4>1 DEF OutOf
    <3>3. CASE op = "FAST_INIT"
      <4>1. PICK m \in {<<1>>, <<Null>>} : a = <<m, ListOut(<<Old>>)>>
        BY <3>3, IoctlArgsAre, Zenon
      <4>2. a[2] = ListOut(<<Old>>)
        BY <4>1
      <4> QED BY <2>4, <3>3, <4>2 DEF OutOf
    <3>4. CASE op \in {"SET_CONFIG"} \cup (Arrays \ {"FIVE_BAUD_INIT"}) \cup Volts \cup Clears
      <4>1. a[2] = NoOut
        <5>1. CASE op = "SET_CONFIG"
          <6>1. PICK v \in Lists(Words, Params) : a = <<v, NoOut>>
            BY <5>1, IoctlArgsAre, Zenon
          <6> QED BY <6>1
        <5>2. CASE op \in Arrays \ {"FIVE_BAUD_INIT"}
          <6>1. IoctlArgs(op) = {<<b, NoOut>> : b \in Lists({1}, PtrSize)}
            BY <5>2, IoctlArgsAre
          <6>2. PICK v \in Lists({1}, PtrSize) : a = <<v, NoOut>>
            BY <6>1, Zenon
          <6> QED BY <6>2
        <5>3. CASE op \in Volts \cup Clears
          <6>1. a = <<<<>>, NoOut>>
            BY <5>3, IoctlArgsAre, Zenon
          <6> QED BY <6>1
        <5> QED BY <3>4, <5>1, <5>2, <5>3
      <4>2. c.op \notin {"READ_MSGS", "WRITE_MSGS", "GET_CONFIG",
                         "FIVE_BAUD_INIT", "FAST_INIT"}
        BY <2>4, <3>4 DEF Arrays, Volts, Clears, IoctlOps, Configs
      <4> QED BY <4>1, <4>2, OutNone
    <3> QED BY <3>1, <3>2, <3>3, <3>4 DEF IoctlOps, Arrays, Volts, Clears, Configs
  <2>7. Wire([op |-> op, word |-> 0, list |-> a[1], out |-> a[2]]) = wire(op, a[1])
        /\ OutOf([op |-> op, word |-> 0, list |-> a[1], out |-> a[2]]) = a[2]
    BY <2>5, <2>6 DEF c
  <2> HIDE DEF wire
  <2> QED BY <2>2, <2>3, <2>7, AskDoes
<1> QED BY <1>1, <1>2, <1>3, <1>4, <1>5, <1>6, <1>7, <1>8, <1>9 DEF MakeCall

-----------------------------------------------------------------------------
(* The call in progress. *)

\* What call and cmd are, in the terms that the steps use.
LEMMA InProgress ==
    ASSUME TypeOK, Sent, at # "app"
    PROVE  /\ call.op \in Ops /\ Shaped(call.op, call.list)
           /\ call = [op |-> call.op, word |-> call.word, list |-> call.list,
                      out |-> OutOf(call)]
           /\ cmd = [op |-> call.op, word |-> call.word, list |-> Wire(call)]
           /\ cmd.op = call.op /\ cmd.word = call.word /\ cmd.list = Wire(call)
           /\ call.out = OutOf(call) /\ call.word \in Nat
<1>1. /\ call.op \in Ops /\ call.list \in Given(call.op) /\ call.word \in Nat
      /\ cmd = [op |-> call.op, word |-> call.word, list |-> Wire(call)]
      /\ call = [op |-> call.op, word |-> call.word, list |-> call.list,
                 out |-> OutOf(call)]
  BY DEF Sent
<1>2. Shaped(call.op, call.list)
  BY <1>1, GivenIs DEF TypeOK
<1>3. cmd.op = call.op /\ cmd.word = call.word /\ cmd.list = Wire(call)
  BY <1>1
<1>4. call.out = OutOf(call)
  <2>1. PICK o : o = OutOf(call)
    OBVIOUS
  <2>2. call = [op |-> call.op, word |-> call.word, list |-> call.list, out |-> o]
    BY <1>1, <2>1
  <2> QED BY <2>1, <2>2
<1> QED BY <1>1, <1>2, <1>3, <1>4

\* The command's list is as long as the call's, and is of data.
LEMMA WireIs ==
    ASSUME TypeOK, Sent, at # "app"
    PROVE  cmd.list \in Seq(Datum) /\ Len(cmd.list) = Len(call.list)
<1>1. /\ call.op \in Ops /\ Shaped(call.op, call.list) /\ cmd.list = Wire(call)
  BY InProgress
<1>2. call.list \in Seq(Datum)
  BY <1>1 DEF Shaped
<1>3. CASE call.op = "START_MSG_FILTER"
  <2>1. Len(call.list) = 3 /\ call.list \in [1 .. 3 -> {1, 2, Null}]
    BY <1>1, <1>3 DEF Shaped
  <2>2. cmd.list = [i \in 1 .. 3 |-> IF call.list[i] = Null THEN 0 ELSE call.list[i]]
    BY <1>1, <1>3 DEF Wire
  <2>3. \A i \in 1 .. 3 : call.list[i] \in {1, 2, Null}
    BY <2>1
  <2>4. \A i \in 1 .. 3 : (IF call.list[i] = Null THEN 0 ELSE call.list[i]) \in Datum
    BY <2>3, DatumHas
  <2>5. PICK m \in Nat : m = 3
    OBVIOUS
  <2>6. cmd.list \in [1 .. m -> Datum]
    BY <2>2, <2>4, <2>5
  <2>7. cmd.list \in Seq(Datum) /\ Len(cmd.list) = m
    BY <2>6, IsSequence
  <2> QED BY <2>1, <2>5, <2>7
<1>4. CASE call.op = "ADD_TO_FUNCT_MSG_LOOKUP_TABLE"
  <2>1. cmd.list = [b \in 1 .. Len(call.list) |-> Pointer]
    BY <1>1, <1>4 DEF Wire
  <2>2. PICK m \in Nat : m = Len(call.list)
    BY <1>2
  <2>3. cmd.list \in [1 .. m -> Datum]
    BY <2>1, <2>2, DatumHas
  <2>4. cmd.list \in Seq(Datum) /\ Len(cmd.list) = m
    BY <2>3, IsSequence
  <2> QED BY <2>2, <2>4
<1>5. CASE call.op \notin {"START_MSG_FILTER", "ADD_TO_FUNCT_MSG_LOOKUP_TABLE"}
  BY <1>1, <1>2, <1>5, WireSame
<1> QED BY <1>3, <1>4, <1>5

-----------------------------------------------------------------------------
(* The server's handlers. *)

\* What every one of them does that does not die.
Executed ==
    /\ at = "server" /\ at' = "client"
    /\ args' = [op |-> cmd.op, word |-> cmd.word, list |-> Passed(cmd)]
    /\ ans' \in Successes(args') \cup Failures(args')
    /\ LibraryDoes(args', ans')
    /\ reply' = ReplyTo(cmd, ans')
    /\ UNCHANGED <<loaderVars, calls, call, cmd, appVars>>

LEMMA PassedSame ==
    ASSUME NEW m, m.op \notin {"OPEN", "START_MSG_FILTER"}
    PROVE  Passed(m) = m.list
BY DEF Passed

LEMMA PreparedZero ==
    ASSUME NEW m, m.op \in Wordy \cup {"START_PERIODIC_MSG"}
    PROVE  Prepared(m) = ZeroOut
BY DEF Prepared, Wordy, Volts, Configs

LEMMA PreparedNone ==
    ASSUME NEW m, m.op \notin {"READ_MSGS", "WRITE_MSGS", "FIVE_BAUD_INIT", "FAST_INIT",
                               "START_PERIODIC_MSG"} \cup Configs \cup Wordy
    PROVE  Prepared(m) = NoOut
BY DEF Prepared

LEMMA HandleDoes ==
    ASSUME Sent, NEW op, NEW list, NEW out, Handle(op, list, out),
           op # "READ_VERSION", list = Passed(cmd), out = Prepared(cmd)
    PROVE  Executed
<1>1. /\ at = "server" /\ cmd.op = op
      /\ args' = [cmd EXCEPT !.list = list]
      /\ at' = "client"
      /\ UNCHANGED <<loaderVars, calls, call, cmd, appVars>>
  BY DEF Handle
<1>2. PICK w \in Successes(args') \cup Failures(args') :
          LibraryDoes(args', w) /\ ans' = w /\ reply' = Replied(w.status, Patch(out, w))
  BY DEF Handle
<1>3. args' = [op |-> cmd.op, word |-> cmd.word, list |-> Passed(cmd)]
  <2>1. PICK l : l = Wire(call)
    OBVIOUS
  <2>2. cmd = [op |-> call.op, word |-> call.word, list |-> l]
    BY <1>1, <2>1 DEF Sent
  <2>3. [cmd EXCEPT !.list = list] = [op |-> cmd.op, word |-> cmd.word, list |-> list]
    BY <2>2
  <2> QED BY <1>1, <2>3
<1>4. reply' = ReplyTo(cmd, ans')
  BY <1>1, <1>2 DEF ReplyTo
<1> QED BY <1>1, <1>2, <1>3, <1>4 DEF Executed

\* The handlers of calls that pass no list and get nothing or a word back.
LEMMA HandlePlainly ==
    ASSUME TypeOK, Sent, NEW op, op # "READ_VERSION",
           op \in Ops \ ({"OPEN", "START_MSG_FILTER", "READ_MSGS", "WRITE_MSGS",
                          "START_PERIODIC_MSG", "FAST_INIT"} \cup Configs \cup Arrays),
           \/ op \in Wordy /\ Handle(op, <<>>, ZeroOut)
           \/ op \notin Wordy /\ Handle(op, <<>>, NoOut)
    PROVE  Executed
<1>1. at = "server" /\ cmd.op = op
  BY DEF Handle
<1>2. call.op = op /\ call.list = <<>> /\ cmd.list = Wire(call)
  BY <1>1, InProgress DEF Shaped
<1>3. cmd.list = <<>>
  BY <1>2, WireSame DEF Arrays
<1>4. Passed(cmd) = <<>>
  BY <1>1, <1>3, PassedSame
<1>5. CASE op \in Wordy
  <2>1. Prepared(cmd) = ZeroOut
    BY <1>1, <1>5, PreparedZero
  <2> QED BY <1>4, <1>5, <2>1, HandleDoes
<1>6. CASE op \notin Wordy
  <2>1. Prepared(cmd) = NoOut
    BY <1>1, <1>6, PreparedNone DEF Arrays
  <2> QED BY <1>4, <1>6, <2>1, HandleDoes
<1> QED BY <1>5, <1>6

LEMMA ServerReadVersionDoes ==
    ASSUME TypeOK, Sent, Server_PassThruReadVersion
    PROVE  Executed
<1>1. /\ at = "server" /\ cmd.op = "READ_VERSION" /\ args' = cmd /\ at' = "client"
      /\ UNCHANGED <<loaderVars, calls, call, cmd, appVars, libVars>>
  BY DEF Server_PassThruReadVersion
<1>2. PICK w \in Successes(cmd) \cup Failures(cmd) :
          /\ ans' = w
          /\ reply' = Replied(w.status, IF w.status = "STATUS_NOERROR"
                                          THEN Patch(ZeroOut, w) ELSE ZeroOut)
  BY DEF Server_PassThruReadVersion
<1>3. Successes(cmd) = {Succeeds(Keep, v, <<>>) : v \in Words}
  BY <1>1, Zenon DEF Successes, Volts
<1>4. w.status = "STATUS_NOERROR" \/ w.status = "ERR_FAILED"
  BY <1>3 DEF Failures, Succeeds, Answer
<1>5. Prepared(cmd) = ZeroOut /\ Passed(cmd) = cmd.list
  BY <1>1, PreparedZero, PassedSame DEF Wordy
<1>6. reply' = ReplyTo(cmd, ans')
  BY <1>1, <1>2, <1>4, <1>5 DEF ReplyTo
<1>7. args' = [op |-> cmd.op, word |-> cmd.word, list |-> Passed(cmd)]
  <2>1. PICK l : l = Wire(call)
    OBVIOUS
  <2>2. cmd = [op |-> call.op, word |-> call.word, list |-> l]
    BY <1>1, <2>1 DEF Sent
  <2> QED BY <1>1, <1>5, <2>2
<1>8. LibraryDoes(args', ans')
  BY <1>1, <1>2 DEF LibraryDoes, libVars
<1> QED BY <1>1, <1>2, <1>6, <1>7, <1>8 DEF Executed

LEMMA ServerIoctlDoes ==
    ASSUME TypeOK, Sent, Server_PassThruIoctl
    PROVE  Executed
<1>1. CASE \E op \in Configs : Handle(op, cmd.list, ListOut(cmd.list))
  <2>1. PICK op \in Configs : Handle(op, cmd.list, ListOut(cmd.list))
    BY <1>1
  <2>2. cmd.op = op
    BY <2>1 DEF Handle
  <2>3. Passed(cmd) = cmd.list /\ Prepared(cmd) = ListOut(cmd.list)
    BY <2>1, <2>2, PassedSame DEF Prepared, Configs, Wordy, Volts
  <2> QED BY <2>1, <2>3, HandleDoes DEF Configs
<1>2. CASE \E op \in Volts : Handle(op, <<>>, ZeroOut)
  <2>1. PICK op \in Volts : Handle(op, <<>>, ZeroOut)
    BY <1>2
  <2> QED BY <2>1, HandlePlainly, OpsAre DEF Volts, IoctlOps, Configs, Arrays, Wordy
<1>3. CASE Handle("FIVE_BAUD_INIT", cmd.list, ListOut(<<0, 0>>))
  <2>1. cmd.op = "FIVE_BAUD_INIT"
    BY <1>3 DEF Handle
  <2>2. Passed(cmd) = cmd.list /\ Prepared(cmd) = ListOut(<<0, 0>>)
    BY <2>1, PassedSame DEF Prepared, Configs, Wordy, Volts
  <2> QED BY <1>3, <2>2, HandleDoes
<1>4. CASE Handle("FAST_INIT", cmd.list, ListOut(<<0>>))
  <2>1. cmd.op = "FAST_INIT"
    BY <1>4 DEF Handle
  <2>2. Passed(cmd) = cmd.list /\ Prepared(cmd) = ListOut(<<0>>)
    BY <2>1, PassedSame DEF Prepared, Configs, Wordy, Volts
  <2> QED BY <1>4, <2>2, HandleDoes
<1>5. CASE \E op \in Clears : Handle(op, <<>>, NoOut)
  <2>1. PICK op \in Clears : Handle(op, <<>>, NoOut)
    BY <1>5
  <2>2. op \in IoctlOps \ ({"FAST_INIT"} \cup Configs \cup Arrays \cup Volts)
    BY <2>1 DEF Clears
  <2> QED BY <2>1, <2>2, HandlePlainly, OpsAre DEF IoctlOps, Wordy
<1>6. CASE \E op \in Arrays \ {"FIVE_BAUD_INIT"} : Handle(op, cmd.list, NoOut)
  <2>1. PICK op \in Arrays \ {"FIVE_BAUD_INIT"} : Handle(op, cmd.list, NoOut)
    BY <1>6
  <2>2. cmd.op = op
    BY <2>1 DEF Handle
  <2>3. Passed(cmd) = cmd.list /\ Prepared(cmd) = NoOut
    BY <2>1, <2>2, PassedSame, PreparedNone DEF Configs, Arrays, Wordy, Volts
  <2> QED BY <2>1, <2>3, HandleDoes DEF Arrays
<1> QED BY <1>1, <1>2, <1>3, <1>4, <1>5, <1>6 DEF Server_PassThruIoctl

LEMMA ProcessCommandDoes ==
    ASSUME TypeOK, Sent, ProcessCommand
    PROVE  Executed \/ (at = "server" /\ Dies)
<1>1. CASE Server_PassThruOpen
  <2>1. Handle("OPEN", <<Null>>, ZeroOut) /\ cmd.op = "OPEN"
    BY <1>1 DEF Server_PassThruOpen, Handle
  <2>2. Passed(cmd) = <<Null>> /\ Prepared(cmd) = ZeroOut
    BY <2>1, PreparedZero DEF Passed, Wordy
  <2> QED BY <2>1, <2>2, HandleDoes
<1>2. CASE Server_PassThruReadMsgs
  <2>1. /\ Handle("READ_MSGS", cmd.list,
                  [CountOut(Len(cmd.list)) EXCEPT !.list = cmd.list])
        /\ cmd.op = "READ_MSGS"
    BY <1>2 DEF Server_PassThruReadMsgs, Handle
  <2>2. /\ Passed(cmd) = cmd.list
        /\ Prepared(cmd) = [CountOut(Len(cmd.list)) EXCEPT !.list = cmd.list]
    BY <2>1, PassedSame DEF Prepared, Configs, Wordy, Volts
  <2> QED BY <2>1, <2>2, HandleDoes
<1>3. CASE Server_PassThruWriteMsgs
  <2>1. Handle("WRITE_MSGS", cmd.list, CountOut(Len(cmd.list))) /\ cmd.op = "WRITE_MSGS"
    BY <1>3 DEF Server_PassThruWriteMsgs, Handle
  <2>2. Passed(cmd) = cmd.list /\ Prepared(cmd) = CountOut(Len(cmd.list))
    BY <2>1, PassedSame DEF Prepared, Configs, Wordy, Volts
  <2> QED BY <2>1, <2>2, HandleDoes
<1>4. CASE Server_PassThruStartPeriodicMsg
  <2>1. Handle("START_PERIODIC_MSG", cmd.list, ZeroOut) /\ cmd.op = "START_PERIODIC_MSG"
    BY <1>4 DEF Server_PassThruStartPeriodicMsg, Handle
  <2>2. Passed(cmd) = cmd.list /\ Prepared(cmd) = ZeroOut
    BY <2>1, PassedSame, PreparedZero
  <2> QED BY <2>1, <2>2, HandleDoes
<1>5. CASE Server_PassThruStartMsgFilter
  <2> DEFINE list == IF cmd.word = FLOW_CONTROL_FILTER THEN cmd.list
                     ELSE First(cmd.list, 2) \o <<Null>>
  <2>1. Handle("START_MSG_FILTER", list, ZeroOut) /\ cmd.op = "START_MSG_FILTER"
    BY <1>5 DEF Server_PassThruStartMsgFilter, Handle
  <2>2. Passed(cmd) = list /\ Prepared(cmd) = ZeroOut
    BY <2>1, PreparedZero DEF Passed, Wordy
  <2> HIDE DEF list
  <2> QED BY <2>1, <2>2, HandleDoes
<1>6. CASE Server_PassThruConnect \/ Server_PassThruGetLastError
           \/ Server_PassThruGetLastSocketError
  <2>1. PICK op \in {"CONNECT", "GET_LAST_ERROR", "GET_LAST_SOCKET_ERROR"} :
            Handle(op, <<>>, ZeroOut)
    BY <1>6 DEF Server_PassThruConnect, Server_PassThruGetLastError,
                Server_PassThruGetLastSocketError
  <2>2. op \in Wordy /\ op \in Ops
    BY OpsAre DEF Wordy
  <2> QED BY <2>1, <2>2, HandlePlainly DEF Configs, Arrays
<1>7. CASE \/ Server_PassThruStopPeriodicMsg \/ Server_PassThruStopMsgFilter
           \/ Server_PassThruSetProgrammingVoltage \/ Server_PassThruDisconnect
           \/ Server_PassThruClose \/ Server_PassThruReset
  <2>1. PICK op \in {"STOP_PERIODIC_MSG", "STOP_MSG_FILTER", "SET_PROGRAMMING_VOLTAGE",
                     "DISCONNECT", "CLOSE", "RESET"} : Handle(op, <<>>, NoOut)
    BY <1>7 DEF Server_PassThruStopPeriodicMsg, Server_PassThruStopMsgFilter,
                Server_PassThruSetProgrammingVoltage, Server_PassThruDisconnect,
                Server_PassThruClose, Server_PassThruReset
  <2>2. op \notin Wordy /\ op \in Ops
    BY OpsAre DEF Wordy, Volts
  <2> QED BY <2>1, <2>2, HandlePlainly DEF Configs, Arrays
<1>8. CASE HeapOverrun \/ NoReplyBuffer
  BY <1>8 DEF HeapOverrun, NoReplyBuffer
<1> QED BY <1>1, <1>2, <1>3, <1>4, <1>5, <1>6, <1>7, <1>8, ServerReadVersionDoes,
           ServerIoctlDoes DEF ProcessCommand

-----------------------------------------------------------------------------
(* The library's answers. *)

LEMMA SuccessesAre ==
    ASSUME NEW a, a.op \in Ops
    PROVE  /\ a.op = "READ_MSGS" => Successes(a) = {ReadAnswer(Len(a.list))}
           /\ a.op = "WRITE_MSGS" => Successes(a) =
                {Answer(IF k = Len(a.list) THEN "STATUS_NOERROR" ELSE "ERR_TIMEOUT",
                        k, Keep, <<>>) : k \in 0 .. Len(a.list)}
           /\ a.op \in Wordy => Successes(a) = {Succeeds(Keep, w, <<>>) : w \in Words}
           /\ a.op = "START_PERIODIC_MSG" => Successes(a) =
                {Succeeds(Keep, i, <<>>) : i \in Ids \ {r[1] : r \in running}}
           /\ a.op = "STOP_PERIODIC_MSG" => Successes(a) =
                {Succeeds(Keep, Keep, <<>>) : r \in {s \in running : s[1] = a.word}}
           /\ a.op = "GET_CONFIG" => Successes(a) =
                {Succeeds(Keep, Keep, First(config, Len(a.list)))}
           /\ a.op = "FIVE_BAUD_INIT" => Successes(a) = {Succeeds(Keep, Keep, <<2, 1>>)}
           /\ a.op = "FAST_INIT" => Successes(a) = {Succeeds(Keep, Keep, <<2>>)}
           /\ a.op \notin {"READ_MSGS", "WRITE_MSGS", "START_PERIODIC_MSG",
                           "STOP_PERIODIC_MSG", "GET_CONFIG", "FIVE_BAUD_INIT",
                           "FAST_INIT"} \cup Wordy
                => Successes(a) = {Succeeds(Keep, Keep, <<>>)}
<1>1. CASE a.op \in Wordy
  <2>1. a.op \notin {"READ_MSGS", "WRITE_MSGS", "START_PERIODIC_MSG",
                     "STOP_PERIODIC_MSG", "GET_CONFIG", "FIVE_BAUD_INIT", "FAST_INIT"}
    BY <1>1 DEF Wordy, Volts
  <2>2. Successes(a) = {Succeeds(Keep, w, <<>>) : w \in Words}
    BY <1>1, <2>1, Zenon DEF Successes, Wordy
  <2> QED BY <1>1, <2>1, <2>2
<1>2. CASE a.op \notin Wordy
  <2>1. a.op = "READ_MSGS" => Successes(a) = {ReadAnswer(Len(a.list))}
    BY Zenon DEF Successes, Volts
  <2>2. a.op = "WRITE_MSGS" => Successes(a) =
                {Answer(IF k = Len(a.list) THEN "STATUS_NOERROR" ELSE "ERR_TIMEOUT",
                        k, Keep, <<>>) : k \in 0 .. Len(a.list)}
    BY Zenon DEF Successes, Volts
  <2>3. a.op = "START_PERIODIC_MSG" => Successes(a) =
                {Succeeds(Keep, i, <<>>) : i \in Ids \ {r[1] : r \in running}}
    BY Zenon DEF Successes, Volts
  <2>4. a.op = "STOP_PERIODIC_MSG" => Successes(a) =
                {Succeeds(Keep, Keep, <<>>) : r \in {s \in running : s[1] = a.word}}
    BY Zenon DEF Successes, Volts
  <2>5. a.op = "GET_CONFIG" => Successes(a) =
                {Succeeds(Keep, Keep, First(config, Len(a.list)))}
    BY Zenon DEF Successes, Volts
  <2>6. a.op = "FIVE_BAUD_INIT" => Successes(a) = {Succeeds(Keep, Keep, <<2, 1>>)}
    BY Zenon DEF Successes, Volts
  <2>7. a.op = "FAST_INIT" => Successes(a) = {Succeeds(Keep, Keep, <<2>>)}
    BY Zenon DEF Successes, Volts
  <2>8. a.op \notin {"READ_MSGS", "WRITE_MSGS", "START_PERIODIC_MSG",
                     "STOP_PERIODIC_MSG", "GET_CONFIG", "FIVE_BAUD_INIT",
                     "FAST_INIT"} \cup Wordy
          => Successes(a) = {Succeeds(Keep, Keep, <<>>)}
    BY Zenon DEF Successes, Wordy
  <2> QED BY <1>2, <2>1, <2>2, <2>3, <2>4, <2>5, <2>6, <2>7, <2>8
<1> QED BY <1>1, <1>2

LEMMA FailuresAre ==
    ASSUME NEW a, NEW w \in Failures(a)
    PROVE  /\ w = Answer(w.status, w.n, w.word, w.list)
           /\ w.status = "ERR_FAILED" /\ w.n = Keep /\ w.list = <<>>
           /\ w.word = Keep \/ (a.op = "READ_VERSION" /\ w.word \in Words)
BY DEF Failures, Answer

\* The parts of an answer that is not a failure, for the kinds of call.
LEMMA AnswerOfAre ==
    ASSUME NEW op \in Ops, NEW n, NEW w
    PROVE  /\ op = "READ_MSGS" =>
                (AnswerOf(op, n, w) <=>
                   /\ w.n \in 0 .. Least(n, read) /\ w.word = Keep
                   /\ w.list = [i \in 1 .. w.n |-> (read - w.n) + i]
                   /\ w.status = "STATUS_NOERROR" => w.n = n
                   /\ w.status = "ERR_BUFFER_EMPTY" => w.n = 0)
           /\ op = "WRITE_MSGS" =>
                (AnswerOf(op, n, w) <=> w.n \in 0 .. n /\ w.word = Keep /\ w.list = <<>>)
           /\ op \in Wordy \cup {"START_PERIODIC_MSG"} =>
                (AnswerOf(op, n, w) <=>
                   /\ w.status = "STATUS_NOERROR" /\ w.n = Keep
                   /\ w.word \in (IF op \in Wordy THEN Words ELSE Ids)
                   /\ w.list = <<>>)
           /\ op \notin Wordy \cup {"START_PERIODIC_MSG", "READ_MSGS", "WRITE_MSGS"} =>
                (AnswerOf(op, n, w) <=>
                   /\ w.status = "STATUS_NOERROR" /\ w.n = Keep /\ w.word = Keep
                   /\ op = "GET_CONFIG" => w.list = First(config, n)
                   /\ op = "FIVE_BAUD_INIT" => w.list = <<2, 1>>
                   /\ op = "FAST_INIT" => w.list = <<2>>
                   /\ op \notin {"GET_CONFIG", "FIVE_BAUD_INIT", "FAST_INIT"}
                        => w.list = <<>>)
<1>1. CASE op = "READ_MSGS"
  BY <1>1, Zenon DEF AnswerOf, Wordy, Volts
<1>2. CASE op = "WRITE_MSGS"
  BY <1>2, Zenon DEF AnswerOf, Wordy, Volts
<1>3. CASE op \in Wordy \cup {"START_PERIODIC_MSG"}
  <2>1. op \notin {"READ_MSGS", "WRITE_MSGS"}
    BY <1>3 DEF Wordy, Volts
  <2> QED BY <1>3, <2>1, Zenon DEF AnswerOf
<1>4. CASE op \notin Wordy \cup {"START_PERIODIC_MSG", "READ_MSGS", "WRITE_MSGS"}
  <2>1. AnswerOf(op, n, w) <=>
             /\ w.status = "STATUS_NOERROR" /\ w.n = Keep /\ w.word = Keep
             /\ w.list = CASE op = "GET_CONFIG"     -> First(config, n)
                           [] op = "FIVE_BAUD_INIT" -> <<2, 1>>
                           [] op = "FAST_INIT"      -> <<2>>
                           [] OTHER                 -> <<>>
    BY <1>4, Zenon DEF AnswerOf
  <2>2. CASE op = "GET_CONFIG"
    BY <1>4, <2>1, <2>2
  <2>3. CASE op = "FIVE_BAUD_INIT"
    BY <1>4, <2>1, <2>3
  <2>4. CASE op = "FAST_INIT"
    BY <1>4, <2>1, <2>4
  <2>5. CASE op \notin {"GET_CONFIG", "FIVE_BAUD_INIT", "FAST_INIT"}
    BY <1>4, <2>1, <2>5
  <2> QED BY <2>2, <2>3, <2>4, <2>5
<1> QED BY <1>1, <1>2, <1>3, <1>4

\* The library's answer is one of those that Answered allows, in its state after
\* the call.
LEMMA AnswerDoes ==
    ASSUME TypeOK, Sent, Executed
    PROVE  /\ ans' = Answer(ans'.status, ans'.n, ans'.word, ans'.list)
           /\ ans'.status \in Status
           /\ IF ans'.status = "ERR_FAILED"
                THEN ans' \in Failures(args')
                ELSE AnswerOf(args.op, Len(args.list), ans)'
<1>1. /\ args'.op = call.op /\ args'.word = call.word /\ args'.list = Passed(cmd)
      /\ call.op \in Ops /\ Shaped(call.op, call.list)
      /\ cmd.op = call.op /\ cmd.list = Wire(call)
      /\ Len(cmd.list) = Len(call.list) /\ cmd.list \in Seq(Datum)
  BY InProgress, WireIs DEF Executed
<1>2. PICK op \in Ops : op = call.op
  BY <1>1
<1>3. PICK n : n = Len(args'.list)
  OBVIOUS
<1>4. CASE ans' \in Failures(args')
  <2>1. /\ ans' = Answer(ans'.status, ans'.n, ans'.word, ans'.list)
        /\ ans'.status = "ERR_FAILED"
    BY <1>4, FailuresAre
  <2> QED BY <1>4, <2>1 DEF Status
<1>5. CASE ans' \in Successes(args')
  <2> SUFFICES /\ ans' = Answer(ans'.status, ans'.n, ans'.word, ans'.list)
               /\ ans'.status \in Status \ {"ERR_FAILED"}
               /\ AnswerOf(op, n, ans)'
    BY <1>1, <1>2, <1>3 DEF Status
  <2>0. args'.op = op /\ args'.op \in Ops
    BY <1>1, <1>2
  <2>1. CASE op = "READ_MSGS"
    <3>1. Passed(cmd) = cmd.list /\ n \in Nat
      BY <1>1, <1>2, <1>3, <2>1, PassedSame
    <3>2. ans' = ReadAnswer(n)
      BY <1>3, <1>5, <2>0, <2>1, SuccessesAre
    <3>3. PICK k \in Nat : k = Least(n, arrived - read) /\ k <= n
      <4>1. arrived \in 0 .. BusLen /\ read \in 0 .. arrived
        BY DEF TypeOK
      <4>2. PICK m \in Nat : m = arrived - read
        BY ONLY <4>1, MarshalAssumption
      <4>3. Least(n, m) \in Nat /\ Least(n, m) <= n
        BY ONLY <3>1, <4>2 DEF Least
      <4> QED BY <4>2, <4>3
    <3>4. ans' = Answer(IF k = n THEN "STATUS_NOERROR"
                        ELSE IF k = 0 THEN "ERR_BUFFER_EMPTY" ELSE "ERR_TIMEOUT",
                        k, Keep, [i \in 1 .. k |-> read + i])
      BY <3>2, <3>3 DEF ReadAnswer
    <3>5. PICK s : s = [i \in 1 .. k |-> read + i]
      OBVIOUS
    <3>6. /\ ans' = Answer(ans'.status, ans'.n, ans'.word, ans'.list)
          /\ ans'.n = k /\ ans'.word = Keep /\ ans'.list = s
          /\ ans'.status = IF k = n THEN "STATUS_NOERROR"
                           ELSE IF k = 0 THEN "ERR_BUFFER_EMPTY" ELSE "ERR_TIMEOUT"
      BY <3>4, <3>5 DEF Answer
    <3>7. read' = read + k /\ read \in Nat
      <4>1. ans'.status # "ERR_FAILED"
        BY <3>6
      <4> QED BY <1>1, <1>2, <2>1, <3>6, <4>1 DEF Executed, LibraryDoes, TypeOK
    <3>8. s = [i \in 1 .. k |-> (read' - k) + i]
      <4>1. read' - k = read
        BY <3>3, <3>7
      <4> QED BY <3>5, <4>1
    <3>9. k \in 0 .. Least(n, read')
      BY <3>1, <3>3, <3>7 DEF Least
    <3>10. AnswerOf(op, n, ans)'
      <4>1. /\ ans'.n \in 0 .. Least(n, read') /\ ans'.word = Keep
            /\ ans'.list = [i \in 1 .. ans'.n |-> (read' - ans'.n) + i]
            /\ ans'.status = "STATUS_NOERROR" => ans'.n = n
            /\ ans'.status = "ERR_BUFFER_EMPTY" => ans'.n = 0
        BY <3>6, <3>8, <3>9
      <4> QED BY <2>1, <4>1, Zenon DEF AnswerOf, Wordy, Volts
    <3> QED BY <3>6, <3>10 DEF Status
  <2>2. CASE op = "WRITE_MSGS"
    <3>1. PICK k \in 0 .. n :
              ans' = Answer(IF k = n THEN "STATUS_NOERROR" ELSE "ERR_TIMEOUT",
                            k, Keep, <<>>)
      BY <1>3, <1>5, <2>0, <2>2, SuccessesAre
    <3>2. /\ ans' = Answer(ans'.status, ans'.n, ans'.word, ans'.list)
          /\ ans'.n = k /\ ans'.word = Keep /\ ans'.list = <<>>
          /\ ans'.status \in {"STATUS_NOERROR", "ERR_TIMEOUT"}
      BY <3>1 DEF Answer
    <3>3. AnswerOf(op, n, ans)'
      BY <2>2, <3>1, <3>2, Zenon DEF AnswerOf, Wordy, Volts
    <3> QED BY <3>2, <3>3 DEF Status
  <2>3. CASE op \in Wordy \cup {"START_PERIODIC_MSG"}
    <3>1. PICK w \in (IF op \in Wordy THEN Words ELSE Ids) : ans' = Succeeds(Keep, w, <<>>)
      <4>1. CASE op \in Wordy
        BY <1>5, <2>0, <4>1, SuccessesAre
      <4>2. CASE op \notin Wordy
        BY <1>5, <2>0, <2>3, <4>2, SuccessesAre
      <4> QED BY <4>1, <4>2
    <3>2. /\ ans' = Answer(ans'.status, ans'.n, ans'.word, ans'.list)
          /\ ans'.status = "STATUS_NOERROR" /\ ans'.n = Keep /\ ans'.word = w
          /\ ans'.list = <<>>
      BY <3>1 DEF Succeeds, Answer
    <3>3. op \notin {"READ_MSGS", "WRITE_MSGS"}
      BY <2>3 DEF Wordy, Volts
    <3>4. AnswerOf(op, n, ans)'
      BY <2>3, <3>1, <3>2, <3>3, Zenon DEF AnswerOf
    <3> QED BY <3>2, <3>4 DEF Status
  <2>4. CASE op \notin Wordy \cup {"START_PERIODIC_MSG", "READ_MSGS", "WRITE_MSGS"}
    <3>1. op = "GET_CONFIG" => config' = config
      BY <1>1, <1>2, <2>4 DEF Executed, LibraryDoes
    <3> DEFINE list == CASE op = "GET_CONFIG"     -> First(config, n)
                         [] op = "FIVE_BAUD_INIT" -> <<2, 1>>
                         [] op = "FAST_INIT"      -> <<2>>
                         [] OTHER                 -> <<>>
    <3>2. ans' = Succeeds(Keep, Keep, list)
      <4>1. CASE op = "GET_CONFIG"
        BY <1>3, <1>5, <2>0, <4>1, SuccessesAre
      <4>2. CASE op = "FIVE_BAUD_INIT"
        BY <1>5, <2>0, <4>2, SuccessesAre
      <4>3. CASE op = "FAST_INIT"
        BY <1>5, <2>0, <4>3, SuccessesAre
      <4>4. CASE op = "STOP_PERIODIC_MSG"
        BY <1>5, <2>0, <4>4, SuccessesAre
      <4>5. CASE op \notin {"GET_CONFIG", "FIVE_BAUD_INIT", "FAST_INIT", "STOP_PERIODIC_MSG"}
        BY <1>5, <2>0, <2>4, <4>5, SuccessesAre
      <4> QED BY <4>1, <4>2, <4>3, <4>4, <4>5
    <3>3. PICK l : l = list
      OBVIOUS
    <3>4. /\ ans' = Answer(ans'.status, ans'.n, ans'.word, ans'.list)
          /\ ans'.status = "STATUS_NOERROR" /\ ans'.n = Keep /\ ans'.word = Keep
          /\ ans'.list = list
      BY <3>2, <3>3 DEF Succeeds, Answer
    <3>5. AnswerOf(op, n, ans)'
      <4>1. list = CASE op = "GET_CONFIG"     -> First(config', n)
                     [] op = "FIVE_BAUD_INIT" -> <<2, 1>>
                     [] op = "FAST_INIT"      -> <<2>>
                     [] OTHER                 -> <<>>
        <5>1. CASE op = "GET_CONFIG"
          BY <3>1, <5>1
        <5>2. CASE op # "GET_CONFIG"
          BY <5>2
        <5> QED BY <5>1, <5>2
      <4> HIDE DEF list
      <4> QED BY <2>4, <3>4, <4>1, Zenon DEF AnswerOf
    <3> HIDE DEF list
    <3> QED BY <3>4, <3>5 DEF Status
  <2> QED BY <2>1, <2>2, <2>3, <2>4
<1> QED BY <1>4, <1>5 DEF Executed

LEMMA AnswerTyped ==
    ASSUME TypeOK, NEW a, a.op \in Ops, NEW n \in Nat, n = Len(a.list),
           a.op = "GET_CONFIG" => n \in 0 .. Params,
           NEW w \in Successes(a) \cup Failures(a)
    PROVE  /\ w.status \in Status
           /\ w.n \in Nat \cup {Keep} /\ w.word \in Nat \cup {Keep}
           /\ w.list \in Seq(Datum)
<1> USE MarshalAssumption
<1>1. CASE w \in Failures(a)
  <2>1. <<>> \in Seq(Datum)
    OBVIOUS
  <2> QED BY <1>1, <2>1, FailuresAre DEF Status
<1>2. CASE w \in Successes(a) /\ a.op = "READ_MSGS"
  <2>1. w = ReadAnswer(n)
    BY <1>2, SuccessesAre
  <2>2. PICK k \in Nat : k = Least(n, arrived - read)
    BY DEF Least, TypeOK
  <2>3. PICK s : s = [i \in 1 .. k |-> read + i]
    OBVIOUS
  <2>4. s \in [1 .. k -> Datum]
    BY <2>3, DatumHas DEF TypeOK
  <2>5. s \in Seq(Datum)
    BY <2>4, IsSequence
  <2>6. w = Answer(IF k = n THEN "STATUS_NOERROR"
                   ELSE IF k = 0 THEN "ERR_BUFFER_EMPTY" ELSE "ERR_TIMEOUT", k, Keep, s)
    BY <2>1, <2>2, <2>3 DEF ReadAnswer
  <2> QED BY <2>5, <2>6 DEF Answer, Status
<1>3. CASE w \in Successes(a) /\ a.op = "WRITE_MSGS"
  <2>1. PICK k \in 0 .. n :
            w = Answer(IF k = n THEN "STATUS_NOERROR" ELSE "ERR_TIMEOUT", k, Keep, <<>>)
    BY <1>3, SuccessesAre
  <2>2. <<>> \in Seq(Datum)
    OBVIOUS
  <2> QED BY <2>1, <2>2 DEF Answer, Status
<1>4. CASE w \in Successes(a) /\ a.op \in Wordy \cup {"START_PERIODIC_MSG"}
  <2>1. PICK v \in Nat : w = Succeeds(Keep, v, <<>>)
    BY <1>4, SuccessesAre
  <2>2. <<>> \in Seq(Datum)
    OBVIOUS
  <2> QED BY <2>1, <2>2 DEF Answer, Succeeds, Status
<1>5. CASE w \in Successes(a)
           /\ a.op \notin Wordy \cup {"START_PERIODIC_MSG", "READ_MSGS", "WRITE_MSGS"}
  <2>1. /\ First(config, n) \in Seq(Nat) \/ a.op # "GET_CONFIG"
        /\ <<2, 1>> \in Seq(Nat) /\ <<2>> \in Seq(Nat) /\ <<>> \in Seq(Nat)
    <3>1. config \in Seq(Nat) /\ Len(config) = Params
      BY IsSequence DEF TypeOK
    <3>2. a.op = "GET_CONFIG" => First(config, n) \in Seq(Nat)
      BY <3>1, FirstIs
    <3> QED BY <3>2
  <2>2. PICK s \in Seq(Nat) : w = Succeeds(Keep, Keep, s)
    <3>1. CASE a.op = "GET_CONFIG"
      BY <1>5, <2>1, <3>1, SuccessesAre
    <3>2. CASE a.op = "FIVE_BAUD_INIT"
      BY <1>5, <2>1, <3>2, SuccessesAre
    <3>3. CASE a.op = "FAST_INIT"
      BY <1>5, <2>1, <3>3, SuccessesAre
    <3>4. CASE a.op = "STOP_PERIODIC_MSG"
      <4>1. Successes(a) = {Succeeds(Keep, Keep, <<>>) :
                                r \in {t \in running : t[1] = a.word}}
        BY <3>4, SuccessesAre
      <4>2. w = Succeeds(Keep, Keep, <<>>)
        BY <1>5, <4>1
      <4> QED BY <2>1, <4>2
    <3>5. CASE a.op \notin {"GET_CONFIG", "FIVE_BAUD_INIT", "FAST_INIT", "STOP_PERIODIC_MSG"}
      BY <1>5, <2>1, <3>5, SuccessesAre
    <3> QED BY <3>1, <3>2, <3>3, <3>4, <3>5
  <2>3. s \in Seq(Datum)
    BY SeqWidens, DatumHas
  <2> QED BY <2>2, <2>3 DEF Answer, Succeeds, Status
<1> QED BY <1>1, <1>2, <1>3, <1>4, <1>5

\* What the handler's out parameters hold.
LEMMA PreparedIs ==
    ASSUME NEW m, m.op \in Ops, m.list \in Seq(Datum)
    PROVE  /\ Prepared(m).n \in Nat /\ Prepared(m).word \in {0, Old}
           /\ Prepared(m).list \in Seq(Datum)
           /\ m.op = "READ_MSGS" => Prepared(m).n = Len(m.list) /\ Prepared(m).list = m.list
           /\ m.op = "WRITE_MSGS" => Prepared(m).n = Len(m.list)
           /\ m.op # "READ_MSGS" /\ m.op # "WRITE_MSGS" => Prepared(m).n = 0
           /\ Prepared(m).word = IF m.op \in Wordy \cup {"START_PERIODIC_MSG"} THEN 0 ELSE Old
           /\ m.op \in Configs => Prepared(m).list = m.list
           /\ m.op = "FIVE_BAUD_INIT" => Prepared(m).list = <<0, 0>>
           /\ m.op = "FAST_INIT" => Prepared(m).list = <<0>>
           /\ m.op \notin {"READ_MSGS", "FIVE_BAUD_INIT", "FAST_INIT"} \cup Configs =>
                Prepared(m).list = <<>>
<1> USE DatumHas
<1>0. /\ <<>> \in Seq(Datum) /\ <<0>> \in Seq(Datum) /\ <<0, 0>> \in Seq(Datum)
      /\ Len(m.list) \in Nat
  OBVIOUS
<1>1. CASE m.op = "READ_MSGS"
  <2>1. Prepared(m) = [CountOut(Len(m.list)) EXCEPT !.list = m.list]
    BY <1>1, Zenon DEF Prepared, Configs, Wordy, Volts
  <2> QED BY <1>0, <1>1, <2>1 DEF CountOut, Configs, Wordy, Volts
<1>2. CASE m.op = "WRITE_MSGS"
  <2>1. Prepared(m) = CountOut(Len(m.list))
    BY <1>2, Zenon DEF Prepared, Configs, Wordy, Volts
  <2> QED BY <1>0, <1>2, <2>1 DEF CountOut, Configs, Wordy, Volts
<1>3. CASE m.op \in Configs
  <2>1. Prepared(m) = ListOut(m.list)
    BY <1>3, Zenon DEF Prepared, Configs, Wordy, Volts
  <2> QED BY <1>0, <1>3, <2>1 DEF ListOut, Configs, Wordy, Volts
<1>4. CASE m.op = "FIVE_BAUD_INIT"
  <2>1. Prepared(m) = ListOut(<<0, 0>>)
    BY <1>4, Zenon DEF Prepared, Configs, Wordy, Volts
  <2> QED BY <1>0, <1>4, <2>1 DEF ListOut, Configs, Wordy, Volts
<1>5. CASE m.op = "FAST_INIT"
  <2>1. Prepared(m) = ListOut(<<0>>)
    BY <1>5, Zenon DEF Prepared, Configs, Wordy, Volts
  <2> QED BY <1>0, <1>5, <2>1 DEF ListOut, Configs, Wordy, Volts
<1>6. CASE m.op \in Wordy \cup {"START_PERIODIC_MSG"}
  <2>1. Prepared(m) = ZeroOut
    BY <1>6, PreparedZero
  <2> QED BY <1>0, <1>6, <2>1 DEF ZeroOut, Configs, Wordy, Volts
<1>7. CASE m.op \notin {"READ_MSGS", "WRITE_MSGS", "FIVE_BAUD_INIT", "FAST_INIT",
                        "START_PERIODIC_MSG"} \cup Configs \cup Wordy
  <2>1. Prepared(m) = NoOut
    BY <1>7, PreparedNone
  <2> QED BY <1>0, <1>7, <2>1 DEF NoOut
<1> QED BY <1>1, <1>2, <1>3, <1>4, <1>5, <1>6, <1>7

\* The reply, part by part, and the types of the parts.
LEMMA ReplyToIs ==
    ASSUME NEW m, m.op \in Ops, m.list \in Seq(Datum), NEW w,
           w.n \in Nat \cup {Keep}, w.word \in Nat \cup {Keep}, w.list \in Seq(Datum)
    PROVE  /\ ReplyTo(m, w).status = w.status
           /\ ReplyTo(m, w).n \in Nat /\ ReplyTo(m, w).word \in Nat \cup {Old}
           /\ ReplyTo(m, w).list \in Seq(Datum)
           /\ ~(m.op = "READ_VERSION" /\ w.status = "ERR_FAILED") =>
                /\ ReplyTo(m, w).n = IF w.n = Keep THEN Prepared(m).n ELSE w.n
                /\ ReplyTo(m, w).word = IF w.word = Keep THEN Prepared(m).word ELSE w.word
                /\ ReplyTo(m, w).list = Overlay(Prepared(m).list, w.list)
           /\ (m.op = "READ_VERSION" /\ w.status = "ERR_FAILED") =>
                /\ ReplyTo(m, w).n = 0 /\ ReplyTo(m, w).word = 0
                /\ ReplyTo(m, w).list = <<>>
<1>1. PICK o : o = IF m.op = "READ_VERSION" /\ w.status = "ERR_FAILED"
                     THEN ZeroOut ELSE Patch(Prepared(m), w)
  OBVIOUS
<1>2. /\ ReplyTo(m, w).status = w.status /\ ReplyTo(m, w).n = o.n
      /\ ReplyTo(m, w).word = o.word /\ ReplyTo(m, w).list = o.list
  BY <1>1 DEF ReplyTo, Replied
<1>3. CASE m.op = "READ_VERSION" /\ w.status = "ERR_FAILED"
  <2>1. o.n = 0 /\ o.word = 0 /\ o.list = <<>>
    BY <1>1, <1>3 DEF ZeroOut
  <2> QED BY <1>2, <1>3, <2>1
<1>4. CASE ~(m.op = "READ_VERSION" /\ w.status = "ERR_FAILED")
  <2>1. PICK l : l = Overlay(Prepared(m).list, w.list)
    OBVIOUS
  <2>2. /\ o.n = IF w.n = Keep THEN Prepared(m).n ELSE w.n
        /\ o.word = IF w.word = Keep THEN Prepared(m).word ELSE w.word
        /\ o.list = l
    BY <1>1, <1>4, <2>1 DEF Patch
  <2>3. /\ Prepared(m).n \in Nat /\ Prepared(m).word \in {0, Old}
        /\ Prepared(m).list \in Seq(Datum)
    BY PreparedIs
  <2>4. l \in Seq(Datum)
    BY <2>1, <2>3, OverlayIs
  <2> QED BY <1>2, <1>4, <2>1, <2>2, <2>3, <2>4
<1> QED BY <1>3, <1>4

-----------------------------------------------------------------------------
(* What the steps preserve. *)

LEMMA OutIs ==
    ASSUME NEW c, c.list \in Seq(Datum)
    PROVE  /\ OutOf(c) \in Out
           /\ c.op = "READ_MSGS" => OutOf(c).n = Len(c.list) /\ OutOf(c).list = c.list
           /\ c.op = "WRITE_MSGS" => OutOf(c).n = Len(c.list)
           /\ c.op # "READ_MSGS" /\ c.op # "WRITE_MSGS" => OutOf(c).n = 0
           /\ OutOf(c).word = Old
           /\ c.op = "GET_CONFIG" => OutOf(c).list = c.list
           /\ c.op = "FIVE_BAUD_INIT" => OutOf(c).list = <<Old, Old>>
           /\ c.op = "FAST_INIT" => OutOf(c).list = <<Old>>
           /\ c.op \notin {"READ_MSGS", "GET_CONFIG", "FIVE_BAUD_INIT", "FAST_INIT"} =>
                OutOf(c).list = <<>>
<1> USE DatumHas
<1>0. /\ <<>> \in Seq(Datum) /\ <<Old>> \in Seq(Datum) /\ <<Old, Old>> \in Seq(Datum)
      /\ Len(c.list) \in Nat /\ Old \in Datum
  OBVIOUS
<1>1. CASE c.op = "READ_MSGS"
  <2>1. OutOf(c) = [CountOut(Len(c.list)) EXCEPT !.list = c.list]
    BY <1>1, Zenon DEF OutOf
  <2>2. OutOf(c) = [n |-> Len(c.list), word |-> Old, list |-> c.list]
    BY <2>1 DEF CountOut
  <2> QED BY <1>0, <1>1, <2>2 DEF Out
<1>2. CASE c.op = "WRITE_MSGS"
  <2>1. OutOf(c) = [n |-> Len(c.list), word |-> Old, list |-> <<>>]
    BY <1>2, Zenon DEF OutOf, CountOut
  <2> QED BY <1>0, <1>2, <2>1 DEF Out
<1>3. CASE c.op = "GET_CONFIG"
  <2>1. OutOf(c) = [n |-> 0, word |-> Old, list |-> c.list]
    BY <1>3, Zenon DEF OutOf, ListOut
  <2> QED BY <1>0, <1>3, <2>1 DEF Out
<1>4. CASE c.op = "FIVE_BAUD_INIT"
  <2>1. OutOf(c) = [n |-> 0, word |-> Old, list |-> <<Old, Old>>]
    BY <1>4, Zenon DEF OutOf, ListOut
  <2> QED BY <1>0, <1>4, <2>1 DEF Out
<1>5. CASE c.op = "FAST_INIT"
  <2>1. OutOf(c) = [n |-> 0, word |-> Old, list |-> <<Old>>]
    BY <1>5, Zenon DEF OutOf, ListOut
  <2> QED BY <1>0, <1>5, <2>1 DEF Out
<1>6. CASE c.op \notin {"READ_MSGS", "WRITE_MSGS", "GET_CONFIG", "FIVE_BAUD_INIT", "FAST_INIT"}
  <2>1. OutOf(c) = [n |-> 0, word |-> Old, list |-> <<>>]
    BY <1>6, OutNone DEF NoOut
  <2> QED BY <1>0, <1>6, <2>1 DEF Out
<1> QED BY <1>1, <1>2, <1>3, <1>4, <1>5, <1>6

LEMMA AskedKeeps ==
    ASSUME MarshalInv, Asked
    PROVE  MarshalInv'
<1> USE DEF MarshalInv
<1>1. /\ main' = main /\ hJ2534' = hJ2534 /\ pointers' = pointers /\ main = "serve"
      /\ at = "app" /\ at' = "server" /\ calls' = calls + 1 /\ calls < MaxCalls
      /\ UNCHANGED <<args, ans, reply, buf, took, handles, known, untold,
                     arrived, read, running, config>>
  BY DEF Asked, loaderVars, appVars, libVars
<1>2. /\ call'.op \in Ops /\ call'.word \in Nat /\ call'.list \in Given(call'.op)
      /\ call'.out = OutOf(call')
  <2>1. /\ call'.op \in Ops /\ call'.word \in Nat /\ call'.list \in Given(call.op)'
        /\ call' = [op |-> call'.op, word |-> call'.word, list |-> call'.list,
                    out |-> OutOf(call')]
    BY <1>1 DEF Asked, Sent
  <2>2. Given(call.op)' = Given(call'.op)
    BY <1>1 DEF Given
  <2>3. PICK o : o = OutOf(call')
    OBVIOUS
  <2>4. call'.out = o
    <3>1. call' = [op |-> call'.op, word |-> call'.word, list |-> call'.list, out |-> o]
      BY <2>1, <2>3
    <3> QED BY <3>1
  <2> QED BY <2>1, <2>2, <2>3, <2>4
<1>3. call'.list \in Seq(Datum)
  BY <1>2, GivenIs DEF TypeOK, Shaped
<1>4. call'.out \in Out
  BY <1>2, <1>3, OutIs
<1>5. TypeOK'
  BY <1>1, <1>2, <1>3, <1>4, MarshalAssumption DEF TypeOK, LoaderTypeOK
<1>6. Ready'
  BY <1>1 DEF Ready
<1>7. Sent' /\ Answered'
  BY <1>1 DEF Asked, Answered
<1>8. \A op : ~Ahead(op) /\ ~Ahead(op)'
  BY <1>1 DEF Ahead
<1>9. MessagesTold'
  BY <1>1, <1>8 DEF MessagesTold
<1>10. PeriodicTold'
  BY <1>1, <1>8 DEF PeriodicTold, HandlesThen
<1>11. ConfigTold'
  BY <1>1, <1>8 DEF ConfigTold, KnownThen
<1> QED BY <1>5, <1>6, <1>7, <1>9, <1>10, <1>11

\* What the handler passes on: its list is as long as the command's, but for
\* a filter, and its elements are the command's.
LEMMA PassedIs ==
    ASSUME TypeOK, Sent, at # "app"
    PROVE  /\ Passed(cmd) \in Seq(Datum) /\ Len(Passed(cmd)) \in Nat
           /\ call.op \notin {"OPEN", "START_MSG_FILTER"} => Passed(cmd) = cmd.list
           /\ call.op \notin {"OPEN", "START_MSG_FILTER", "ADD_TO_FUNCT_MSG_LOOKUP_TABLE"}
                => Passed(cmd) = call.list
<1>1. /\ call.op \in Ops /\ Shaped(call.op, call.list) /\ cmd.op = call.op
      /\ cmd.list = Wire(call) /\ cmd.list \in Seq(Datum) /\ Len(cmd.list) = Len(call.list)
  BY InProgress, WireIs
<1>2. CASE call.op = "OPEN"
  <2>1. Passed(cmd) = <<Null>>
    BY <1>1, <1>2 DEF Passed
  <2> QED BY <1>2, <2>1, Singleton, DatumHas
<1>3. CASE call.op = "START_MSG_FILTER"
  <2>1. Len(cmd.list) = 3
    BY <1>1, <1>3 DEF Shaped
  <2>2. Passed(cmd) = cmd.list \/ Passed(cmd) = First(cmd.list, 2) \o <<Null>>
    BY <1>1, <1>3 DEF Passed
  <2>3. First(cmd.list, 2) \in Seq(Datum)
    <3>1. 2 \in 0 .. Len(cmd.list)
      BY <2>1
    <3> QED BY <1>1, <3>1, FirstIs
  <2>4. <<Null>> \in Seq(Datum)
    BY Singleton, DatumHas
  <2>5. Passed(cmd) \in Seq(Datum)
    BY <1>1, <2>2, <2>3, <2>4, ConcatProperties, Zenon
  <2> QED BY <1>3, <2>5
<1>4. CASE call.op \notin {"OPEN", "START_MSG_FILTER"}
  BY <1>1, <1>4, PassedSame, WireSame
<1> QED BY <1>2, <1>3, <1>4

LEMMA ExecutedKeeps ==
    ASSUME MarshalInv, Executed
    PROVE  MarshalInv'
<1> USE DEF MarshalInv
<1>1. /\ at = "server" /\ at' = "client"
      /\ args' = [op |-> cmd.op, word |-> cmd.word, list |-> Passed(cmd)]
      /\ ans' \in Successes(args') \cup Failures(args')
      /\ LibraryDoes(args', ans')
      /\ reply' = ReplyTo(cmd, ans')
      /\ UNCHANGED <<main, hJ2534, pointers, calls, call, cmd, buf, took, handles,
                     known, untold>>
  BY DEF Executed, loaderVars, appVars
<1>2. /\ call.op \in Ops /\ Shaped(call.op, call.list) /\ call.word \in Nat
      /\ cmd.op = call.op /\ cmd.word = call.word
      /\ cmd.list \in Seq(Datum) /\ Len(cmd.list) = Len(call.list)
  BY <1>1, InProgress, WireIs
<1>3. /\ args'.op = call.op /\ args'.word = call.word /\ args'.list = Passed(cmd)
      /\ Passed(cmd) \in Seq(Datum) /\ Len(Passed(cmd)) \in Nat
      /\ call.op \notin {"OPEN", "START_MSG_FILTER", "ADD_TO_FUNCT_MSG_LOOKUP_TABLE"}
           => args'.list = call.list
  BY <1>1, <1>2, PassedIs
<1>4. /\ ans' = Answer(ans'.status, ans'.n, ans'.word, ans'.list)
      /\ ans'.status \in Status
      /\ IF ans'.status = "ERR_FAILED"
           THEN ans' \in Failures(args')
           ELSE AnswerOf(args.op, Len(args.list), ans)'
  BY AnswerDoes
<1>5. /\ ans'.n \in Nat \cup {Keep} /\ ans'.word \in Nat \cup {Keep}
      /\ ans'.list \in Seq(Datum)
  <2>1. call.op = "GET_CONFIG" => Len(args'.list) \in 0 .. Params
    BY <1>2, <1>3, MarshalAssumption DEF Shaped
  <2>2. PICK a : a = args'
    OBVIOUS
  <2>3. PICK n \in Nat : n = Len(a.list)
    BY <1>3, <2>2
  <2> QED BY <1>1, <1>2, <1>3, <2>1, <2>2, <2>3, AnswerTyped
<1>6. /\ reply'.status \in Status /\ reply'.n \in Nat /\ reply'.word \in Datum
      /\ reply'.list \in Seq(Datum)
  BY <1>1, <1>2, <1>4, <1>5, ReplyToIs, DatumHas
<1> DEFINE done == ans'.status # "ERR_FAILED"
<1>8. /\ read' = IF done /\ call.op = "READ_MSGS" THEN read + ans'.n ELSE read
      /\ running' = IF ~done THEN running
           ELSE IF call.op = "START_PERIODIC_MSG"
             THEN running \cup {<<ans'.word, args'.list[1]>>}
           ELSE IF call.op = "STOP_PERIODIC_MSG"
             THEN {r \in running : r[1] # call.word}
           ELSE IF call.op = "CLEAR_PERIODIC_MSGS" THEN {}
           ELSE running
      /\ config' = IF done /\ call.op = "SET_CONFIG" THEN Overlay(config, args'.list)
                                                     ELSE config
      /\ arrived' = arrived
  BY <1>1, <1>3, Zenon DEF LibraryDoes
<1>9. done /\ call.op = "READ_MSGS" => ans'.n \in 0 .. Least(Len(call.list), arrived - read)
  <2> SUFFICES ASSUME done, call.op = "READ_MSGS"
               PROVE  ans'.n \in 0 .. Least(Len(call.list), arrived - read)
    OBVIOUS
  <2>1. ans' = ReadAnswer(Len(call.list))
    BY <1>1, <1>2, <1>3, FailuresAre, SuccessesAre
  <2>2. ans'.n = Least(Len(call.list), arrived - read)
    BY <2>1 DEF ReadAnswer, Answer
  <2> QED BY <1>2, <2>2, MarshalAssumption DEF Shaped, Least, TypeOK
<1>10. done /\ call.op = "START_PERIODIC_MSG" =>
           /\ ans'.word \in Ids /\ args'.list = call.list /\ args'.list[1] \in Nat
  <2> SUFFICES ASSUME done, call.op = "START_PERIODIC_MSG"
               PROVE  ans'.word \in Ids /\ args'.list = call.list /\ args'.list[1] \in Nat
    OBVIOUS
  <2>1. PICK i \in Ids : ans' = Succeeds(Keep, i, <<>>)
    BY <1>1, <1>2, <1>3, FailuresAre, SuccessesAre
  <2>2. ans'.word \in Ids
    BY <2>1 DEF Succeeds, Answer
  <2>3. args'.list = call.list /\ call.list[1] \in {1, 2}
    BY <1>2, <1>3 DEF Shaped
  <2> QED BY <2>2, <2>3
<1>11. done /\ call.op = "SET_CONFIG" =>
           /\ args'.list = call.list /\ call.list \in Seq(Words)
           /\ config' = Overlay(config, call.list)
  BY <1>2, <1>3, <1>8 DEF Shaped
<1>12. config' \in [1 .. Params -> Nat]
  <2>1. CASE done /\ call.op = "SET_CONFIG"
    <3>1. config \in Seq(Nat) /\ Len(config) = Params
      BY IsSequence, MarshalAssumption DEF TypeOK
    <3>2. call.list \in Seq(Nat)
      BY <1>11, <2>1, SeqWidens, MarshalAssumption
    <3>3. config' \in Seq(Nat) /\ Len(config') = Params
      BY <1>11, <2>1, <3>1, <3>2, OverlayIs
    <3> QED BY <3>3, IsFunction
  <2>2. CASE ~(done /\ call.op = "SET_CONFIG")
    BY <1>8, <2>2 DEF TypeOK
  <2> QED BY <2>1, <2>2
<1>13. arrived' \in 0 .. BusLen /\ read' \in 0 .. arrived'
  <2>1. /\ arrived \in Nat /\ read \in Nat /\ read <= arrived /\ arrived <= BusLen
        /\ BusLen \in Nat
    BY MarshalAssumption DEF TypeOK
  <2>2. done /\ call.op = "READ_MSGS" => ans'.n \in Nat /\ ans'.n <= arrived - read
    BY <1>2, <1>9, <2>1, MarshalAssumption DEF Least, Shaped
  <2>3. read' \in Nat /\ read' <= arrived
    BY <1>8, <2>1, <2>2
  <2> QED BY <1>8, <2>1, <2>3
<1>14. running' \subseteq Ids \X Nat
  BY <1>8, <1>10 DEF TypeOK
<1>15. TypeOK'
  BY <1>1, <1>6, <1>12, <1>13, <1>14 DEF TypeOK, LoaderTypeOK
<1>16. Ready'
  BY <1>1 DEF Ready
<1>17. Sent'
  <2>1. Given(call.op)' = Given(call.op)
    BY <1>1 DEF Given
  <2>2. Wire(call)' = Wire(call) /\ OutOf(call)' = OutOf(call)
    BY <1>1 DEF Wire, OutOf
  <2> QED BY <1>1, <2>1, <2>2 DEF Sent
<1>18. Answered'
  <2>1. ans' \in [status : Status, n : Nat \cup {Keep}, word : Nat \cup {Keep},
                  list : Seq(Datum)]
    BY <1>4, <1>5 DEF Answer
  <2>2. Passed(cmd)' = Passed(cmd) /\ ReplyTo(cmd, ans)' = ReplyTo(cmd, ans')
    BY <1>1 DEF Passed, ReplyTo, Prepared
  <2>3. Failures(args)' = Failures(args')
    BY DEF Failures
  <2> QED BY <1>1, <1>4, <2>1, <2>2, <2>3 DEF Answered
<1>19. \A op : ~Ahead(op) /\ (Ahead(op)' <=> done /\ call.op = op)
  BY <1>1 DEF Ahead
<1>20. MessagesTold'
  <2> SUFFICES ASSUME "messages" \notin untold
               PROVE  took = [i \in 1 .. (read - IF Ahead("READ_MSGS") THEN ans.n ELSE 0) |-> i]'
    BY <1>1 DEF MessagesTold
  <2>1. took = [i \in 1 .. read |-> i] /\ read \in Nat
    BY <1>19 DEF MessagesTold, TypeOK
  <2>2. read' - (IF Ahead("READ_MSGS")' THEN ans'.n ELSE 0) = read
    BY <1>8, <1>9, <1>19, <2>1 DEF Least
  <2> QED BY <2>1, <2>2
<1>21. PeriodicTold'
  <2> SUFFICES ASSUME "periodic" \notin untold PROVE (running = HandlesThen)'
    BY <1>1 DEF PeriodicTold
  <2>1. running = handles
    BY <1>19 DEF PeriodicTold, HandlesThen
  <2> HIDE DEF done
  <2> QED BY <1>1, <1>8, <1>10, <1>19, <2>1 DEF HandlesThen
<1>22. ConfigTold'
  <2> SUFFICES ASSUME "config" \notin untold, NEW p \in 1 .. Params
               PROVE  \/ KnownThen'[p] = config'[p]
                      \/ (KnownThen'[p] = Old /\ config'[p] = 0)
    BY <1>1 DEF ConfigTold
  <2>1. known[p] = config[p] \/ (known[p] = Old /\ config[p] = 0)
    BY <1>19 DEF ConfigTold, KnownThen
  <2>2. CASE done /\ call.op = "SET_CONFIG"
    <3>1. KnownThen' = Overlay(known, call.list)
      BY <1>1, <1>19, <2>2 DEF KnownThen, Overlay
    <3>2. config' = Overlay(config, call.list)
      BY <1>11, <2>2
    <3>3. Len(known) = Params /\ Len(config) = Params
      BY IsSequence, MarshalAssumption DEF TypeOK
    <3> QED BY <2>1, <3>1, <3>2, <3>3 DEF Overlay
  <2>3. CASE ~(done /\ call.op = "SET_CONFIG")
    <3>1. KnownThen' = known /\ config' = config
      BY <1>1, <1>8, <1>19, <2>3 DEF KnownThen
    <3> QED BY <2>1, <3>1
  <2> QED BY <2>2, <2>3
<1> QED BY <1>15, <1>16, <1>17, <1>18, <1>20, <1>21, <1>22

\* What the client has before it when the reply is there.
LEMMA ReplyIs ==
    ASSUME TypeOK, Sent, Answered, at = "client"
    PROVE  /\ args.op = call.op /\ args.word = call.word /\ args.list = Passed(cmd)
           /\ ans.status \in Status /\ reply.status = ans.status
           /\ ans.n \in Nat \cup {Keep} /\ ans.word \in Nat \cup {Keep}
           /\ ans.list \in Seq(Datum)
           /\ reply.n \in Nat /\ reply.word \in Nat \cup {Old} /\ reply.list \in Seq(Datum)
           /\ ans.status = "ERR_FAILED" =>
                /\ ans.n = Keep /\ ans.list = <<>>
                /\ ans.word = Keep \/ (call.op = "READ_VERSION" /\ ans.word \in Words)
           /\ ans.status # "ERR_FAILED" => AnswerOf(call.op, Len(Passed(cmd)), ans)
           /\ ~(call.op = "READ_VERSION" /\ ans.status = "ERR_FAILED") =>
                /\ reply.n = IF ans.n = Keep THEN Prepared(cmd).n ELSE ans.n
                /\ reply.word = IF ans.word = Keep THEN Prepared(cmd).word ELSE ans.word
                /\ reply.list = Overlay(Prepared(cmd).list, ans.list)
           /\ (call.op = "READ_VERSION" /\ ans.status = "ERR_FAILED") =>
                /\ reply.n = 0 /\ reply.word = 0 /\ reply.list = <<>>
<1>1. /\ call.op \in Ops /\ Shaped(call.op, call.list) /\ cmd.op = call.op
      /\ cmd.word = call.word /\ cmd.list \in Seq(Datum)
  BY InProgress, WireIs
<1>2. /\ args = [op |-> cmd.op, word |-> cmd.word, list |-> Passed(cmd)]
      /\ ans \in [status : Status, n : Nat \cup {Keep}, word : Nat \cup {Keep},
                  list : Seq(Datum)]
      /\ IF ans.status = "ERR_FAILED" THEN ans \in Failures(args)
                                      ELSE AnswerOf(args.op, Len(args.list), ans)
      /\ reply = ReplyTo(cmd, ans)
  BY DEF Answered
<1>3. PICK l : l = Passed(cmd)
  OBVIOUS
<1>4. args.op = call.op /\ args.word = call.word /\ args.list = l
  BY <1>1, <1>2, <1>3
<1>5. /\ ans.status \in Status /\ ans.n \in Nat \cup {Keep} /\ ans.word \in Nat \cup {Keep}
      /\ ans.list \in Seq(Datum)
  BY <1>2
<1>6. ans.status = "ERR_FAILED" =>
         /\ ans.n = Keep /\ ans.list = <<>>
         /\ ans.word = Keep \/ (call.op = "READ_VERSION" /\ ans.word \in Words)
  BY <1>2, <1>4, FailuresAre
<1>7. ans.status # "ERR_FAILED" => AnswerOf(call.op, Len(l), ans)
  BY <1>2, <1>4
<1> QED BY <1>1, <1>2, <1>3, <1>4, <1>5, <1>6, <1>7, ReplyToIs

\* What the client makes of the reply, part by part.
LEMMA TakenIs ==
    ASSUME NEW c, NEW r, c.op \in Ops, c.out \in Out
    PROVE  /\ Taken(c, r).n = IF c.op = "WRITE_MSGS" THEN r.n ELSE c.out.n
           /\ Taken(c, r).word = IF c.op = "START_PERIODIC_MSG" THEN r.word % IdSpan
                                 ELSE IF c.op \in Wordy THEN r.word ELSE c.out.word
           /\ c.op = "READ_MSGS" =>
                Taken(c, r).list = Overlay(c.out.list, First(r.list, r.n))
           /\ c.op \in {"GET_CONFIG", "FIVE_BAUD_INIT", "FAST_INIT"} =>
                Taken(c, r).list = r.list
           /\ c.op \notin {"READ_MSGS", "GET_CONFIG", "FIVE_BAUD_INIT", "FAST_INIT"} =>
                Taken(c, r).list = c.out.list
<1>0. PICK o \in Out : o = c.out
  OBVIOUS
<1>1. CASE c.op = "READ_MSGS"
  <2>1. Taken(c, r) = ReadMsgsReply(o, r)
    BY <1>0, <1>1, Zenon DEF Taken, IoctlOps
  <2> QED BY <1>0, <1>1, <2>1 DEF ReadMsgsReply, Out, Wordy, Volts
<1>2. CASE c.op = "WRITE_MSGS"
  <2>1. Taken(c, r) = WriteMsgsReply(o, r)
    BY <1>0, <1>2, Zenon DEF Taken, IoctlOps
  <2> QED BY <1>0, <1>2, <2>1 DEF WriteMsgsReply, Out, Wordy, Volts
<1>3. CASE c.op = "START_PERIODIC_MSG"
  <2>1. Taken(c, r) = PeriodicReply(o, r)
    BY <1>0, <1>3, Zenon DEF Taken, IoctlOps
  <2> QED BY <1>0, <1>3, <2>1 DEF PeriodicReply, Out
<1>4. CASE c.op \in Wordy
  <2>1. Taken(c, r) = WordReply(o, r)
    <3>1. CASE c.op \in Volts
      <4>1. Taken(c, r) = IoctlReply(c.op, o, r)
        BY <1>0, <3>1, Zenon DEF Taken, IoctlOps, Volts
      <4>2. IoctlReply(c.op, o, r) = WordReply(o, r)
        BY <3>1, Zenon DEF IoctlReply, Volts
      <4> QED BY <4>1, <4>2
    <3>2. CASE c.op \in Wordy \ Volts
      BY <1>0, <3>2, Zenon DEF Taken, IoctlOps, Wordy
    <3> QED BY <1>4, <3>1, <3>2
  <2> QED BY <1>0, <1>4, <2>1 DEF WordReply, Out, Wordy, Volts
<1>5. CASE c.op \in {"GET_CONFIG", "FIVE_BAUD_INIT", "FAST_INIT"}
  <2>1. Taken(c, r) = IoctlReply(c.op, o, r)
    BY <1>0, <1>5, Zenon DEF Taken, IoctlOps
  <2>2. Taken(c, r) = [o EXCEPT !.list = r.list]
    BY <1>5, <2>1, Zenon DEF IoctlReply, Volts
  <2> QED BY <1>0, <1>5, <2>2 DEF Out, Wordy, Volts
<1>6. CASE c.op \notin Wordy \cup {"READ_MSGS", "WRITE_MSGS", "START_PERIODIC_MSG",
                                   "GET_CONFIG", "FIVE_BAUD_INIT", "FAST_INIT"}
  <2>1. Taken(c, r) = o
    <3>1. CASE c.op \in IoctlOps
      <4>1. Taken(c, r) = IoctlReply(c.op, o, r)
        BY <1>0, <3>1, Zenon DEF Taken, IoctlOps
      <4>2. IoctlReply(c.op, o, r) = o
        BY <1>6, Zenon DEF IoctlReply, Wordy
      <4> QED BY <4>1, <4>2
    <3>2. CASE c.op \notin IoctlOps
      BY <1>0, <1>6, <3>2, Zenon DEF Taken, Wordy
    <3> QED BY <3>1, <3>2
  <2> QED BY <1>0, <1>6, <2>1
<1> QED BY <1>1, <1>2, <1>3, <1>4, <1>5, <1>6

\* The variables of a read, before and after it returns: the count is always
\* the one asked for, and the list has the new messages at its start.
LEMMA ReadIs ==
    ASSUME TypeOK, Sent, Answered, at = "client", call.op = "READ_MSGS"
    PROVE  /\ Taken(call, reply).n = Len(call.list)
           /\ Len(call.list) \in 1 .. MaxMsgs
           /\ reply.n \in 0 .. Len(call.list)
           /\ Taken(call, reply).list \in Seq(Datum)
           /\ Len(Taken(call, reply).list) = Len(call.list)
           /\ Taken(call, reply).list = Overlay(call.list, ans.list)
           /\ ans.status # "ERR_FAILED" =>
                /\ ans.n = reply.n /\ ans.n <= read
                /\ ans.list = [i \in 1 .. ans.n |-> (read - ans.n) + i]
                /\ ans.status = "STATUS_NOERROR" => ans.n = Len(call.list)
                /\ ans.status = "ERR_BUFFER_EMPTY" => ans.n = 0
           /\ ans.status = "ERR_FAILED" => ans.list = <<>>
<1>1. /\ call.op \in Ops /\ Shaped(call.op, call.list) /\ cmd.op = call.op
      /\ call.out = OutOf(call) /\ cmd.list = call.list
  BY InProgress, WireSame
<1>2. PICK n \in 1 .. MaxMsgs : n = Len(call.list)
  BY <1>1 DEF Shaped
<1>3. call.list \in Seq(Datum) /\ Passed(cmd) = call.list
  BY <1>1, PassedSame DEF Shaped
<1>4. call.out.n = n /\ call.out.list = call.list /\ call.out \in Out
  BY <1>1, <1>2, <1>3, OutIs
<1>5. Prepared(cmd).n = n /\ Prepared(cmd).list = call.list
  BY <1>1, <1>2, <1>3, PreparedIs
<1>6. /\ reply.n = IF ans.n = Keep THEN n ELSE ans.n
      /\ reply.list = Overlay(call.list, ans.list)
      /\ reply.list \in Seq(Datum) /\ ans.list \in Seq(Datum)
  BY <1>5, ReplyIs
<1>7. Len(reply.list) = n
  BY <1>2, <1>3, <1>6, OverlayIs
<1>8. CASE ans.status = "ERR_FAILED"
  <2>1. ans.n = Keep /\ ans.list = <<>> /\ reply.n = n
    BY <1>6, <1>8, ReplyIs
  <2>2. reply.list = call.list
    BY <1>3, <1>6, <2>1, OverlayEmpty
  <2>3. First(reply.list, reply.n) = call.list
    BY <1>2, <1>3, <2>1, <2>2, WholeFirst
  <2>4. Overlay(call.list, call.list) = call.list
    BY <1>3, OverlayIs
  <2>6. Taken(call, reply).n = n /\ Taken(call, reply).list = call.list
    BY <1>1, <1>4, <2>3, <2>4, TakenIs
  <2> QED BY <1>2, <1>3, <1>6, <1>8, <2>1, <2>2, <2>6
<1>9. CASE ans.status # "ERR_FAILED"
  <2>1. /\ ans.n \in 0 .. Least(n, read)
        /\ ans.list = [i \in 1 .. ans.n |-> (read - ans.n) + i]
        /\ ans.status = "STATUS_NOERROR" => ans.n = n
        /\ ans.status = "ERR_BUFFER_EMPTY" => ans.n = 0
    BY <1>1, <1>2, <1>3, <1>9, ReplyIs, AnswerOfAre
  <2>2. PICK k \in Nat : k = ans.n /\ k <= n /\ k <= read
    BY <1>2, <2>1, MarshalAssumption DEF Least, TypeOK
  <2>3. reply.n = k
    BY <1>6, <2>2, MarshalAssumption
  <2>4. Len(ans.list) = k
    BY <2>1, <2>2
  <2>5. First(reply.list, k) = [i \in 1 .. k |-> reply.list[i]]
    <3>1. k \in 0 .. Len(reply.list)
      BY <1>7, <2>2
    <3>2. PICK l \in Seq(Datum) : l = reply.list
      BY <1>6
    <3> QED BY <3>1, <3>2, FirstIs
  <2>6. \A i \in 1 .. k : reply.list[i] = ans.list[i]
    <3>1. reply.list = [i \in 1 .. n |-> IF i <= k THEN ans.list[i] ELSE call.list[i]]
      BY <1>2, <1>6, <2>4 DEF Overlay
    <3> QED BY <2>2, <3>1
  <2>7. First(reply.list, k) = ans.list
    <3>1. ans.list = [i \in 1 .. k |-> ans.list[i]]
      BY <2>1, <2>2
    <3> QED BY <2>5, <2>6, <3>1
  <2>9. PICK l : l = Overlay(call.list, ans.list)
    OBVIOUS
  <2>10. Taken(call, reply).n = n /\ Taken(call, reply).list = l
    BY <1>1, <1>4, <2>3, <2>7, <2>9, TakenIs
  <2>11. l \in Seq(Datum) /\ Len(l) = n
    BY <1>6, <1>7, <2>9
  <2> QED BY <1>2, <1>9, <2>1, <2>2, <2>3, <2>9, <2>10, <2>11
<1> QED BY <1>8, <1>9

\* Two runs of consecutive messages make one.
LEMMA RunsJoin ==
    ASSUME NEW s, NEW t, NEW m \in Nat, NEW n \in Nat,
           s = [i \in 1 .. m |-> i], t = [i \in 1 .. n |-> m + i]
    PROVE  s \o t = [i \in 1 .. (m + n) |-> i]
<1>1. s \in [1 .. m -> Nat] /\ t \in [1 .. n -> Nat]
  OBVIOUS
<1>2. s \in Seq(Nat) /\ t \in Seq(Nat) /\ Len(s) = m /\ Len(t) = n
  BY <1>1, IsSequence
<1>3. s \o t \in Seq(Nat) /\ Len(s \o t) = m + n
  BY <1>2
<1>4. \A i \in 1 .. (m + n) : (s \o t)[i] = i
  <2> TAKE i \in 1 .. (m + n)
  <2>1. (s \o t)[i] = IF i <= m THEN s[i] ELSE t[i - m]
    BY <1>2, ConcatProperties
  <2>2. CASE i <= m
    BY <2>1, <2>2
  <2>3. CASE i > m
    <3>1. i - m \in 1 .. n
      BY <2>3
    <3> QED BY <2>1, <2>3, <3>1
  <2> QED BY <2>2, <2>3
<1>5. PICK l \in Nat : l = m + n
  OBVIOUS
<1>6. s \o t \in [1 .. l -> Nat]
  BY <1>3, <1>5, IsFunction
<1> QED BY <1>4, <1>5, <1>6

LEMMA ReturnKeepsTypes ==
    ASSUME MarshalInv, Return
    PROVE  TypeOK'
<1> USE DEF MarshalInv
<1> DEFINE got == Taken(call, reply)
<1>1. /\ at = "client" /\ at' = "app" /\ call' = NoCall /\ reply' = NoCall
      /\ UNCHANGED <<main, hJ2534, pointers, calls, arrived, read, running, config>>
  BY DEF Return, Done, loaderVars, libVars
<1>2. /\ call.op \in Ops /\ Shaped(call.op, call.list) /\ call.word \in Nat
      /\ call.out = OutOf(call) /\ cmd.op = call.op
  BY <1>1, InProgress
<1>3. call.list \in Seq(Datum) /\ call.out \in Out
  BY <1>2, OutIs DEF Shaped
<1>4. buf' \in [1 .. MaxMsgs -> Datum] /\ took' \in Seq(Datum)
  <2>1. CASE call.op = "READ_MSGS"
    <3>1. /\ got.n \in 0 .. Len(got.list) /\ got.list \in Seq(Datum)
      BY <1>1, <2>1, ReadIs
    <3>2. buf' = Overlay(buf, got.list)
      BY <2>1 DEF Return
    <3>3. took' = took \/ took' = took \o First(got.list, got.n)
      BY <2>1 DEF Return
    <3> HIDE DEF got
    <3>4. buf \in Seq(Datum) /\ Len(buf) = MaxMsgs
      BY IsSequence, MarshalAssumption DEF TypeOK
    <3>5. buf' \in Seq(Datum) /\ Len(buf') = MaxMsgs
      BY <3>1, <3>2, <3>4, OverlayIs
    <3>6. First(got.list, got.n) \in Seq(Datum)
      BY <3>1, FirstIs
    <3>7. took' \in Seq(Datum)
      <4>1. took \in Seq(Datum)
        BY DEF TypeOK
      <4>2. PICK f \in Seq(Datum) : f = First(got.list, got.n)
        BY <3>6
      <4>3. took \o f \in Seq(Datum)
        BY <4>1
      <4> QED BY <3>3, <4>1, <4>2, <4>3
    <3> QED BY <3>5, <3>7, IsFunction
  <2>2. CASE call.op # "READ_MSGS"
    BY <2>2 DEF Return, TypeOK
  <2> QED BY <2>1, <2>2
<1>5. handles' \subseteq Nat \X Nat
  <2>1. CASE call.op = "START_PERIODIC_MSG" /\ reply.status = "STATUS_NOERROR"
    <3>1. handles' = handles \cup {<<got.word, call.list[1]>>}
      BY <2>1 DEF Return
    <3>2. got.word = reply.word % IdSpan
      BY <1>2, <1>3, <2>1, TakenIs
    <3>3. reply.word \in Nat
      <4>1. ans.status # "ERR_FAILED"
        BY <1>1, <2>1, ReplyIs
      <4>2. AnswerOf(call.op, Len(Passed(cmd)), ans)
        BY <1>1, <4>1, ReplyIs
      <4>3. ans.word \in Nat
        BY <1>2, <2>1, <4>2, AnswerOfAre, MarshalAssumption
      <4> QED BY <1>1, <2>1, <4>1, <4>3, ReplyIs, MarshalAssumption
    <3>4. call.list[1] \in Nat
      BY <1>2, <2>1 DEF Shaped
    <3>5. got.word \in Nat
      BY <3>2, <3>3, MarshalAssumption
    <3> QED BY <3>1, <3>4, <3>5 DEF TypeOK
  <2>2. CASE ~(call.op = "START_PERIODIC_MSG" /\ reply.status = "STATUS_NOERROR")
    <3>1. handles' \subseteq handles
      BY <2>2 DEF Return
    <3> QED BY <3>1 DEF TypeOK
  <2> QED BY <2>1, <2>2
<1>6. known' \in [1 .. Params -> Datum]
  <2>1. PICK s \in Seq(Datum) : known' = known \/ known' = Overlay(known, s)
    <3>1. CASE call.op = "SET_CONFIG"
      BY <1>3, <3>1 DEF Return
    <3>2. CASE call.op = "GET_CONFIG"
      <4>1. got.list = reply.list /\ reply.list \in Seq(Datum)
        BY <1>1, <1>2, <1>3, <3>2, TakenIs, ReplyIs
      <4> QED BY <3>2, <4>1 DEF Return
    <3>3. CASE call.op \notin Configs
      BY <1>3, <3>3 DEF Return, Configs
    <3> QED BY <3>1, <3>2, <3>3 DEF Configs
  <2>2. known \in Seq(Datum) /\ Len(known) = Params
    BY IsSequence, MarshalAssumption DEF TypeOK
  <2>3. known' \in Seq(Datum) /\ Len(known') = Params
    BY <2>1, <2>2, OverlayIs
  <2> QED BY <2>3, IsFunction
<1>7. untold' \subseteq {"messages", "periodic", "config"}
  BY DEF Return, NotTold, TypeOK
<1> QED BY <1>1, <1>4, <1>5, <1>6, <1>7 DEF TypeOK, LoaderTypeOK

LEMMA ReturnKeepsMessages ==
    ASSUME MarshalInv, Return
    PROVE  MessagesTold'
<1> USE DEF MarshalInv
<1> SUFFICES ASSUME "messages" \notin untold'
             PROVE  took' = [i \in 1 .. (read - 0) |-> i]
  BY DEF MessagesTold, Ahead, Return, libVars
<1>1. at = "client" /\ "messages" \notin untold
  BY DEF Return
<1>2. took = [i \in 1 .. (read - IF Ahead("READ_MSGS") THEN ans.n ELSE 0) |-> i]
  BY <1>1 DEF MessagesTold
<1>3. read \in Nat
  BY DEF TypeOK
<1>4. reply.status = ans.status /\ ans.status \in Status
  BY <1>1, ReplyIs
<1>5. CASE call.op # "READ_MSGS" \/ ans.status = "ERR_FAILED"
  <2>1. took' = took
    BY <1>4, <1>5 DEF Return
  <2> QED BY <1>2, <1>3, <1>5, <2>1 DEF Ahead
<1>6. CASE call.op = "READ_MSGS" /\ ans.status # "ERR_FAILED"
  <2>0. reply.status # "ERR_TIMEOUT"
    <3>1. ~(call.op = "READ_MSGS" /\ reply.status = "ERR_TIMEOUT")
      <4> SUFFICES ASSUME call.op = "READ_MSGS", reply.status = "ERR_TIMEOUT" PROVE FALSE
        OBVIOUS
      <4>1. "messages" \in NotTold
        BY DEF NotTold
      <4> QED BY <4>1 DEF Return
    <3> QED BY <1>6, <3>1
  <2>1. PICK n \in 1 .. MaxMsgs : n = Len(call.list)
    BY <1>1, <1>6, ReadIs
  <2>2. PICK l \in Seq(Datum) : l = Taken(call, reply).list
    BY <1>1, <1>6, ReadIs
  <2>3. PICK k \in 0 .. n : k = ans.n
    BY <1>1, <1>6, <2>1, ReadIs
  <2>4. /\ Taken(call, reply).n = n /\ Len(l) = n /\ l = Overlay(call.list, ans.list)
        /\ k <= read /\ ans.list = [i \in 1 .. k |-> (read - k) + i]
        /\ ans.status = "STATUS_NOERROR" => k = n
        /\ ans.status = "ERR_BUFFER_EMPTY" => k = 0
    BY <1>1, <1>6, <2>1, <2>2, <2>3, ReadIs
  <2>5. PICK m \in Nat : m = read - k
    BY <1>3, <2>3, <2>4
  <2>6. took = [i \in 1 .. m |-> i]
    BY <1>1, <1>2, <1>6, <2>3, <2>5 DEF Ahead
  <2>7. CASE ans.status = "STATUS_NOERROR"
    <3>1. took' = took \o First(l, n)
      BY <1>4, <1>6, <2>2, <2>4, <2>7 DEF Return
    <3>2. First(l, n) = l
      BY <2>4, WholeFirst
    <3>3. Len(ans.list) = n
      BY <2>1, <2>4, <2>7
    <3>4. l = [i \in 1 .. n |-> m + i]
      BY <2>1, <2>4, <2>5, <2>7, <3>3 DEF Overlay
    <3>5. took \o l = [i \in 1 .. (m + n) |-> i]
      BY <2>1, <2>6, <3>4, RunsJoin
    <3>6. m + n = read - 0
      <4>1. k = n /\ k \in Nat /\ k <= read /\ m = read - k
        BY <2>3, <2>4, <2>5, <2>7
      <4> QED BY <1>3, <4>1
    <3> QED BY <3>1, <3>2, <3>5, <3>6
  <2>8. CASE ans.status = "ERR_BUFFER_EMPTY"
    <3>1. took' = took
      BY <1>4, <2>8 DEF Return
    <3>2. m = read - 0
      BY <1>3, <2>4, <2>5, <2>8
    <3> QED BY <2>6, <3>1, <3>2
  <2> QED BY <1>4, <1>6, <2>0, <2>7, <2>8 DEF Status
<1> QED BY <1>5, <1>6

\* The kinds of calls that the results of a call tell apart.
LEMMA NotWordy ==
    /\ Wordy \cap ({"READ_MSGS", "WRITE_MSGS", "START_PERIODIC_MSG", "FIVE_BAUD_INIT",
                    "FAST_INIT"} \cup Configs) = {}
    /\ "READ_VERSION" \in Wordy
BY DEF Wordy, Volts, Configs

\* What the library has answered, when it did not fail.
LEMMA AnswerIs ==
    ASSUME TypeOK, Sent, Answered, at = "client", ans.status # "ERR_FAILED"
    PROVE  /\ call.op \notin {"READ_MSGS", "WRITE_MSGS"} =>
                ans.status = "STATUS_NOERROR" /\ ans.n = Keep
           /\ call.op = "READ_MSGS" => ans.word = Keep
           /\ call.op = "WRITE_MSGS" =>
                /\ ans.n \in 0 .. Len(Passed(cmd)) /\ ans.word = Keep
                /\ ans.list = <<>>
           /\ call.op \in Wordy => ans.word \in Words /\ ans.list = <<>>
           /\ call.op = "START_PERIODIC_MSG" => ans.word \in Ids /\ ans.list = <<>>
           /\ call.op \notin Wordy \cup {"START_PERIODIC_MSG", "READ_MSGS", "WRITE_MSGS"} =>
                /\ ans.word = Keep
                /\ call.op = "GET_CONFIG" => ans.list = First(config, Len(Passed(cmd)))
                /\ call.op = "FIVE_BAUD_INIT" => ans.list = <<2, 1>>
                /\ call.op = "FAST_INIT" => ans.list = <<2>>
                /\ call.op \notin {"GET_CONFIG", "FIVE_BAUD_INIT", "FAST_INIT"} =>
                     ans.list = <<>>
<1>1. PICK op \in Ops : op = call.op
  BY InProgress
<1>2. PICK n \in Nat : n = Len(Passed(cmd))
  BY PassedIs
<1>3. AnswerOf(op, n, ans)
  BY <1>1, <1>2, ReplyIs
<1>4. Wordy \cap {"START_PERIODIC_MSG", "READ_MSGS", "WRITE_MSGS"} = {}
  BY NotWordy
<1>5. CASE op = "READ_MSGS"
  <2>1. ans.word = Keep
    BY <1>3, <1>5, Zenon DEF AnswerOf, Wordy, Volts
  <2> QED BY <1>1, <1>4, <1>5, <2>1
<1>6. CASE op = "WRITE_MSGS"
  <2>1. ans.n \in 0 .. n /\ ans.word = Keep /\ ans.list = <<>>
    BY <1>3, <1>6, Zenon DEF AnswerOf, Wordy, Volts
  <2> QED BY <1>1, <1>2, <1>4, <1>6, <2>1
<1>7. CASE op \in Wordy \cup {"START_PERIODIC_MSG"}
  <2>1. /\ ans.status = "STATUS_NOERROR" /\ ans.n = Keep
        /\ ans.word \in (IF op \in Wordy THEN Words ELSE Ids)
        /\ ans.list = <<>>
    <3>1. op \notin {"READ_MSGS", "WRITE_MSGS"}
      BY <1>7 DEF Wordy, Volts
    <3> QED BY <1>3, <1>7, <3>1, Zenon DEF AnswerOf
  <2> QED BY <1>1, <1>4, <1>7, <2>1
<1>8. CASE op \notin Wordy \cup {"START_PERIODIC_MSG", "READ_MSGS", "WRITE_MSGS"}
  <2>0. /\ ans.status = "STATUS_NOERROR" /\ ans.n = Keep /\ ans.word = Keep
        /\ ans.list = CASE op = "GET_CONFIG"     -> First(config, n)
                        [] op = "FIVE_BAUD_INIT" -> <<2, 1>>
                        [] op = "FAST_INIT"      -> <<2>>
                        [] OTHER                 -> <<>>
    BY <1>3, <1>8, Zenon DEF AnswerOf
  <2>1. /\ ans.status = "STATUS_NOERROR" /\ ans.n = Keep /\ ans.word = Keep
        /\ op = "GET_CONFIG" => ans.list = First(config, n)
        /\ op = "FIVE_BAUD_INIT" => ans.list = <<2, 1>>
        /\ op = "FAST_INIT" => ans.list = <<2>>
        /\ op \notin {"GET_CONFIG", "FIVE_BAUD_INIT", "FAST_INIT"} => ans.list = <<>>
    BY <2>0
  <2> QED BY <1>1, <1>2, <1>8, <2>1
<1> QED BY <1>5, <1>6, <1>7, <1>8

LEMMA ReturnKeepsPeriodic ==
    ASSUME MarshalInv, Return
    PROVE  PeriodicTold'
<1> USE DEF MarshalInv
<1> SUFFICES ASSUME "periodic" \notin untold' PROVE running = handles'
  BY DEF PeriodicTold, HandlesThen, Ahead, Return, libVars
<1>1. at = "client" /\ "periodic" \notin untold
  BY DEF Return
<1>2. running = HandlesThen
  BY <1>1 DEF PeriodicTold
<1>3. call.op \in Ops /\ call.out \in Out
  BY <1>1, InProgress, OutIs DEF Shaped
<1>4. reply.status = ans.status /\ ans.status \in Status
  BY <1>1, ReplyIs
<1>5. CASE ans.status = "ERR_FAILED"
  BY <1>2, <1>4, <1>5 DEF Return, HandlesThen, Ahead
<1>6. CASE ans.status # "ERR_FAILED"
  <2>1. call.op \in {"START_PERIODIC_MSG", "STOP_PERIODIC_MSG", "CLEAR_PERIODIC_MSGS"}
          => ans.status = "STATUS_NOERROR"
    BY <1>1, <1>6, AnswerIs
  <2>2. CASE call.op = "START_PERIODIC_MSG"
    <3>2. ans.word \in Nat
      BY <1>1, <1>6, <2>2, AnswerIs, MarshalAssumption
    <3>3. reply.word = ans.word
      BY <1>1, <1>6, <2>2, <3>2, ReplyIs, MarshalAssumption
    <3>4. ~(reply.word >= IdSpan)
      <4> SUFFICES ASSUME reply.word >= IdSpan PROVE FALSE
        OBVIOUS
      <4>1. "periodic" \in NotTold
        BY <2>2 DEF NotTold
      <4> QED BY <4>1 DEF Return
    <3>5. reply.word % IdSpan = ans.word
      BY <3>2, <3>3, <3>4, MarshalAssumption
    <3>6. Taken(call, reply).word = ans.word
      BY <1>3, <2>2, <3>5, TakenIs
    <3>7. handles' = handles \cup {<<ans.word, call.list[1]>>}
      BY <1>4, <2>1, <2>2, <3>6 DEF Return
    <3> QED BY <1>1, <1>2, <1>6, <2>2, <3>7 DEF HandlesThen, Ahead
  <2>3. CASE call.op # "START_PERIODIC_MSG"
    BY <1>1, <1>2, <1>4, <1>6, <2>1, <2>3 DEF Return, HandlesThen, Ahead
  <2> QED BY <2>2, <2>3
<1> QED BY <1>5, <1>6

\* The values that GET_CONFIG returns are the library's.
LEMMA GetConfigIs ==
    ASSUME TypeOK, Sent, Answered, at = "client", call.op = "GET_CONFIG",
           ans.status # "ERR_FAILED"
    PROVE  /\ ans.status = "STATUS_NOERROR"
           /\ Len(call.list) \in 1 .. Params
           /\ Taken(call, reply).list = First(config, Len(call.list))
<1>1. /\ call.op \in Ops /\ Shaped(call.op, call.list) /\ cmd.op = call.op
      /\ call.out = OutOf(call) /\ cmd.list = call.list
  BY InProgress, WireSame
<1>2. PICK n \in 1 .. Params : n = Len(call.list)
  BY <1>1 DEF Shaped
<1>3. call.list \in Seq(Datum) /\ Passed(cmd) = call.list /\ call.out \in Out
  BY <1>1, PassedSame, OutIs DEF Shaped
<1>4. ans.status = "STATUS_NOERROR" /\ ans.list = First(config, n)
  <2>1. "GET_CONFIG" \notin Wordy \cup {"START_PERIODIC_MSG", "READ_MSGS", "WRITE_MSGS"}
    BY DEF Wordy, Volts
  <2> QED BY <1>2, <1>3, <2>1, AnswerIs
<1>5. Prepared(cmd).list = call.list
  BY <1>1, <1>3, PreparedIs DEF Configs
<1>6. Taken(call, reply).list = Overlay(call.list, First(config, n))
  BY <1>1, <1>3, <1>4, <1>5, TakenIs, ReplyIs
<1>7. config \in Seq(Nat) /\ Len(config) = Params
  BY IsSequence, MarshalAssumption DEF TypeOK
<1>8. PICK s \in Seq(Nat) : s = First(config, n)
  BY <1>7, FirstIs, MarshalAssumption
<1>9. Len(s) = n /\ s = [i \in 1 .. n |-> config[i]]
  BY <1>7, <1>8, FirstIs, MarshalAssumption
<1>10. Overlay(call.list, s) = s
  BY <1>2, <1>9 DEF Overlay
<1> QED BY <1>2, <1>4, <1>6, <1>8, <1>10

LEMMA ReturnKeepsConfig ==
    ASSUME MarshalInv, Return
    PROVE  ConfigTold'
<1> USE DEF MarshalInv
<1> SUFFICES ASSUME "config" \notin untold', NEW p \in 1 .. Params
             PROVE  \/ known'[p] = config[p]
                    \/ (known'[p] = Old /\ config[p] = 0)
  BY DEF ConfigTold, KnownThen, Ahead, Return, libVars
<1>1. at = "client" /\ "config" \notin untold
  BY DEF Return
<1>2. KnownThen[p] = config[p] \/ (KnownThen[p] = Old /\ config[p] = 0)
  BY <1>1 DEF ConfigTold
<1>3. call.op \in Ops
  BY <1>1, InProgress
<1>4. reply.status = ans.status /\ ans.status \in Status
  BY <1>1, ReplyIs
<1>5. CASE ans.status = "ERR_FAILED"
  BY <1>2, <1>4, <1>5 DEF Return, KnownThen, Ahead
<1>6. CASE ans.status # "ERR_FAILED" /\ call.op = "SET_CONFIG"
  <2>2. ans.status = "STATUS_NOERROR"
    BY <1>1, <1>6, AnswerIs
  <2> QED BY <1>1, <1>2, <1>4, <1>6, <2>2 DEF Return, KnownThen, Ahead
<1>7. CASE ans.status # "ERR_FAILED" /\ call.op = "GET_CONFIG"
  <2>1. PICK n \in 1 .. Params : n = Len(call.list)
    BY <1>1, <1>7, GetConfigIs
  <2>2. ans.status = "STATUS_NOERROR" /\ Taken(call, reply).list = First(config, n)
    BY <1>1, <1>7, <2>1, GetConfigIs
  <2>3. known' = Overlay(known, First(config, n))
    BY <1>4, <1>7, <2>2 DEF Return
  <2>4. config \in Seq(Nat) /\ Len(config) = Params /\ Len(known) = Params
    BY IsSequence, MarshalAssumption DEF TypeOK
  <2>5. PICK s \in Seq(Nat) : s = First(config, n)
    BY <2>4, FirstIs, MarshalAssumption
  <2>6. Len(s) = n /\ \A i \in 1 .. n : s[i] = config[i]
    BY <2>4, <2>5, FirstIs, MarshalAssumption
  <2>7. known'[p] = IF p <= n THEN s[p] ELSE known[p]
    BY <2>3, <2>4, <2>5, <2>6 DEF Overlay
  <2>8. KnownThen = known
    BY <1>7 DEF KnownThen, Ahead
  <2> QED BY <1>2, <2>1, <2>6, <2>7, <2>8
<1>8. CASE call.op \notin Configs
  <2>1. known' = known /\ KnownThen = known
    BY <1>8 DEF Return, KnownThen, Ahead, Configs
  <2> QED BY <1>2, <2>1
<1> QED BY <1>5, <1>6, <1>7, <1>8 DEF Configs

LEMMA ReturnKeeps ==
    ASSUME MarshalInv, Return
    PROVE  MarshalInv'
<1>1. Ready' /\ Sent' /\ Answered'
  BY DEF MarshalInv, Return, Ready, Sent, Answered, loaderVars
<1> QED BY <1>1, ReturnKeepsTypes, ReturnKeepsMessages, ReturnKeepsPeriodic,
           ReturnKeepsConfig DEF MarshalInv

\* A call that is given up may have been executed; what it changed is then
\* untold.
LEMMA TimesOutKeeps ==
    ASSUME MarshalInv, TimesOut
    PROVE  MarshalInv'
<1> USE DEF MarshalInv
<1>1. /\ at \in {"server", "client"} /\ at' = "app" /\ call' = NoCall /\ reply' = NoCall
      /\ untold' = IF at = "client" /\ reply.status # "ERR_FAILED"
                   THEN untold \cup Changes(call.op) ELSE untold
      /\ UNCHANGED <<main, hJ2534, pointers, calls, buf, took, handles, known,
                     arrived, read, running, config>>
  BY DEF TimesOut, Done, loaderVars, libVars
<1>2. Changes(call.op) \subseteq {"messages", "periodic", "config"}
  BY DEF Changes
<1>3. TypeOK' /\ Ready' /\ Sent' /\ Answered'
  BY <1>1, <1>2 DEF TypeOK, LoaderTypeOK, Ready, Sent, Answered
<1>4. at = "client" => reply.status = ans.status
  BY ReplyIs
<1>5. \A op : /\ ~Ahead(op)'
              /\ Ahead(op) => untold' = untold \cup Changes(op)
  BY <1>1, <1>4 DEF Ahead
<1>6. /\ Changes("READ_MSGS") = {"messages"} /\ Changes("SET_CONFIG") = {"config"}
      /\ Changes("START_PERIODIC_MSG") = {"periodic"}
      /\ Changes("STOP_PERIODIC_MSG") = {"periodic"}
      /\ Changes("CLEAR_PERIODIC_MSGS") = {"periodic"}
  BY DEF Changes
<1>7. untold \subseteq untold'
  BY <1>1
<1>8. MessagesTold'
  BY <1>1, <1>5, <1>6, <1>7 DEF MessagesTold
<1>9. PeriodicTold'
  BY <1>1, <1>5, <1>6, <1>7 DEF PeriodicTold, HandlesThen
<1>10. ConfigTold'
  BY <1>1, <1>5, <1>6, <1>7 DEF ConfigTold, KnownThen
<1> QED BY <1>3, <1>8, <1>9, <1>10

LEMMA DiesKeeps ==
    ASSUME MarshalInv, at = "server", Dies
    PROVE  MarshalInv'
<1> USE DEF MarshalInv
<1>1. /\ at' = "app" /\ call' = NoCall /\ main' = "exited"
      /\ UNCHANGED <<hJ2534, pointers, calls, reply, buf, took, handles, known, untold,
                     arrived, read, running, config>>
  BY DEF Dies, appVars, libVars
<1>2. TypeOK' /\ Ready' /\ Sent' /\ Answered'
  BY <1>1 DEF TypeOK, LoaderTypeOK, Ready, Sent, Answered
<1>3. \A op : ~Ahead(op) /\ ~Ahead(op)'
  BY <1>1 DEF Ahead
<1>4. MessagesTold' /\ PeriodicTold' /\ ConfigTold'
  BY <1>1, <1>3 DEF MessagesTold, PeriodicTold, ConfigTold, HandlesThen, KnownThen
<1> QED BY <1>2, <1>4

\* Steps of the bus and of main, which no call takes part in.
LEMMA AwayKeeps ==
    ASSUME MarshalInv, TypeOK', Ready',
           UNCHANGED <<at, calls, inCall, appVars, read, running, config>>
    PROVE  MarshalInv'
<1> USE DEF MarshalInv
<1>1. UNCHANGED <<at, call, cmd, args, ans, reply, buf, took, handles, known, untold,
                  read, running, config>>
  BY DEF inCall, appVars
<1>2. Sent'
  <2>1. Given(call.op)' = Given(call.op)
    BY <1>1 DEF Given
  <2>2. Wire(call)' = Wire(call) /\ OutOf(call)' = OutOf(call)
    BY <1>1 DEF Wire, OutOf
  <2> QED BY <1>1, <2>1, <2>2 DEF Sent
<1>3. Answered'
  <2>1. Passed(cmd)' = Passed(cmd) /\ ReplyTo(cmd, ans)' = ReplyTo(cmd, ans)
    BY <1>1 DEF Passed, ReplyTo, Prepared
  <2>2. Failures(args)' = Failures(args)
    BY <1>1 DEF Failures
  <2>3. AnswerOf(args.op, Len(args.list), ans)' = AnswerOf(args.op, Len(args.list), ans)
    BY <1>1 DEF AnswerOf
  <2> QED BY <1>1, <2>1, <2>2, <2>3 DEF Answered
<1>4. \A op : Ahead(op)' = Ahead(op)
  BY <1>1 DEF Ahead
<1>5. MessagesTold' /\ PeriodicTold' /\ ConfigTold'
  BY <1>1, <1>4 DEF MessagesTold, PeriodicTold, ConfigTold, HandlesThen, KnownThen
<1> QED BY <1>2, <1>3, <1>5

LEMMA ArriveKeeps ==
    ASSUME MarshalInv, Arrive
    PROVE  MarshalInv'
<1>1. TypeOK'
  <2>1. arrived' \in 0 .. BusLen /\ read \in 0 .. arrived'
    BY MarshalAssumption DEF MarshalInv, TypeOK, Arrive
  <2> QED BY <2>1 DEF MarshalInv, TypeOK, LoaderTypeOK, Arrive, loaderVars, inCall, appVars
<1>2. Ready'
  BY DEF MarshalInv, Arrive, Ready, loaderVars
<1> QED BY <1>1, <1>2, AwayKeeps DEF Arrive

\* The function that loadDLL looks up next is one of the sixteen.
LEMMA NextNameIs == ASSUME pointers \subseteq Names, pointers # Names PROVE NextName \in Names
<1> DEFINE Open(n) == /\ Functions[n] \notin pointers
                      /\ \A m \in 1 .. (n - 1) : Functions[m] \in pointers
<1>1. Len(Functions) = 16
  BY DEF Functions
<1>2. \E n \in 1 .. 16 : Open(n)
  <2>1. PICK n \in 1 .. 16 : Functions[n] \notin pointers
    BY <1>1 DEF Names
  <2> DEFINE S == {i \in Nat : i \in 1 .. 16 /\ Functions[i] \notin pointers}
  <2>2. S \in SUBSET Nat /\ S # {}
    BY <2>1
  <2> HIDE DEF S
  <2>3. IsWellFoundedOn(OpToRel(<, Nat), Nat)
    BY NatLessThanWellFounded
  <2>4. PICK i \in S : \A j \in S : ~(<<j, i>> \in OpToRel(<, Nat))
    BY <2>2, <2>3, WFMin
  <2>5. i \in 1 .. 16 /\ Functions[i] \notin pointers
    BY DEF S
  <2>6. ASSUME NEW m \in 1 .. (i - 1), Functions[m] \notin pointers PROVE FALSE
    <3>1. m \in S
      BY <2>5, <2>6 DEF S
    <3>2. m \in Nat /\ i \in Nat /\ m < i
      BY <2>5
    <3> QED BY <2>4, <3>1, <3>2 DEF OpToRel
  <2> QED BY <2>5, <2>6
<1>3. PICK n \in 1 .. 16 : NextName = Functions[n]
  BY <1>1, <1>2 DEF NextName
<1> QED BY <1>1, <1>3 DEF Names

LEMMA LoaderKeeps ==
    ASSUME MarshalInv, StartUp \/ ShutDown, at = "app",
           UNCHANGED <<at, calls, inCall, appVars, libVars>>
    PROVE  MarshalInv'
<1>1. LoaderTypeOK /\ Ready
  BY DEF MarshalInv, TypeOK
<1>2. LoaderTypeOK' /\ Ready'
  <2>1. CASE OpenLibrary
    BY <1>1, <2>1 DEF OpenLibrary, LoaderTypeOK, Ready
  <2>2. CASE LookUp
    BY <1>1, <2>2, NextNameIs DEF LookUp, LoaderTypeOK, Ready
  <2>3. CASE LookUpFails
    BY <1>1, <2>3 DEF LookUpFails, LoaderTypeOK, Ready
  <2>4. CASE Loaded
    BY <1>1, <2>4 DEF Loaded, LoaderTypeOK, Ready
  <2>5. CASE Bind
    BY <1>1, <2>5 DEF Bind, LoaderTypeOK, Ready
  <2>6. CASE Listen
    BY <1>1, <2>6 DEF Listen, LoaderTypeOK, Ready
  <2>7. CASE StopServer
    BY <1>1, <2>7 DEF StopServer, LoaderTypeOK, Ready
  <2>8. CASE UnloadDLL
    BY <1>1, <2>8 DEF UnloadDLL, LoaderTypeOK, Ready
  <2> QED BY <2>1, <2>2, <2>3, <2>4, <2>5, <2>6, <2>7, <2>8 DEF StartUp, ShutDown
<1>3. TypeOK'
  BY <1>2 DEF MarshalInv, TypeOK, inCall, appVars, libVars
<1> QED BY <1>2, <1>3, AwayKeeps DEF libVars

LEMMA InitMarshal == ASSUME Init PROVE MarshalInv
<1> USE MarshalAssumption, DatumHas
<1>1. TypeOK
  <2>1. LoaderTypeOK /\ call = NoCall /\ reply = NoCall
    BY DEF Init, LoaderInit, LoaderTypeOK
  <2>2. /\ buf \in [1 .. MaxMsgs -> Datum]
        /\ known \in [1 .. Params -> Datum] /\ config \in [1 .. Params -> Nat]
    BY DEF Init
  <2>3. took \in Seq(Datum) /\ handles \subseteq Nat \X Nat /\ running \subseteq Ids \X Nat
    BY DEF Init
  <2>4. arrived \in 0 .. BusLen /\ read \in 0 .. arrived /\ calls \in 0 .. MaxCalls
    BY DEF Init
  <2> QED BY <2>1, <2>2, <2>3, <2>4 DEF Init, TypeOK
<1>2. Ready /\ Sent /\ Answered
  BY DEF Init, LoaderInit, Ready, Sent, Answered
<1>3. MessagesTold /\ PeriodicTold /\ ConfigTold
  BY DEF Init, MessagesTold, PeriodicTold, ConfigTold, HandlesThen, KnownThen, Ahead
<1> QED BY <1>1, <1>2, <1>3 DEF MarshalInv

LEMMA NextMarshal == ASSUME MarshalInv, [Next]_vars PROVE MarshalInv'
<1>0. TypeOK /\ Sent
  BY DEF MarshalInv
<1>1. CASE (StartUp \/ ShutDown) /\ at = "app"
           /\ UNCHANGED <<at, calls, inCall, appVars, libVars>>
  BY <1>1, LoaderKeeps
<1>2. CASE MakeCall
  BY <1>0, <1>2, MakeCallDoes, AskedKeeps
<1>3. CASE ProcessCommand
  BY <1>0, <1>3, ProcessCommandDoes, ExecutedKeeps, DiesKeeps
<1>4. CASE Return
  BY <1>4, ReturnKeeps
<1>5. CASE TimesOut
  BY <1>5, TimesOutKeeps
<1>6. CASE Arrive
  BY <1>6, ArriveKeeps
<1>7. CASE UNCHANGED vars
  <2>1. TypeOK' /\ Ready'
    BY <1>7 DEF MarshalInv, TypeOK, LoaderTypeOK, Ready, vars, loaderVars, inCall,
                appVars, libVars
  <2> QED BY <1>7, <2>1, AwayKeeps DEF vars, libVars
<1> QED BY <1>1, <1>2, <1>3, <1>4, <1>5, <1>6, <1>7 DEF Next

\* MarshalInv holds in every state, whatever the sizes: it says of each call
\* in progress what the code has made of its arguments and results so far.
THEOREM MarshalKept == Spec => []MarshalInv
<1>1. Init => MarshalInv
  BY InitMarshal
<1>2. MarshalInv /\ [Next]_vars => MarshalInv'
  BY NextMarshal
<1> QED BY <1>1, <1>2, PTL DEF Spec

-----------------------------------------------------------------------------
(* The properties. *)

\* TypeOK is invariant: every variable of the marshalling has its type.
THEOREM MarshalTypes == Spec => []TypeOK
<1>1. MarshalInv => TypeOK
  BY DEF MarshalInv
<1> QED BY <1>1, MarshalKept, PTL

\* CallsLoaded is invariant: no handler calls a function of the library that
\* loadDLL has not found, because main serves only with all sixteen, and
\* every command has its function among them.
THEOREM CallsAreLoaded == Spec => []CallsLoaded
<1>1. ASSUME MarshalInv PROVE CallsLoaded
  <2> SUFFICES ASSUME at = "server" PROVE hJ2534 /\ Callee(cmd.op) \in pointers
    BY DEF CallsLoaded
  <2>1. main = "serve" /\ hJ2534 /\ pointers = Names
    BY <1>1 DEF MarshalInv, Ready
  <2>2. cmd.op \in Ops
    BY <1>1, InProgress DEF MarshalInv
  <2> QED BY <2>1, <2>2, CalleeIsLoaded
<1> QED BY <1>1, MarshalKept, PTL

\* ReadsInOrder is invariant: the application takes every message that the
\* library hands out once and in order, for reads of every size, until one
\* comes back short or untold.
THEOREM ReadsStayInOrder == Spec => []ReadsInOrder
<1>1. ASSUME MarshalInv PROVE ReadsInOrder
  <2> SUFFICES ASSUME at = "app", "messages" \notin untold
               PROVE  took = [i \in 1 .. read |-> i]
    BY DEF ReadsInOrder
  <2>1. took = [i \in 1 .. (read - 0) |-> i]
    BY <1>1 DEF MarshalInv, MessagesTold, Ahead
  <2>2. read - 0 = read
    BY <1>1, MarshalAssumption DEF MarshalInv, TypeOK
  <2> QED BY <2>1, <2>2
<1> QED BY <1>1, MarshalKept, PTL

\* PeriodicKept is invariant: the application and the library agree on the
\* periodic messages and their ids, until an id is cut off or a call untold.
THEOREM PeriodicStaysKnown == Spec => []PeriodicKept
<1>1. ASSUME MarshalInv PROVE PeriodicKept
  BY <1>1 DEF MarshalInv, PeriodicTold, PeriodicKept, HandlesThen, Ahead
<1> QED BY <1>1, MarshalKept, PTL

\* ConfigKnown is invariant: what the application has set or got of the
\* parameters is what the library has, until a call is untold.
THEOREM ConfigStaysKnown == Spec => []ConfigKnown
<1>1. ASSUME MarshalInv PROVE ConfigKnown
  BY <1>1 DEF MarshalInv, ConfigTold, ConfigKnown, KnownThen, Ahead
<1> QED BY <1>1, MarshalKept, PTL

\* A filter of another type keeps its first two messages.
LEMMA FilterPassed ==
    ASSUME NEW l \in Seq(Datum), Len(l) = 3,
           NEW m, m = First(l, 2) \o <<Null>>
    PROVE  m[1] = l[1] /\ m[2] = l[2] /\ m[3] = Null
<1>1. 2 \in 0 .. Len(l) /\ 1 \in 1 .. 2 /\ 2 \in 1 .. 2
  OBVIOUS
<1>2. PICK s \in Seq(Datum) : s = First(l, 2)
  BY <1>1, FirstIs
<1>3. Len(s) = 2 /\ s[1] = l[1] /\ s[2] = l[2]
  BY <1>1, <1>2, FirstIs
<1>4. PICK t \in Seq(Datum) : t = <<Null>>
  BY Singleton, DatumHas
<1>5. Len(t) = 1 /\ t[1] = Null
  BY <1>4
<1>6. m = s \o t
  BY <1>2, <1>4
<1>7. m[1] = s[1] /\ m[2] = s[2] /\ m[3] = t[1]
  <2>1. \A i \in 1 .. Len(s) + Len(t) : m[i] = IF i <= Len(s) THEN s[i] ELSE t[i - Len(s)]
    BY <1>6, ConcatProperties
  <2>2. PICK k \in Nat, n \in Nat : k = Len(s) /\ n = Len(t) /\ k = 2 /\ n = 1
    BY <1>3, <1>5
  <2>3. \A i \in 1 .. k + n : m[i] = IF i <= k THEN s[i] ELSE t[i - k]
    BY <2>1, <2>2, Zenon
  <2>4. /\ 1 \in 1 .. k + n /\ 2 \in 1 .. k + n /\ 3 \in 1 .. k + n
        /\ 1 <= k /\ 2 <= k /\ ~(3 <= k) /\ 3 - k = 1
    BY ONLY <2>2
  <2>5. m[1] = s[1] /\ m[2] = s[2] /\ m[3] = t[3 - k]
    BY <2>3, <2>4, Zenon
  <2> QED BY <2>4, <2>5
<1> QED BY <1>3, <1>5, <1>7

\* ArgumentsArrive is invariant: what the client packs and the handler takes
\* apart again is what the library is called with.
THEOREM ArgumentsArriveIntact == Spec => []ArgumentsArrive
<1>1. ASSUME MarshalInv PROVE ArgumentsArrive
  <2> SUFFICES ASSUME at = "client"
      PROVE /\ args.op = call.op /\ args.word = call.word
            /\ call.op = "START_MSG_FILTER" =>
                 \A i \in 1 .. 3 :
                     \/ args.list[i] = call.list[i]
                     \/ args.list[i] = 0 /\ call.list[i] = Null
                     \/ i = 3 /\ args.list[i] = Null /\ call.word # FLOW_CONTROL_FILTER
            /\ call.op \notin {"OPEN", "START_MSG_FILTER",
                               "ADD_TO_FUNCT_MSG_LOOKUP_TABLE"} =>
                 args.list = call.list
    BY DEF ArgumentsArrive
  <2>1. TypeOK /\ Sent /\ Answered
    BY <1>1 DEF MarshalInv
  <2>2. args.op = call.op /\ args.word = call.word /\ args.list = Passed(cmd)
    BY <2>1, ReplyIs
  <2>3. ASSUME call.op = "START_MSG_FILTER", NEW i \in 1 .. 3
        PROVE  \/ args.list[i] = call.list[i]
               \/ args.list[i] = 0 /\ call.list[i] = Null
               \/ i = 3 /\ args.list[i] = Null /\ call.word # FLOW_CONTROL_FILTER
    <3>1. /\ cmd.op = "START_MSG_FILTER" /\ cmd.word = call.word
          /\ cmd.list = [j \in 1 .. 3 |-> IF call.list[j] = Null THEN 0 ELSE call.list[j]]
      BY <2>1, <2>3, InProgress DEF Wire
    <3>2. CASE call.word = FLOW_CONTROL_FILTER
      <4>1. args.list = cmd.list
        BY <2>2, <3>1, <3>2 DEF Passed
      <4> QED BY <3>1, <4>1
    <3>3. CASE call.word # FLOW_CONTROL_FILTER
      <4>1. args.list = First(cmd.list, 2) \o <<Null>>
        BY <2>2, <3>1, <3>3 DEF Passed
      <4>2. cmd.list \in Seq(Datum) /\ Len(cmd.list) = 3
        BY <2>1, <3>1, WireIs
      <4>3. PICK l \in Seq(Datum) : l = cmd.list
        BY <4>2
      <4>4. args.list[1] = l[1] /\ args.list[2] = l[2] /\ args.list[3] = Null
        BY <4>1, <4>2, <4>3, FilterPassed
      <4> QED BY <3>1, <3>3, <4>3, <4>4
    <3> QED BY <3>2, <3>3
  <2>4. call.op \notin {"OPEN", "START_MSG_FILTER", "ADD_TO_FUNCT_MSG_LOOKUP_TABLE"}
          => args.list = call.list
    BY <2>1, <2>2, PassedIs
  <2> QED BY <2>2, <2>3, <2>4
<1> QED BY <1>1, MarshalKept, PTL

\* Nothing is laid over no list, and all of a list over one as long.
LEMMA OverlayEnds ==
    /\ \A t : Overlay(<<>>, t) = <<>>
    /\ \A x : Overlay(<<x>>, <<2>>) = <<2>>
    /\ \A x, y : Overlay(<<x, y>>, <<2, 1>>) = <<2, 1>>
<1>1. \A t : Overlay(<<>>, t) = <<>>
  BY DEF Overlay
<1>2. ASSUME NEW x PROVE Overlay(<<x>>, <<2>>) = <<2>>
  BY DEF Overlay
<1>3. ASSUME NEW x, NEW y PROVE Overlay(<<x, y>>, <<2, 1>>) = <<2, 1>>
  BY DEF Overlay
<1> QED BY <1>1, <1>2, <1>3

LEMMA CountComesBack ==
    ASSUME TypeOK, Sent, Answered, at = "client"
    PROVE  \/ Taken(call, reply).n = Patch(call.out, ans).n
           \/ call.op = "READ_MSGS" /\ Patch(call.out, ans).n < Taken(call, reply).n
<1>1. /\ call.op \in Ops /\ cmd.op = call.op /\ call.out = OutOf(call)
      /\ call.list \in Seq(Datum) /\ cmd.list \in Seq(Datum)
      /\ Len(cmd.list) = Len(call.list) /\ call.out \in Out
  BY InProgress, WireIs, OutIs DEF Shaped
<1>2. Patch(call.out, ans).n = IF ans.n = Keep THEN call.out.n ELSE ans.n
  BY DEF Patch
<1>3. ans.status = "ERR_FAILED" => ans.n = Keep
  BY ReplyIs
<1>4. CASE call.op = "READ_MSGS"
  <2>1. PICK l \in Nat : l = Len(call.list)
    BY <1>1
  <2>2. Taken(call, reply).n = l /\ call.out.n = l
    BY <1>1, <1>4, <2>1, ReadIs, OutIs
  <2>3. CASE ans.n = Keep
    BY <1>2, <2>2, <2>3
  <2>4. CASE ans.n # Keep
    <3>1. PICK k \in Nat : k = reply.n /\ k = ans.n /\ k <= l
      BY <1>3, <1>4, <2>1, <2>4, ReadIs
    <3>2. Patch(call.out, ans).n = k
      BY <1>2, <2>4, <3>1
    <3>3. k = l \/ k < l
      BY <3>1
    <3> QED BY <1>4, <2>2, <3>2, <3>3
  <2> QED BY <2>3, <2>4
<1>5. CASE call.op = "WRITE_MSGS"
  <2>1. Taken(call, reply).n = reply.n
    BY <1>1, <1>5, TakenIs
  <2>2. reply.n = IF ans.n = Keep THEN Prepared(cmd).n ELSE ans.n
    BY <1>5, ReplyIs
  <2>3. Prepared(cmd).n = Len(cmd.list) /\ call.out.n = Len(call.list)
    BY <1>1, <1>5, PreparedIs, OutIs
  <2> QED BY <1>1, <1>2, <2>1, <2>2, <2>3
<1>6. CASE call.op \notin {"READ_MSGS", "WRITE_MSGS"}
  <2>1. Taken(call, reply).n = call.out.n
    BY <1>1, <1>6, TakenIs
  <2>2. ans.n = Keep
    BY <1>3, <1>6, AnswerIs
  <2> QED BY <1>2, <2>1, <2>2
<1> QED BY <1>4, <1>5, <1>6

LEMMA WordComesBack ==
    ASSUME TypeOK, Sent, Answered, at = "client"
    PROVE  \/ Taken(call, reply).word = Patch(call.out, ans).word
           \/ reply.status = "ERR_FAILED" /\ Taken(call, reply).word = 0
           \/ call.op = "START_PERIODIC_MSG" /\ reply.word >= IdSpan
<1>1. /\ call.op \in Ops /\ cmd.op = call.op /\ call.out = OutOf(call)
      /\ call.list \in Seq(Datum) /\ cmd.list \in Seq(Datum) /\ call.out \in Out
  BY InProgress, WireIs, OutIs DEF Shaped
<1>2. Patch(call.out, ans).word = IF ans.word = Keep THEN call.out.word ELSE ans.word
  BY DEF Patch
<1>3. reply.status = ans.status
  BY ReplyIs
<1>4. CASE call.op \in Wordy
  <2>1. Taken(call, reply).word = reply.word
    BY <1>1, <1>4, NotWordy, TakenIs
  <2>2. CASE ans.status = "ERR_FAILED"
    <3>1. CASE call.op = "READ_VERSION"
      BY <1>3, <2>1, <2>2, <3>1, ReplyIs
    <3>2. CASE call.op # "READ_VERSION"
      <4>1. ans.word = Keep /\ reply.word = Prepared(cmd).word
        BY <2>2, <3>2, ReplyIs
      <4>2. Prepared(cmd).word = 0
        BY <1>1, <1>4, PreparedIs
      <4> QED BY <1>3, <2>1, <2>2, <4>1, <4>2
    <3> QED BY <3>1, <3>2
  <2>3. CASE ans.status # "ERR_FAILED"
    <3>1. ans.word \in Words
      BY <1>4, <2>3, AnswerIs
    <3>2. ans.word # Keep
      BY <3>1, MarshalAssumption
    <3>3. reply.word = ans.word
      BY <2>3, <3>2, ReplyIs
    <3> QED BY <1>2, <2>1, <3>2, <3>3
  <2> QED BY <2>2, <2>3
<1>5. CASE call.op = "START_PERIODIC_MSG"
  <2>1. Taken(call, reply).word = reply.word % IdSpan
    BY <1>1, <1>5, TakenIs
  <2>2. CASE ans.status = "ERR_FAILED"
    <3>1. ans.word = Keep /\ reply.word = Prepared(cmd).word
      BY <1>5, <2>2, ReplyIs
    <3>2. Prepared(cmd).word = 0
      BY <1>1, <1>5, PreparedIs
    <3>3. 0 % IdSpan = 0
      BY MarshalAssumption
    <3> QED BY <1>3, <2>1, <2>2, <3>1, <3>2, <3>3
  <2>3. CASE ans.status # "ERR_FAILED"
    <3>1. ans.word \in Ids
      BY <1>5, <2>3, AnswerIs
    <3>2. PICK w \in Nat : w = ans.word
      BY <3>1, MarshalAssumption
    <3>3. ans.word # Keep /\ reply.word = w
      BY <1>5, <3>2, MarshalAssumption, ReplyIs
    <3>4. w >= IdSpan \/ w % IdSpan = w
      BY MarshalAssumption
    <3> QED BY <1>2, <1>5, <2>1, <3>2, <3>3, <3>4
  <2> QED BY <2>2, <2>3
<1>6. CASE call.op \notin Wordy \cup {"START_PERIODIC_MSG"}
  <2>1. Taken(call, reply).word = call.out.word
    BY <1>1, <1>6, TakenIs
  <2>2. ans.word = Keep
    <3>1. call.op # "READ_VERSION"
      BY <1>6, NotWordy
    <3>2. CASE ans.status = "ERR_FAILED"
      BY <3>1, <3>2, ReplyIs
    <3>3. CASE ans.status # "ERR_FAILED"
      BY <1>6, <3>3, AnswerIs
    <3> QED BY <3>2, <3>3
  <2> QED BY <1>2, <2>1, <2>2
<1> QED BY <1>4, <1>5, <1>6

LEMMA ListComesBack ==
    ASSUME TypeOK, Sent, Answered, at = "client"
    PROVE  \/ Taken(call, reply).list = Patch(call.out, ans).list
           \/ /\ reply.status = "ERR_FAILED" /\ call.op \in {"FIVE_BAUD_INIT", "FAST_INIT"}
              /\ Elements(Taken(call, reply).list) = {0}
<1>1. /\ call.op \in Ops /\ cmd.op = call.op /\ call.out = OutOf(call)
      /\ call.list \in Seq(Datum) /\ cmd.list \in Seq(Datum) /\ call.out \in Out
      /\ cmd.list = Wire(call)
  BY InProgress, WireIs, OutIs DEF Shaped
<1>2. Patch(call.out, ans).list = Overlay(call.out.list, ans.list)
  BY DEF Patch
<1>3. reply.status = ans.status
  BY ReplyIs
<1>4. CASE call.op = "READ_MSGS"
  BY <1>1, <1>2, <1>4, ReadIs, OutIs
<1>5. CASE call.op = "GET_CONFIG"
  <2>1. Taken(call, reply).list = Overlay(Prepared(cmd).list, ans.list)
    BY <1>1, <1>5, TakenIs, ReplyIs
  <2>2. Prepared(cmd).list = cmd.list
    BY <1>1, <1>5, PreparedIs DEF Configs
  <2>3. cmd.list = call.list /\ call.out.list = call.list
    BY <1>1, <1>5, WireSame, OutIs
  <2> QED BY <1>2, <2>1, <2>2, <2>3
<1>6. CASE call.op = "FIVE_BAUD_INIT"
  <2>1. Taken(call, reply).list = Overlay(<<0, 0>>, ans.list)
    <3>1. Taken(call, reply).list = reply.list
      BY <1>1, <1>6, TakenIs
    <3>2. reply.list = Overlay(Prepared(cmd).list, ans.list)
      BY <1>6, ReplyIs
    <3>3. Prepared(cmd).list = <<0, 0>>
      BY <1>1, <1>6, PreparedIs
    <3> QED BY <3>1, <3>2, <3>3
  <2>2. CASE ans.status = "ERR_FAILED"
    <3>1. Taken(call, reply).list = <<0, 0>>
      <4>1. ans.list = <<>>
        BY <2>2, ReplyIs
      <4>2. Overlay(<<0, 0>>, <<>>) = <<0, 0>>
        BY DEF Overlay
      <4> QED BY <2>1, <4>1, <4>2
    <3>2. Elements(<<0, 0>>) = {0}
      BY DEF Elements
    <3> QED BY <1>3, <1>6, <2>2, <3>1, <3>2
  <2>3. CASE ans.status # "ERR_FAILED"
    <3>1. ans.list = <<2, 1>>
      BY <1>6, <2>3, NotWordy, AnswerIs
    <3>2. call.out.list = <<Old, Old>>
      BY <1>1, <1>6, OutIs
    <3> QED BY <1>2, <2>1, <3>1, <3>2, OverlayEnds
  <2> QED BY <2>2, <2>3
<1>7. CASE call.op = "FAST_INIT"
  <2>1. Taken(call, reply).list = Overlay(<<0>>, ans.list)
    <3>1. Taken(call, reply).list = reply.list
      BY <1>1, <1>7, TakenIs
    <3>2. reply.list = Overlay(Prepared(cmd).list, ans.list)
      BY <1>7, ReplyIs
    <3>3. Prepared(cmd).list = <<0>>
      BY <1>1, <1>7, PreparedIs
    <3> QED BY <3>1, <3>2, <3>3
  <2>2. CASE ans.status = "ERR_FAILED"
    <3>1. Taken(call, reply).list = <<0>>
      <4>1. ans.list = <<>>
        BY <2>2, ReplyIs
      <4>2. Overlay(<<0>>, <<>>) = <<0>>
        BY DEF Overlay
      <4> QED BY <2>1, <4>1, <4>2
    <3>2. Elements(<<0>>) = {0}
      BY DEF Elements
    <3> QED BY <1>3, <1>7, <2>2, <3>1, <3>2
  <2>3. CASE ans.status # "ERR_FAILED"
    <3>1. ans.list = <<2>>
      BY <1>7, <2>3, NotWordy, AnswerIs
    <3>2. call.out.list = <<Old>>
      BY <1>1, <1>7, OutIs
    <3> QED BY <1>2, <2>1, <3>1, <3>2, OverlayEnds
  <2> QED BY <2>2, <2>3
<1>8. CASE call.op \notin {"READ_MSGS", "GET_CONFIG", "FIVE_BAUD_INIT", "FAST_INIT"}
  <2>1. Taken(call, reply).list = <<>> /\ call.out.list = <<>>
    BY <1>1, <1>8, TakenIs, OutIs
  <2> QED BY <1>2, <2>1, OverlayEnds
<1> QED BY <1>4, <1>5, <1>6, <1>7, <1>8

\* ResultsReturn is invariant: what the application finds in its variables is
\* what the library would have left there, but for the exceptions it names.
THEOREM ResultsComeBack == Spec => []ResultsReturn
<1>1. ASSUME MarshalInv PROVE ResultsReturn
  <2>1. TypeOK /\ Sent /\ Answered
    BY <1>1 DEF MarshalInv
  <2> QED BY <2>1, CountComesBack, WordComesBack, ListComesBack DEF ResultsReturn
<1> QED BY <1>1, MarshalKept, PTL

-----------------------------------------------------------------------------
(* Sizes. *)

LEMMA Sums ==
    /\ \A a \in Nat : Sum(<<a>>) = a
    /\ \A a, b \in Nat : Sum(<<a, b>>) = a + b
    /\ \A a, b, d \in Nat : Sum(<<a, b, d>>) = a + b + d
<1>1. ASSUME NEW a \in Nat PROVE Sum(<<a>>) = a
  <2>0. <<a>> \in Seq(Nat)
    OBVIOUS
  <2>1. PICK s \in Seq(Nat) : s = <<a>>
    BY <2>0
  <2>2. Len(s) = 1 /\ s[1] = a
    BY <2>1
  <2>3. PICK n \in 1 .. 3 : n = Len(s) /\ n = 1
    BY <2>2
  <2>4. Sum(s) = s[1] + (IF n > 1 THEN s[2] ELSE 0) + (IF n > 2 THEN s[3] ELSE 0)
    BY <2>3, SumIs
  <2>5. ~(n > 1) /\ ~(n > 2)
    BY <2>3
  <2> QED BY <2>1, <2>2, <2>4, <2>5
<1>2. ASSUME NEW a \in Nat, NEW b \in Nat PROVE Sum(<<a, b>>) = a + b
  <2>0. <<a, b>> \in Seq(Nat)
    OBVIOUS
  <2>1. PICK s \in Seq(Nat) : s = <<a, b>>
    BY <2>0
  <2>2. Len(s) = 2 /\ s[1] = a /\ s[2] = b
    BY <2>1
  <2>3. PICK n \in 1 .. 3 : n = Len(s) /\ n = 2
    BY <2>2
  <2>4. Sum(s) = s[1] + (IF n > 1 THEN s[2] ELSE 0) + (IF n > 2 THEN s[3] ELSE 0)
    BY <2>3, SumIs
  <2>5. n > 1 /\ ~(n > 2)
    BY <2>3
  <2> QED BY <2>1, <2>2, <2>4, <2>5
<1>3. ASSUME NEW a \in Nat, NEW b \in Nat, NEW d \in Nat PROVE Sum(<<a, b, d>>) = a + b + d
  <2>0. <<a, b, d>> \in Seq(Nat)
    OBVIOUS
  <2>1. PICK s \in Seq(Nat) : s = <<a, b, d>>
    BY <2>0
  <2>2. Len(s) = 3 /\ s[1] = a /\ s[2] = b /\ s[3] = d
    BY <2>1
  <2>3. PICK n \in 1 .. 3 : n = Len(s) /\ n = 3
    BY <2>2
  <2>4. Sum(s) = s[1] + (IF n > 1 THEN s[2] ELSE 0) + (IF n > 2 THEN s[3] ELSE 0)
    BY <2>3, SumIs
  <2>5. n > 1 /\ n > 2
    BY <2>3
  <2> QED BY <2>1, <2>2, <2>4, <2>5
<1> QED BY <1>1, <1>2, <1>3

LEMMA IoctlInputIs ==
    ASSUME NEW c, c.op \in IoctlOps, NEW l \in Nat, l = Len(c.list)
    PROVE  /\ IoctlInput(c) \in Nat
           /\ c.op \in Configs => IoctlInput(c) = WordSize + l * ConfigSize
           /\ c.op \in Arrays => IoctlInput(c) = WordSize + l
<1>1. CASE c.op \in Configs
  <2>1. IoctlInput(c) = WordSize + Len(c.list) * ConfigSize
    BY <1>1, Zenon DEF IoctlInput, Configs, Arrays
  <2>2. c.op \notin Arrays
    BY <1>1 DEF Configs, Arrays
  <2> QED BY <1>1, <2>1, <2>2 DEF WordSize, ConfigSize
<1>2. CASE c.op \in Arrays
  <2>1. IoctlInput(c) = WordSize + Len(c.list)
    BY <1>2, Zenon DEF IoctlInput, Configs, Arrays
  <2>2. c.op \notin Configs
    BY <1>2 DEF Configs, Arrays
  <2> QED BY <1>2, <2>1, <2>2 DEF WordSize
<1>3. CASE c.op = "FAST_INIT"
  <2>1. IoctlInput(c) = MsgSize
    BY <1>3, Zenon DEF IoctlInput, Configs, Arrays
  <2>2. c.op \notin Configs \cup Arrays
    BY <1>3 DEF Configs, Arrays
  <2> QED BY <2>1, <2>2 DEF MsgSize
<1>4. CASE c.op \notin Configs \cup Arrays \cup {"FAST_INIT"}
  <2>1. IoctlInput(c) = 0
    BY <1>4, Zenon DEF IoctlInput
  <2> QED BY <1>4, <2>1
<1> QED BY <1>1, <1>2, <1>3, <1>4

LEMMA CmdSizeIs ==
    /\ \A op \in Ops \ IoctlOps : CmdSize[op] \in Nat
    /\ CmdSize["READ_MSGS"] = 12 /\ CmdSize["WRITE_MSGS"] = 12
BY OpsAre DEF CmdSize, MsgSize

LEMMA AnnouncedIs ==
    ASSUME NEW c, c.op \in Ops, NEW l \in Nat, l = Len(c.list)
    PROVE  /\ Announced(c) \in Nat
           /\ c.op \in {"READ_MSGS", "WRITE_MSGS"} =>
                Announced(c) = (CmdHead + CmdSize[c.op]) + l * MsgSize
           /\ c.op \in IoctlOps => Announced(c) = (CmdHead + IoctlSize) + IoctlInput(c)
<1> DEFINE fixed == IF c.op \in IoctlOps THEN IoctlSize + IoctlInput(c)
                                         ELSE CmdSize[c.op]
           rest  == CASE c.op \in {"READ_MSGS", "WRITE_MSGS"} -> Len(c.list) * MsgSize
                      [] c.op = "OPEN" /\ c.list # <<Null>> -> 2
                      [] OTHER -> 0
<1>1. Announced(c) = CmdHead + fixed + rest
  BY DEF Announced
<1> HIDE DEF fixed, rest
<1>2. CmdHead = 5 /\ IoctlSize = 8 /\ MsgSize = 4152
  BY DEF CmdHead, IoctlSize, MsgSize
<1>3. "OPEN" \notin IoctlOps /\ "READ_MSGS" \notin IoctlOps /\ "WRITE_MSGS" \notin IoctlOps
  BY DEF IoctlOps
<1>4. CASE c.op \in {"READ_MSGS", "WRITE_MSGS"}
  <2>1. rest = Len(c.list) * MsgSize
    BY <1>4, Zenon DEF rest
  <2>2. fixed = CmdSize[c.op] /\ CmdSize[c.op] = 12 /\ c.op \notin IoctlOps
    BY <1>3, <1>4, CmdSizeIs DEF fixed
  <2> QED BY <1>1, <1>2, <1>4, <2>1, <2>2
<1>5. CASE c.op \notin {"READ_MSGS", "WRITE_MSGS"}
  <2>1. rest \in {0, 2} /\ (c.op \in IoctlOps => rest = 0)
    <3>1. CASE c.op = "OPEN" /\ c.list # <<Null>>
      <4>1. rest = 2
        BY <1>5, <3>1, Zenon DEF rest
      <4> QED BY <1>3, <3>1, <4>1
    <3>2. CASE ~(c.op = "OPEN" /\ c.list # <<Null>>)
      <4>1. rest = 0
        BY <1>5, <3>2, Zenon DEF rest
      <4> QED BY <4>1
    <3> QED BY <3>1, <3>2
  <2>2. CASE c.op \in IoctlOps
    <3>1. PICK i \in Nat : i = IoctlInput(c)
      BY <2>2, IoctlInputIs
    <3>2. fixed = 8 + i /\ rest = 0
      BY <1>2, <2>1, <2>2, <3>1 DEF fixed
    <3>3. Announced(c) = 5 + (8 + i) + 0
      BY <1>1, <1>2, <3>2
    <3>4. 5 + (8 + i) + 0 = (5 + 8) + i /\ 5 + (8 + i) + 0 \in Nat
      BY ONLY <3>1
    <3> QED BY <1>2, <1>5, <3>1, <3>3, <3>4
  <2>3. CASE c.op \notin IoctlOps
    <3>1. fixed \in Nat
      BY <2>3, CmdSizeIs DEF fixed
    <3> QED BY <1>1, <1>2, <1>5, <2>1, <2>3, <3>1
  <2> QED BY <2>2, <2>3
<1> QED BY <1>4, <1>5

LEMMA PiecesAdd ==
    ASSUME NEW c, c.op \in Ops, NEW l \in Nat, l = Len(c.list)
    PROVE  \/ Sum(Pieces(c)) = Announced(c)
           \/ c.op = "FAST_INIT" /\ c.list = <<Null>>
<1>0. CmdHead = 5 /\ IoctlSize = 8 /\ MsgSize = 4152 /\ WordSize = 4 /\ ConfigSize = 8
  BY DEF CmdHead, IoctlSize, MsgSize, WordSize, ConfigSize
<1>1. CASE c.op \in {"READ_MSGS", "WRITE_MSGS"}
  <2>1. Pieces(c) = <<CmdHead + CmdSize[c.op], Len(c.list) * MsgSize>>
    BY <1>1, Zenon DEF Pieces, Configs
  <2>2. PICK a \in Nat, b \in Nat : a = CmdHead + CmdSize[c.op] /\ b = l * MsgSize
    BY <1>0, <1>1, CmdSizeIs
  <2>3. Announced(c) = a + b
    BY <1>1, <2>2, AnnouncedIs
  <2> QED BY <2>1, <2>2, <2>3, Sums
<1>2. CASE c.op \in {"FIVE_BAUD_INIT", "DELETE_FROM_FUNCT_MSG_LOOKUP_TABLE"}
  <2>1. Pieces(c) = <<CmdHead + IoctlSize, WordSize, Len(c.list)>>
    BY <1>2, Zenon DEF Pieces, Configs
  <2>2. c.op \in Arrays /\ c.op \in IoctlOps
    BY <1>2 DEF Arrays, IoctlOps
  <2>3. Announced(c) = (CmdHead + IoctlSize) + (WordSize + l)
    BY <2>2, AnnouncedIs, IoctlInputIs
  <2>4. Sum(Pieces(c)) = 13 + 4 + l
    BY <1>0, <2>1, Sums
  <2> QED BY <1>0, <2>3, <2>4
<1>3. CASE c.op \in Configs
  <2>1. Pieces(c) = <<CmdHead + IoctlSize, WordSize, Len(c.list) * ConfigSize>>
    BY <1>3, Zenon DEF Pieces, Configs
  <2>2. c.op \in IoctlOps
    BY <1>3 DEF Configs, IoctlOps
  <2>3. Announced(c) = (CmdHead + IoctlSize) + (WordSize + l * ConfigSize)
    BY <1>3, <2>2, AnnouncedIs, IoctlInputIs
  <2>4. PICK b \in Nat : b = l * ConfigSize
    BY <1>0
  <2>5. Sum(Pieces(c)) = 13 + 4 + b
    BY <1>0, <2>1, <2>4, Sums
  <2> QED BY <1>0, <2>3, <2>4, <2>5
<1>4. CASE \/ c.op = "FAST_INIT" /\ c.list # <<Null>>
           \/ c.op = "ADD_TO_FUNCT_MSG_LOOKUP_TABLE"
  <2>1. Pieces(c) = <<CmdHead + IoctlSize, IoctlInput(c)>>
    BY <1>4, Zenon DEF Pieces, Configs
  <2>2. c.op \in IoctlOps
    BY <1>4 DEF IoctlOps
  <2>3. PICK i \in Nat : i = IoctlInput(c)
    BY <2>2, IoctlInputIs
  <2>4. Announced(c) = (CmdHead + IoctlSize) + i
    BY <2>2, <2>3, AnnouncedIs
  <2>5. Sum(Pieces(c)) = 13 + i
    BY <1>0, <2>1, <2>3, Sums
  <2> QED BY <1>0, <2>4, <2>5
<1>5. CASE c.op = "FAST_INIT" /\ c.list = <<Null>>
  BY <1>5
<1>6. CASE c.op \notin {"READ_MSGS", "WRITE_MSGS", "FIVE_BAUD_INIT", "FAST_INIT",
                       "DELETE_FROM_FUNCT_MSG_LOOKUP_TABLE",
                       "ADD_TO_FUNCT_MSG_LOOKUP_TABLE"} \cup Configs
  <2>1. Pieces(c) = <<Announced(c)>>
    BY <1>6, Zenon DEF Pieces
  <2>2. PICK a \in Nat : a = Announced(c)
    BY AnnouncedIs
  <2> QED BY <2>1, <2>2, Sums
<1> QED BY <1>1, <1>2, <1>3, <1>4, <1>5, <1>6

\* CommandsExact is invariant: of every call, with lists of every length, the
\* pieces add up to the length that the function announces.
THEOREM CommandSizes == Spec => []CommandsExact
<1>1. ASSUME MarshalInv PROVE CommandsExact
  <2> SUFFICES ASSUME at = "server"
               PROVE  \/ Sum(Pieces(call)) = Announced(call)
                      \/ call.op = "FAST_INIT" /\ call.list = <<Null>>
    BY DEF CommandsExact
  <2>1. call.op \in Ops /\ call.list \in Seq(Datum)
    BY <1>1, InProgress DEF MarshalInv, Shaped
  <2>2. PICK l \in Nat : l = Len(call.list)
    BY <2>1
  <2> QED BY <2>1, <2>2, PiecesAdd
<1> QED BY <1>1, MarshalKept, PTL

\* The room of a reply depends on the call, and on the length of the list for
\* a read only.
LEMMA RoomIs ==
    ASSUME NEW m, m.op \in Ops, NEW l \in Nat, l = Len(m.list)
    PROVE  /\ Room(m) \in Nat
           /\ m.op = "READ_MSGS" => Room(m) = WordSize + l * MsgSize
           /\ m.op = "START_PERIODIC_MSG" => Room(m) = WordSize
           /\ m.op # "READ_MSGS" => \A k : k.op = m.op => Room(k) = Room(m)
<1>0. MsgSize = 4152 /\ WordSize = 4
  BY DEF MsgSize, WordSize
<1> DEFINE OneWord == {"OPEN", "CONNECT", "START_MSG_FILTER", "START_PERIODIC_MSG",
                       "WRITE_MSGS"} \cup Volts
<1>1. CASE m.op = "READ_MSGS"
  <2>1. Room(m) = WordSize + Len(m.list) * MsgSize
    BY <1>1, Zenon DEF Room, Volts
  <2> QED BY <1>0, <1>1, <2>1
<1>2. CASE m.op \in OneWord
  <2>1. ASSUME NEW k, k.op = m.op PROVE Room(k) = WordSize
    BY <1>2, <2>1, Zenon DEF Room, Volts
  <2>2. m.op # "READ_MSGS"
    BY <1>2 DEF Volts
  <2> QED BY <1>0, <2>1, <2>2
<1>3. CASE m.op = "READ_VERSION"
  <2>1. ASSUME NEW k, k.op = m.op PROVE Room(k) = 240
    BY <1>3, <2>1, Zenon DEF Room, Volts
  <2> QED BY <1>3, <2>1
<1>4. CASE m.op \in {"GET_LAST_ERROR", "GET_LAST_SOCKET_ERROR"}
  <2>1. ASSUME NEW k, k.op = m.op PROVE Room(k) = 80
    BY <1>4, <2>1, Zenon DEF Room, Volts
  <2> QED BY <1>4, <2>1
<1>5. CASE m.op = "FIVE_BAUD_INIT"
  <2>1. ASSUME NEW k, k.op = m.op PROVE Room(k) = WordSize + 2
    BY <1>5, <2>1, Zenon DEF Room, Volts
  <2> QED BY <1>0, <1>5, <2>1
<1>6. CASE m.op = "FAST_INIT"
  <2>1. ASSUME NEW k, k.op = m.op PROVE Room(k) = MsgSize
    BY <1>6, <2>1, Zenon DEF Room, Volts
  <2> QED BY <1>0, <1>6, <2>1
<1>7. CASE m.op \notin OneWord \cup {"READ_MSGS", "READ_VERSION", "GET_LAST_ERROR",
                          "GET_LAST_SOCKET_ERROR", "FIVE_BAUD_INIT", "FAST_INIT"}
  <2>1. ASSUME NEW k, k.op = m.op PROVE Room(k) = 0
    BY <1>7, <2>1, Zenon DEF Room
  <2> QED BY <1>7, <2>1
<1> HIDE DEF OneWord
<1> QED BY <1>1, <1>2, <1>3, <1>4, <1>5, <1>6, <1>7

\* RepliesFit is invariant: no function copies more than the reply has, and
\* only the reply of GET_CONFIG has more than was allocated for it.
THEOREM ReplySizes == Spec => []RepliesFit
<1>1. ASSUME MarshalInv PROVE RepliesFit
  <2> SUFFICES ASSUME at = "client"
      PROVE  /\ Copied(call, reply) <= ReplyData(cmd, reply)
             /\ \/ call.op = "GET_CONFIG"
                \/ /\ ReplyData(cmd, reply) <= Room(cmd)
                   /\ Filled(cmd) <= Room(cmd)
    BY DEF RepliesFit
  <2>0. MsgSize = 4152 /\ WordSize = 4 /\ ConfigSize = 8
    BY DEF MsgSize, WordSize, ConfigSize
  <2>1. TypeOK /\ Sent /\ Answered
    BY <1>1 DEF MarshalInv
  <2>2. /\ call.op \in Ops /\ cmd.op = call.op /\ call.list \in Seq(Datum)
        /\ Len(cmd.list) = Len(call.list)
    BY <2>1, InProgress, WireIs DEF Shaped
  <2>3. PICK l \in Nat : l = Len(call.list) /\ l = Len(cmd.list)
    BY <2>2
  <2>4. PICK room \in Nat : room = Room(cmd)
    BY <2>2, <2>3, RoomIs
  <2>5. CASE call.op = "READ_MSGS"
    <3>1. PICK n \in Nat : n = reply.n /\ n <= l
      BY <2>1, <2>3, <2>5, ReadIs
    <3>2. room = WordSize + l * MsgSize
      BY <2>2, <2>3, <2>4, <2>5, RoomIs
    <3>3. PICK k \in Nat : k = WordSize + n * MsgSize /\ k <= room
      BY <2>0, <3>1, <3>2
    <3>4. Copied(call, reply) = k
      <4>1. Copied(call, reply) = WordSize + reply.n * MsgSize
        BY <2>5, Zenon DEF Copied
      <4> QED BY <3>1, <3>3, <4>1
    <3>5. ReplyData(cmd, reply) = k
      <4>1. ReplyData(cmd, reply) = WordSize + reply.n * MsgSize
        BY <2>2, <2>5, Zenon DEF ReplyData
      <4> QED BY <3>1, <3>3, <4>1
    <3>6. Filled(cmd) = room
      BY <2>2, <2>4, <2>5 DEF Filled
    <3>7. k <= k /\ room <= room
      BY <2>4, <3>3
    <3> QED BY <2>4, <3>3, <3>4, <3>5, <3>6, <3>7
  <2>6. CASE call.op = "GET_CONFIG"
    <3>1. Copied(call, reply) = 4 + l * 8 /\ ReplyData(cmd, reply) = 4 + l * 8
      BY <2>0, <2>2, <2>3, <2>6, Zenon DEF Copied, ReplyData
    <3>2. 4 + l * 8 <= 4 + l * 8
      OBVIOUS
    <3> QED BY <2>6, <3>1, <3>2, Zenon
  <2>7. CASE call.op \notin {"READ_MSGS", "GET_CONFIG"}
    <3>1. ReplyData(cmd, reply) = room /\ Filled(cmd) = room
      <4>1. ReplyData(cmd, reply) = Room(cmd)
        BY <2>2, <2>7, Zenon DEF ReplyData
      <4> QED BY <2>2, <2>4, <2>7, <4>1 DEF Filled
    <3>2. Copied(call, reply) <= room
      <4>1. CASE call.op = "START_PERIODIC_MSG"
        <5>1. Copied(call, reply) = 1
          BY <4>1, Zenon DEF Copied
        <5>2. room = 4
          BY <2>0, <2>2, <2>3, <2>4, <4>1, RoomIs
        <5> QED BY <5>1, <5>2
      <4>2. CASE call.op # "START_PERIODIC_MSG"
        <5>1. Copied(call, reply) = Room(call)
          BY <2>7, <4>2, Zenon DEF Copied
        <5>2. Room(call) = Room(cmd)
          BY <2>2, <2>3, <2>7, RoomIs
        <5> QED BY <2>4, <5>1, <5>2
      <4> QED BY <4>1, <4>2
    <3>3. room <= room
      OBVIOUS
    <3> QED BY <2>4, <3>1, <3>2, <3>3, Zenon
  <2> QED BY <2>5, <2>6, <2>7
<1> QED BY <1>1, MarshalKept, PTL

=============================================================================
