----------------------------- MODULE MarshalInv -----------------------------
(***************************************************************************)
(* The inductive invariant of Marshal: what a call in progress has made of  *)
(* its arguments and its results at each of its stations, and how far what  *)
(* the application goes by is then behind the library.                      *)
(***************************************************************************)
EXTENDS Marshal

\* Where main is says what is loaded, and a call is only ever made while main
\* serves.
Ready ==
    /\ main \notin {"start", "exited"} => hJ2534
    /\ main \notin {"start", "load", "exited"} => pointers = Names
    /\ at # "app" => main = "serve"

\* The lists that the application may pass to op.
Given(op) ==
    CASE op = "OPEN"               -> {<<Null>>, <<Name>>}
      [] op = "START_MSG_FILTER"   -> [1 .. 3 -> {1, 2, Null}]
      [] op = "READ_MSGS"          -> {First(buf, n) : n \in 1 .. MaxMsgs}
      [] op = "WRITE_MSGS"         -> Lists({1, 2}, MaxMsgs)
      [] op = "START_PERIODIC_MSG" -> {<<1>>, <<2>>}
      [] op \in IoctlOps           -> {a[1] : a \in IoctlArgs(op)}
      [] OTHER                     -> {<<>>}

\* The out parameters that call c comes with.
OutOf(c) ==
    CASE c.op = "READ_MSGS"      -> [CountOut(Len(c.list)) EXCEPT !.list = c.list]
      [] c.op = "WRITE_MSGS"     -> CountOut(Len(c.list))
      [] c.op = "GET_CONFIG"     -> ListOut(c.list)
      [] c.op = "FIVE_BAUD_INIT" -> ListOut(<<Old, Old>>)
      [] c.op = "FAST_INIT"      -> ListOut(<<Old>>)
      [] OTHER                   -> NoOut

\* How its list is sent.
Wire(c) ==
    CASE c.op = "START_MSG_FILTER" ->
             [i \in 1 .. 3 |-> IF c.list[i] = Null THEN 0 ELSE c.list[i]]
      [] c.op = "ADD_TO_FUNCT_MSG_LOOKUP_TABLE" ->
             [b \in 1 .. Len(c.list) |-> Pointer]
      [] OTHER -> c.list

\* The command is the call's as long as the call is in progress.
Sent ==
    at # "app" =>
        /\ call = [op |-> call.op, word |-> call.word, list |-> call.list,
                   out |-> OutOf(call)]
        /\ call.op \in Ops /\ call.word \in Nat
        /\ call.list \in Given(call.op)
        /\ cmd = [op |-> call.op, word |-> call.word, list |-> Wire(call)]

\* The list that the handler of command m passes to the library, and what its
\* out parameters hold before that.
Passed(m) ==
    CASE m.op = "OPEN" -> <<Null>>
      [] m.op = "START_MSG_FILTER" /\ m.word # FLOW_CONTROL_FILTER ->
             First(m.list, 2) \o <<Null>>
      [] OTHER -> m.list

Wordy == {"OPEN", "CONNECT", "START_MSG_FILTER", "READ_VERSION",
          "GET_LAST_ERROR", "GET_LAST_SOCKET_ERROR"} \cup Volts

Prepared(m) ==
    CASE m.op = "READ_MSGS"      -> [CountOut(Len(m.list)) EXCEPT !.list = m.list]
      [] m.op = "WRITE_MSGS"     -> CountOut(Len(m.list))
      [] m.op \in Configs        -> ListOut(m.list)
      [] m.op = "FIVE_BAUD_INIT" -> ListOut(<<0, 0>>)
      [] m.op = "FAST_INIT"      -> ListOut(<<0>>)
      [] m.op \in Wordy \cup {"START_PERIODIC_MSG"} -> ZeroOut
      [] OTHER                   -> NoOut

\* What the handler of m replies when the library answers w.
ReplyTo(m, w) ==
    Replied(w.status, IF m.op = "READ_VERSION" /\ w.status = "ERR_FAILED"
                        THEN ZeroOut ELSE Patch(Prepared(m), w))

\* w is an answer of the library, in its present state, to a call of op with n
\* elements that did not fail.
AnswerOf(op, n, w) ==
    CASE op = "READ_MSGS" ->
             /\ w.n \in 0 .. Least(n, read) /\ w.word = Keep
             /\ w.list = [i \in 1 .. w.n |-> (read - w.n) + i]
             /\ w.status = "STATUS_NOERROR" => w.n = n
             /\ w.status = "ERR_BUFFER_EMPTY" => w.n = 0
      [] op = "WRITE_MSGS" ->
             w.n \in 0 .. n /\ w.word = Keep /\ w.list = <<>>
      [] op \in Wordy \cup {"START_PERIODIC_MSG"} ->
             /\ w.status = "STATUS_NOERROR" /\ w.n = Keep
             /\ w.word \in IF op \in Wordy THEN Words ELSE Ids
             /\ w.list = <<>>
      [] OTHER ->
             /\ w.status = "STATUS_NOERROR" /\ w.n = Keep /\ w.word = Keep
             /\ w.list = CASE op = "GET_CONFIG"     -> First(config, n)
                           [] op = "FIVE_BAUD_INIT" -> <<2, 1>>
                           [] op = "FAST_INIT"      -> <<2>>
                           [] OTHER                 -> <<>>

\* An answer that the reply is made from, and nothing else.
Answered ==
    at = "client" =>
        /\ args = [op |-> cmd.op, word |-> cmd.word, list |-> Passed(cmd)]
        /\ ans \in [status : Status, n : Nat \cup {Keep}, word : Nat \cup {Keep},
                   list : Seq(Datum)]
        /\ IF ans.status = "ERR_FAILED" THEN ans \in Failures(args)
                                        ELSE AnswerOf(args.op, Len(args.list), ans)
        /\ reply = ReplyTo(cmd, ans)

-----------------------------------------------------------------------------

\* The library has done call op, and the application does not know it yet.
Ahead(op) == at = "client" /\ ans.status # "ERR_FAILED" /\ call.op = op

\* The messages taken are those handed out, but for the ones on their way.
MessagesTold ==
    "messages" \notin untold =>
        took = [i \in 1 .. (read - IF Ahead("READ_MSGS") THEN ans.n ELSE 0) |-> i]

\* What the application will believe to be periodic when the call returns.
HandlesThen ==
    IF Ahead("START_PERIODIC_MSG") THEN handles \cup {<<ans.word, call.list[1]>>}
    ELSE IF Ahead("STOP_PERIODIC_MSG") THEN {h \in handles : h[1] # call.word}
    ELSE IF Ahead("CLEAR_PERIODIC_MSGS") THEN {}
    ELSE handles

PeriodicTold == "periodic" \notin untold => running = HandlesThen

KnownThen == IF Ahead("SET_CONFIG") THEN Overlay(known, call.list) ELSE known

ConfigTold ==
    "config" \notin untold =>
        \A p \in 1 .. Params : \/ KnownThen[p] = config[p]
                               \/ KnownThen[p] = Old /\ config[p] = 0

\* The inductive invariant: every call in progress is, at each station, what
\* the code has made of it so far, and what is untold is all that the
\* application does not know.
MarshalInv ==
    /\ TypeOK
    /\ Ready
    /\ Sent
    /\ Answered
    /\ MessagesTold
    /\ PeriodicTold
    /\ ConfigTold

=============================================================================
