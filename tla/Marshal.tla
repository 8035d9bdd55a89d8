------------------------------ MODULE Marshal ------------------------------
(***************************************************************************)
(* What becomes of the arguments and the results of a call on the way from *)
(* the application to the J2534 library and back: each PassThru function of *)
(* client/J2534_Client.cpp packs its arguments into a command              *)
(* (include/J2534_TCPIP.h), its handler in server/J2534_Server.cpp calls    *)
(* the library with what it finds there and packs the results into a       *)
(* reply, and the function copies them to the application's variables.      *)
(* One application, one connection (Proxy has the others), and a library   *)
(* that receives messages, repeats periodic ones and keeps parameters.      *)
(***************************************************************************)
EXTENDS Loader

CONSTANTS BusLen,     \* bound on the messages the bus delivers, 1 .. BusLen
          MaxMsgs,    \* bound on the messages of one call
          MaxCalls,   \* bound on the calls made in one behaviour
          Words,      \* identifiers and other 32-bit words
          Ids,        \* the ids the library gives to periodic messages
          IdSpan,     \* how many values eight bits have: 256
          Params,     \* the parameters are 1 .. Params
          PtrSize,    \* the bytes of a pointer in the client
          Name,       \* the name PassThruOpen may be given
          Null, Keep, Old, Pointer, NoCall

ASSUME MarshalAssumption ==
    /\ BusLen \in Nat /\ MaxMsgs \in Nat \ {0} /\ MaxCalls \in Nat
    /\ Words \subseteq Nat \ {0} /\ Ids \subseteq Nat \ {0}
    /\ IdSpan \in Nat \ {0} /\ Params \in Nat \ {0} /\ PtrSize \in {4, 8}
    /\ {Name, Null, Keep, Old, Pointer} \cap Nat = {}

\* What memory holds, as far as it matters: a number (a message, a word; 0
\* when it was zeroed), no object, what the application had there before, or
\* a part of a pointer.
Datum  == Nat \cup {Name, Null, Old, Pointer}
Out    == [n : Nat, word : Datum, list : Seq(Datum)]
Status == {"STATUS_NOERROR", "ERR_FAILED", "ERR_TIMEOUT", "ERR_BUFFER_EMPTY"}

\* IOCTL_ID.
IoctlOps == {"GET_CONFIG", "SET_CONFIG", "READ_VBATT", "FIVE_BAUD_INIT",
    "FAST_INIT", "CLEAR_TX_BUFFER", "CLEAR_RX_BUFFER", "CLEAR_PERIODIC_MSGS",
    "CLEAR_MSG_FILTERS", "CLEAR_FUNCT_MSG_LOOKUP_TABLE",
    "ADD_TO_FUNCT_MSG_LOOKUP_TABLE", "DELETE_FROM_FUNCT_MSG_LOOKUP_TABLE",
    "READ_PROG_VOLTAGE"}

Configs  == {"GET_CONFIG", "SET_CONFIG"}
Arrays   == {"FIVE_BAUD_INIT", "ADD_TO_FUNCT_MSG_LOOKUP_TABLE",
             "DELETE_FROM_FUNCT_MSG_LOOKUP_TABLE"}
Volts    == {"READ_VBATT", "READ_PROG_VOLTAGE"}
Clears   == IoctlOps \ (Configs \cup Arrays \cup Volts \cup {"FAST_INIT"})

\* J2534_Command, with each IOCTL by its own name, and the library's function.
FunctionOf == [OPEN |-> "PassThruOpen", CONNECT |-> "PassThruConnect",
    READ_MSGS |-> "PassThruReadMsgs", WRITE_MSGS |-> "PassThruWriteMsgs",
    START_PERIODIC_MSG |-> "PassThruStartPeriodicMsg",
    STOP_PERIODIC_MSG |-> "PassThruStopPeriodicMsg",
    START_MSG_FILTER |-> "PassThruStartMsgFilter",
    STOP_MSG_FILTER |-> "PassThruStopMsgFilter",
    SET_PROGRAMMING_VOLTAGE |-> "PassThruSetProgrammingVoltage",
    READ_VERSION |-> "PassThruReadVersion",
    DISCONNECT |-> "PassThruDisconnect", CLOSE |-> "PassThruClose",
    RESET |-> "PassThruReset", GET_LAST_ERROR |-> "PassThruGetLastError",
    GET_LAST_SOCKET_ERROR |-> "PassThruGetLastSocketError"]

Ops == DOMAIN FunctionOf \cup IoctlOps

Callee(op) == IF op \in IoctlOps THEN "PassThruIoctl" ELSE FunctionOf[op]

VARIABLES at,        \* who has the call: "app", "server" or "client"
          calls,     \* how many calls have been made
          call,      \* what the application asked
          cmd,       \* the command as it is on the wire
          args,      \* what the handler called the library with
          ans,       \* what the library did to its out parameters
          reply,     \* the reply on the wire
          buf,       \* the application's message buffer
          took,      \* the messages it has taken from there
          handles,   \* <<id, message>> it believes to be periodic
          known,     \* known[p]: what it believes parameter p to be
          arrived,   \* how many messages the bus has delivered
          read,      \* how many of them the library has handed out
          running,   \* <<id, message>> that are periodic in the library
          config,    \* config[p]: parameter p in the library
          untold     \* what the application has not been told of it

inCall  == <<call, cmd, args, ans, reply>>
appVars == <<buf, took, handles, known, untold>>
libVars == <<arrived, read, running, config>>
vars    == <<loaderVars, at, calls, inCall, appVars, libVars>>

Init ==
    /\ LoaderInit
    /\ at = "app" /\ calls = 0
    /\ call = NoCall /\ cmd = NoCall /\ args = NoCall /\ ans = NoCall
    /\ reply = NoCall
    /\ buf = [i \in 1 .. MaxMsgs |-> Old] /\ took = <<>>
    /\ handles = {} /\ known = [p \in 1 .. Params |-> Old]
    /\ arrived = 0 /\ read = 0 /\ running = {}
    /\ config = [p \in 1 .. Params |-> 0]
    /\ untold = {}

FilterTypes         == 1 .. 3
FLOW_CONTROL_FILTER == 3

First(s, n)    == SubSeq(s, 1, n)
Overlay(s, t)  == [i \in 1 .. Len(s) |-> IF i <= Len(t) THEN t[i] ELSE s[i]]
Elements(s)    == {s[i] : i \in 1 .. Len(s)}
Least(m, n)    == IF m < n THEN m ELSE n

-----------------------------------------------------------------------------
(* Sizes, in bytes, the structures being packed. *)

CmdHead   == 5
ReplyHead == 9
WordSize  == 4
MsgSize   == 4152
ConfigSize == 8

Sum(s) == LET sum[n \in 0 .. Len(s)] == IF n = 0 THEN 0 ELSE sum[n - 1] + s[n]
          IN sum[Len(s)]

\* The part of the command's data whose size does not depend on the call.
CmdSize == [OPEN |-> 0, CONNECT |-> 16, READ_MSGS |-> 12, WRITE_MSGS |-> 12,
    START_PERIODIC_MSG |-> 8 + MsgSize, STOP_PERIODIC_MSG |-> 8,
    START_MSG_FILTER |-> 8 + 3 * MsgSize, STOP_MSG_FILTER |-> 8,
    SET_PROGRAMMING_VOLTAGE |-> 12, READ_VERSION |-> 4, DISCONNECT |-> 4,
    CLOSE |-> 4, RESET |-> 0, GET_LAST_ERROR |-> 0,
    GET_LAST_SOCKET_ERROR |-> 0]

IoctlSize == 8

\* cmdDataLen of PassThruIoctl.
IoctlInput(c) ==
    CASE c.op \in Configs   -> WordSize + Len(c.list) * ConfigSize
      [] c.op \in Arrays    -> WordSize + Len(c.list)
      [] c.op = "FAST_INIT" -> MsgSize
      [] OTHER              -> 0

\* The length written into the command.
Announced(c) ==
    CmdHead + (IF c.op \in IoctlOps THEN IoctlSize + IoctlInput(c)
                                    ELSE CmdSize[c.op])
            + CASE c.op \in {"READ_MSGS", "WRITE_MSGS"} -> Len(c.list) * MsgSize
                [] c.op = "OPEN" /\ c.list # <<Null>> -> 2
                [] OTHER -> 0

\* Mutant of Pieces: the number of parameters taken for their size.
PiecesCounted(c) ==
    IF c.op \in Configs
      THEN <<CmdHead + IoctlSize, WordSize, Len(c.list)>> ELSE <<Announced(c)>>

\* What each sendData is told to send.
Pieces(c) ==
    CASE c.op \in {"READ_MSGS", "WRITE_MSGS"} ->
             <<CmdHead + CmdSize[c.op], Len(c.list) * MsgSize>>
      [] c.op \in {"FIVE_BAUD_INIT", "DELETE_FROM_FUNCT_MSG_LOOKUP_TABLE"} ->
             <<CmdHead + IoctlSize, WordSize, Len(c.list)>>
      [] c.op \in Configs ->
             <<CmdHead + IoctlSize, WordSize, Len(c.list) * ConfigSize>>
      [] c.op = "FAST_INIT" /\ c.list = <<Null>> -> <<CmdHead + IoctlSize>>
      [] \/ c.op = "FAST_INIT" /\ c.list # <<Null>>
         \/ c.op = "ADD_TO_FUNCT_MSG_LOOKUP_TABLE" ->
             <<CmdHead + IoctlSize, IoctlInput(c)>>
      [] OTHER -> <<Announced(c)>>

\* The data that the reply to command m has room for.
Room(m) ==
    CASE m.op \in {"OPEN", "CONNECT", "START_MSG_FILTER", "START_PERIODIC_MSG",
                   "WRITE_MSGS"} \cup Volts -> WordSize
      [] m.op = "READ_MSGS"      -> WordSize + Len(m.list) * MsgSize
      [] m.op = "READ_VERSION"   -> 240
      [] m.op \in {"GET_LAST_ERROR", "GET_LAST_SOCKET_ERROR"} -> 80
      [] m.op = "FIVE_BAUD_INIT" -> WordSize + 2
      [] m.op = "FAST_INIT"      -> MsgSize
      [] OTHER                   -> 0

\* Mutant of ReplyData: the messages are left out of the reply's length.
ReplyDataShort(m, r) ==
    IF m.op = "READ_MSGS" THEN WordSize ELSE Room(m)

\* The data that the length of the reply r covers.
ReplyData(m, r) ==
    CASE m.op = "READ_MSGS"  -> WordSize + r.n * MsgSize
      [] m.op = "GET_CONFIG" -> WordSize + Len(m.list) * ConfigSize
      [] OTHER               -> Room(m)

\* What the handler writes to it, and what the client takes from it.
Filled(m) ==
    IF m.op = "GET_CONFIG" THEN WordSize + Len(m.list) * ConfigSize ELSE Room(m)

Copied(c, r) ==
    CASE c.op = "READ_MSGS"          -> WordSize + r.n * MsgSize
      [] c.op = "START_PERIODIC_MSG" -> 1
      [] c.op = "GET_CONFIG"         -> WordSize + Len(c.list) * ConfigSize
      [] OTHER                       -> Room(c)

-----------------------------------------------------------------------------
(* The client's functions: the command. *)

Ask(op, word, list, wire, out) ==
    /\ main = "serve" /\ at = "app"
    /\ calls < MaxCalls
    /\ calls' = calls + 1
    /\ call' = [op |-> op, word |-> word, list |-> list, out |-> out]
    /\ cmd' = [op |-> op, word |-> word, list |-> wire]
    /\ at' = "server"
    /\ UNCHANGED <<loaderVars, args, ans, reply, appVars, libVars>>

NoOut       == [n |-> 0, word |-> Old, list |-> <<>>]
ListOut(s)  == [n |-> 0, word |-> Old, list |-> s]
CountOut(n) == [n |-> n, word |-> Old, list |-> <<>>]

Lists(S, n) == UNION {[1 .. m -> S] : m \in 1 .. n}

PassThruOpen ==
    \E name \in {Null, Name} : Ask("OPEN", 0, <<name>>, <<name>>, NoOut)

\* Mutant of PassThruStartMsgFilter: the flow control message is sent as the
\* pattern.
StartMsgFilterSwapped ==
    \E type \in FilterTypes, m \in [1 .. 3 -> {1, 2, Null}] :
        Ask("START_MSG_FILTER", type, m, <<m[1], m[3], m[2]>>, NoOut)

\* No message is sent as a message of zeros.
PassThruStartMsgFilter ==
    \E type \in FilterTypes, m \in [1 .. 3 -> {1, 2, Null}] :
        Ask("START_MSG_FILTER", type, m,
            [i \in 1 .. 3 |-> IF m[i] = Null THEN 0 ELSE m[i]], NoOut)

PassThruStopMsgFilter ==
    \E w \in Words : Ask("STOP_MSG_FILTER", w, <<>>, <<>>, NoOut)

PassThruSetProgrammingVoltage ==
    \E w \in Words : Ask("SET_PROGRAMMING_VOLTAGE", w, <<>>, <<>>, NoOut)

PassThruReadVersion ==
    \E w \in Words : Ask("READ_VERSION", w, <<>>, <<>>, NoOut)

PassThruGetLastError == Ask("GET_LAST_ERROR", 0, <<>>, <<>>, NoOut)

PassThruGetLastSocketError ==
    Ask("GET_LAST_SOCKET_ERROR", 0, <<>>, <<>>, NoOut)

PassThruReset == Ask("RESET", 0, <<>>, <<>>, NoOut)

PassThruConnect ==
    \E w \in Words : Ask("CONNECT", w, <<>>, <<>>, NoOut)

PassThruDisconnect ==
    \E w \in Words : Ask("DISCONNECT", w, <<>>, <<>>, NoOut)

PassThruClose ==
    \E w \in Words : Ask("CLOSE", w, <<>>, <<>>, NoOut)

\* The application asks for n messages; its buffer is sent as it is.
PassThruReadMsgs ==
    \E n \in 1 .. MaxMsgs :
        Ask("READ_MSGS", 0, First(buf, n), First(buf, n),
            [CountOut(n) EXCEPT !.list = First(buf, n)])

PassThruWriteMsgs ==
    \E m \in Lists({1, 2}, MaxMsgs) :
        Ask("WRITE_MSGS", 0, m, m, CountOut(Len(m)))

PassThruStartPeriodicMsg ==
    \E m \in {1, 2} : Ask("START_PERIODIC_MSG", 0, <<m>>, <<m>>, NoOut)

\* The application stops a message by the id it was given.
PassThruStopPeriodicMsg ==
    \E h \in handles : Ask("STOP_PERIODIC_MSG", h[1], <<>>, <<>>, NoOut)

\* The input and output that the IOCTL op is given.
IoctlArgs(op) ==
    CASE op = "SET_CONFIG" ->
             {<<v, NoOut>> : v \in Lists(Words, Params)}
      [] op = "GET_CONFIG" ->
             {<<v, ListOut(v)>> : v \in Lists({Old}, Params)}
      [] op = "FIVE_BAUD_INIT" -> {<<<<1>>, ListOut(<<Old, Old>>)>>}
      [] op = "FAST_INIT" -> {<<m, ListOut(<<Old>>)>> : m \in {<<1>>, <<Null>>}}
      [] op \in Arrays \ {"FIVE_BAUD_INIT"} ->
             {<<b, NoOut>> : b \in Lists({1}, PtrSize)}
      [] OTHER -> {<<<<>>, NoOut>>}

\* ADD_TO_FUNCT_MSG_LOOKUP_TABLE sends as many bytes as the array has, but of
\* the structure that points to it.
PassThruIoctl ==
    \E op \in IoctlOps : \E a \in IoctlArgs(op) :
        Ask(op, 0, a[1],
            IF op = "ADD_TO_FUNCT_MSG_LOOKUP_TABLE"
              THEN [b \in 1 .. Len(a[1]) |-> Pointer] ELSE a[1], a[2])

MakeCall ==
    \/ PassThruOpen
    \/ PassThruStartMsgFilter
    \/ PassThruStopMsgFilter
    \/ PassThruSetProgrammingVoltage
    \/ PassThruReadVersion
    \/ PassThruGetLastError
    \/ PassThruGetLastSocketError
    \/ PassThruReset
    \/ PassThruConnect
    \/ PassThruDisconnect
    \/ PassThruClose
    \/ PassThruReadMsgs
    \/ PassThruWriteMsgs
    \/ PassThruStartPeriodicMsg
    \/ PassThruStopPeriodicMsg
    \/ PassThruIoctl

-----------------------------------------------------------------------------
(* The J2534 library. *)

\* What the library answers when called with a: a status, and the values it
\* gives to its out parameters, Keep when it leaves one as it was.
Answer(s, n, w, list) == [status |-> s, n |-> n, word |-> w, list |-> list]

Succeeds(n, w, list) == Answer("STATUS_NOERROR", n, w, list)

\* The messages it has for a read of m messages, and how the read ends.
ReadAnswer(m) ==
    LET k == Least(m, arrived - read)
    IN Answer(IF k = m THEN "STATUS_NOERROR"
              ELSE IF k = 0 THEN "ERR_BUFFER_EMPTY" ELSE "ERR_TIMEOUT",
              k, Keep, [i \in 1 .. k |-> read + i])

Successes(a) ==
    CASE a.op = "READ_MSGS" -> {ReadAnswer(Len(a.list))}
      [] a.op = "WRITE_MSGS" ->
             {Answer(IF k = Len(a.list) THEN "STATUS_NOERROR"
                                        ELSE "ERR_TIMEOUT", k, Keep, <<>>) :
                k \in 0 .. Len(a.list)}
      [] a.op \in {"OPEN", "CONNECT", "START_MSG_FILTER", "READ_VERSION",
                   "GET_LAST_ERROR", "GET_LAST_SOCKET_ERROR"} \cup Volts ->
             {Succeeds(Keep, w, <<>>) : w \in Words}
      [] a.op = "START_PERIODIC_MSG" ->
             {Succeeds(Keep, i, <<>>) : i \in Ids \ {r[1] : r \in running}}
      [] a.op = "STOP_PERIODIC_MSG" ->
             {Succeeds(Keep, Keep, <<>>) : r \in {s \in running : s[1] = a.word}}
      [] a.op = "GET_CONFIG" ->
             {Succeeds(Keep, Keep, First(config, Len(a.list)))}
      [] a.op = "FIVE_BAUD_INIT" -> {Succeeds(Keep, Keep, <<2, 1>>)}
      [] a.op = "FAST_INIT" -> {Succeeds(Keep, Keep, <<2>>)}
      [] OTHER -> {Succeeds(Keep, Keep, <<>>)}

\* A version that fails may have been written in part.
Failures(a) ==
    {Answer("ERR_FAILED", Keep, w, <<>>) :
        w \in IF a.op = "READ_VERSION" THEN {Keep} \cup Words ELSE {Keep}}

\* What the call does to the library when it is answered with w.
LibraryDoes(a, w) ==
    LET done == w.status # "ERR_FAILED" IN
    /\ read' = IF done /\ a.op = "READ_MSGS" THEN read + w.n ELSE read
    /\ running' =
         IF ~done THEN running
         ELSE IF a.op = "START_PERIODIC_MSG" THEN running \cup {<<w.word, a.list[1]>>}
         ELSE IF a.op = "STOP_PERIODIC_MSG" THEN {r \in running : r[1] # a.word}
         ELSE IF a.op = "CLEAR_PERIODIC_MSGS" THEN {}
         ELSE running
    /\ config' = IF done /\ a.op = "SET_CONFIG" THEN Overlay(config, a.list)
                                                ELSE config
    /\ UNCHANGED arrived

\* The out parameters o after the library's answer w.
Patch(o, w) ==
    [n |-> IF w.n = Keep THEN o.n ELSE w.n,
     word |-> IF w.word = Keep THEN o.word ELSE w.word,
     list |-> Overlay(o.list, w.list)]

\* The reply with status s and the out parameters o.
Replied(s, o) == [status |-> s, n |-> o.n, word |-> o.word, list |-> o.list]

-----------------------------------------------------------------------------
(* The server's handlers: the call of the library, and the reply. *)

\* The handler of op calls the library with the words of the command, list,
\* and out parameters that hold out, and replies with what is there then.
Handle(op, list, out) ==
    /\ at = "server" /\ cmd.op = op
    /\ Sum(Pieces(call)) = Announced(call)
    /\ args' = [cmd EXCEPT !.list = list]
    /\ \E w \in Successes(args') \cup Failures(args') :
         /\ LibraryDoes(args', w)
         /\ ans' = w
         /\ reply' = Replied(w.status, Patch(out, w))
    /\ at' = "client"
    /\ UNCHANGED <<loaderVars, calls, call, cmd, appVars>>

\* An out parameter that the handler has filled with zeros.
ZeroOut == [n |-> 0, word |-> 0, list |-> <<>>]

\* Mutant of Server_PassThruOpen: the id is left as malloc made it.
OpenUnset == Handle("OPEN", <<Null>>, [ZeroOut EXCEPT !.word = Keep])

\* The name is not passed on.
Server_PassThruOpen == Handle("OPEN", <<Null>>, ZeroOut)

Server_PassThruClose == Handle("CLOSE", <<>>, NoOut)

\* Mutant of Server_PassThruReadMsgs: the library gets a buffer of zeros.
ReadMsgsZeroed ==
    Handle("READ_MSGS", cmd.list,
           [CountOut(Len(cmd.list)) EXCEPT
               !.list = [i \in 1 .. Len(cmd.list) |-> 0]])

\* The library gets the application's messages to write over.
Server_PassThruReadMsgs ==
    Handle("READ_MSGS", cmd.list,
           [CountOut(Len(cmd.list)) EXCEPT !.list = cmd.list])

Server_PassThruWriteMsgs ==
    Handle("WRITE_MSGS", cmd.list, CountOut(Len(cmd.list)))

Server_PassThruConnect == Handle("CONNECT", <<>>, ZeroOut)

Server_PassThruDisconnect == Handle("DISCONNECT", <<>>, NoOut)

Server_PassThruReset == Handle("RESET", <<>>, NoOut)

\* A version that could not be read is zeroed again.
Server_PassThruReadVersion ==
    /\ at = "server" /\ cmd.op = "READ_VERSION"
    /\ args' = cmd
    /\ \E w \in Successes(cmd) \cup Failures(cmd) :
         /\ ans' = w
         /\ reply' = Replied(w.status,
                             IF w.status = "STATUS_NOERROR"
                               THEN Patch(ZeroOut, w) ELSE ZeroOut)
    /\ at' = "client"
    /\ UNCHANGED <<loaderVars, calls, call, cmd, appVars, libVars>>

\* Only a flow control filter gets its third message.
Server_PassThruStartMsgFilter ==
    Handle("START_MSG_FILTER",
           IF cmd.word = FLOW_CONTROL_FILTER THEN cmd.list
           ELSE First(cmd.list, 2) \o <<Null>>, ZeroOut)

Server_PassThruStopMsgFilter == Handle("STOP_MSG_FILTER", <<>>, NoOut)

Server_PassThruSetProgrammingVoltage ==
    Handle("SET_PROGRAMMING_VOLTAGE", <<>>, NoOut)

Server_PassThruGetLastError == Handle("GET_LAST_ERROR", <<>>, ZeroOut)

Server_PassThruGetLastSocketError ==
    Handle("GET_LAST_SOCKET_ERROR", <<>>, ZeroOut)

Server_PassThruStartPeriodicMsg ==
    Handle("START_PERIODIC_MSG", cmd.list, ZeroOut)

Server_PassThruStopPeriodicMsg == Handle("STOP_PERIODIC_MSG", <<>>, NoOut)

\* The parameters that GET_CONFIG reads are those of the command, and are
\* copied from there; the arrays of FIVE_BAUD_INIT come in two pieces.
Server_PassThruIoctl ==
    \/ \E op \in Configs    : Handle(op, cmd.list, ListOut(cmd.list))
    \/ \E op \in Volts      : Handle(op, <<>>, ZeroOut)
    \/ Handle("FIVE_BAUD_INIT", cmd.list, ListOut(<<0, 0>>))
    \/ Handle("FAST_INIT", cmd.list, ListOut(<<0>>))
    \/ \E op \in Clears     : Handle(op, <<>>, NoOut)
    \/ \E op \in Arrays \ {"FIVE_BAUD_INIT"} : Handle(op, cmd.list, NoOut)

\* The server dies, and the call fails.
Dies ==
    /\ main' = "exited"
    /\ at' = "app"
    /\ call' = NoCall /\ cmd' = NoCall
    /\ UNCHANGED <<hJ2534, pointers, calls, args, ans, reply, appVars, libVars>>

\* What the handler writes does not fit into the reply, and the heap does not
\* bear it.
HeapOverrun == at = "server" /\ Filled(cmd) > Room(cmd) /\ Dies

\* Only the handler of IOCTLs does not look whether malloc gave it a reply.
NoReplyBuffer == at = "server" /\ cmd.op \in IoctlOps /\ Dies

ProcessCommand ==
    \/ Server_PassThruOpen
    \/ Server_PassThruConnect
    \/ Server_PassThruReadMsgs
    \/ Server_PassThruWriteMsgs
    \/ Server_PassThruIoctl
    \/ Server_PassThruStartPeriodicMsg
    \/ Server_PassThruStopPeriodicMsg
    \/ Server_PassThruStartMsgFilter
    \/ Server_PassThruStopMsgFilter
    \/ Server_PassThruSetProgrammingVoltage
    \/ Server_PassThruReadVersion
    \/ Server_PassThruDisconnect
    \/ Server_PassThruClose
    \/ Server_PassThruReset
    \/ Server_PassThruGetLastError
    \/ Server_PassThruGetLastSocketError
    \/ HeapOverrun
    \/ NoReplyBuffer

-----------------------------------------------------------------------------
(* The client's functions: the results, and what the application does. *)

\* Mutant of ReadMsgsReply: the last message is not copied.
ReadMsgsReplyShort(o, r) ==
    [o EXCEPT !.list = Overlay(@, First(r.list, IF r.n = 0 THEN 0 ELSE r.n - 1))]

\* As many messages as were read are copied, how many is not.
ReadMsgsReply(o, r) == [o EXCEPT !.list = Overlay(@, First(r.list, r.n))]

WriteMsgsReply(o, r) == [o EXCEPT !.n = r.n]

WordReply(o, r) == [o EXCEPT !.word = r.word]

\* Mutant of PeriodicReply: one bit less.
PeriodicReplySeven(o, r) == [o EXCEPT !.word = r.word % (IdSpan \div 2)]

\* Eight bits of the message id.
PeriodicReply(o, r) == [o EXCEPT !.word = r.word % IdSpan]

\* Mutant of IoctlReply: GET_CONFIG has no output, as the comment has it.
IoctlReplyNone(op, o, r) ==
    CASE op \in {"FIVE_BAUD_INIT", "FAST_INIT"} -> [o EXCEPT !.list = r.list]
      [] op \in Volts -> WordReply(o, r)
      [] OTHER -> o

IoctlReply(op, o, r) ==
    CASE op \in {"GET_CONFIG", "FIVE_BAUD_INIT", "FAST_INIT"} ->
             [o EXCEPT !.list = r.list]
      [] op \in Volts -> WordReply(o, r)
      [] OTHER -> o

\* The out parameters of call c when it returns with reply r.
Taken(c, r) ==
    CASE c.op = "READ_MSGS"          -> ReadMsgsReply(c.out, r)
      [] c.op = "WRITE_MSGS"         -> WriteMsgsReply(c.out, r)
      [] c.op = "START_PERIODIC_MSG" -> PeriodicReply(c.out, r)
      [] c.op \in IoctlOps           -> IoctlReply(c.op, c.out, r)
      [] c.op \in {"OPEN", "CONNECT", "START_MSG_FILTER", "READ_VERSION",
                   "GET_LAST_ERROR", "GET_LAST_SOCKET_ERROR"} ->
             WordReply(c.out, r)
      [] OTHER                       -> c.out

Done == call' = NoCall /\ cmd' = NoCall /\ args' = NoCall /\ ans' = NoCall
        /\ reply' = NoCall

\* What the application is not told when the call returns: how many messages
\* a read was short of, or the whole of an id.
NotTold ==
    CASE call.op = "READ_MSGS" /\ reply.status = "ERR_TIMEOUT" -> {"messages"}
      [] call.op = "START_PERIODIC_MSG" /\ reply.word >= IdSpan -> {"periodic"}
      [] OTHER -> {}

\* The call returns, and the application goes by what it was told.
Return ==
    /\ at = "client"
    /\ LET got  == Taken(call, reply)
           done == reply.status = "STATUS_NOERROR"
       IN /\ buf' = IF call.op = "READ_MSGS" THEN Overlay(buf, got.list) ELSE buf
          /\ took' = IF call.op = "READ_MSGS"
                        /\ reply.status \in {"STATUS_NOERROR", "ERR_TIMEOUT"}
                     THEN took \o First(got.list, got.n) ELSE took
          /\ handles' =
               IF ~done THEN handles
               ELSE IF call.op = "START_PERIODIC_MSG"
                 THEN handles \cup {<<got.word, call.list[1]>>}
               ELSE IF call.op = "STOP_PERIODIC_MSG"
                 THEN {h \in handles : h[1] # call.word}
               ELSE IF call.op = "CLEAR_PERIODIC_MSGS" THEN {}
               ELSE handles
          /\ known' = IF ~done THEN known
                      ELSE IF call.op = "SET_CONFIG" THEN Overlay(known, call.list)
                      ELSE IF call.op = "GET_CONFIG" THEN Overlay(known, got.list)
                      ELSE known
    /\ untold' = untold \cup NotTold
    /\ at' = "app"
    /\ Done
    /\ UNCHANGED <<loaderVars, calls, libVars>>

\* The part of what the application goes by that a call changes.
Changes(op) ==
    CASE op = "READ_MSGS"  -> {"messages"}
      [] op = "SET_CONFIG" -> {"config"}
      [] op \in {"START_PERIODIC_MSG", "STOP_PERIODIC_MSG",
                 "CLEAR_PERIODIC_MSGS"} -> {"periodic"}
      [] OTHER             -> {}

\* The reply does not come within SOCKET_TIMEOUT_SECONDS or not at all,
\* whether the library has executed the call by then or never will.
TimesOut ==
    /\ at \in {"server", "client"}
    /\ untold' = IF at = "client" /\ reply.status # "ERR_FAILED"
                 THEN untold \cup Changes(call.op) ELSE untold
    /\ at' = "app"
    /\ Done
    /\ UNCHANGED <<loaderVars, calls, buf, took, handles, known, libVars>>

\* The bus delivers the next message to the library.
Arrive ==
    /\ arrived < BusLen
    /\ arrived' = arrived + 1
    /\ UNCHANGED <<loaderVars, at, calls, inCall, appVars, read, running, config>>

Next ==
    \/ (StartUp \/ ShutDown) /\ at = "app"
                             /\ UNCHANGED <<at, calls, inCall, appVars, libVars>>
    \/ MakeCall
    \/ ProcessCommand
    \/ Return
    \/ TimesOut
    \/ Arrive

Spec == Init /\ [][Next]_vars

-----------------------------------------------------------------------------
(* Properties *)

\* Every variable has its type.
TypeOK ==
    /\ LoaderTypeOK
    /\ at \in {"app", "server", "client"}
    /\ call # NoCall => call.op \in Ops /\ call.word \in Nat
                        /\ call.list \in Seq(Datum) /\ call.out \in Out
    /\ reply # NoCall => reply.status \in Status /\ reply.n \in Nat
                         /\ reply.word \in Datum /\ reply.list \in Seq(Datum)
    /\ buf \in [1 .. MaxMsgs -> Datum]
    /\ took \in Seq(Datum)
    /\ handles \subseteq Nat \X Nat /\ running \subseteq Ids \X Nat
    /\ known \in [1 .. Params -> Datum] /\ config \in [1 .. Params -> Nat]
    /\ arrived \in 0 .. BusLen /\ read \in 0 .. arrived /\ calls \in 0 .. MaxCalls
    /\ untold \subseteq {"messages", "periodic", "config"}

\* A handler only ever calls a function that loadDLL has found: the library
\* is loaded in full before main serves, and a failure on the way ends it.
CallsLoaded ==
    at = "server" => hJ2534 /\ Callee(cmd.op) \in pointers

\* The library is called with what the application passed, with three
\* exceptions: the name of PassThruOpen, the missing messages of a filter and
\* the one that its type has no use for, and the table's bytes.
ArgumentsArrive ==
    at = "client" =>
        /\ args.op = call.op /\ args.word = call.word
        /\ call.op = "START_MSG_FILTER" =>
             \A i \in 1 .. 3 :
                 \/ args.list[i] = call.list[i]
                 \/ args.list[i] = 0 /\ call.list[i] = Null
                 \/ i = 3 /\ args.list[i] = Null /\ call.word # FLOW_CONTROL_FILTER
        /\ call.op \notin {"OPEN", "START_MSG_FILTER",
                           "ADD_TO_FUNCT_MSG_LOOKUP_TABLE"} =>
             args.list = call.list

\* The out parameters end up as if the library had been called with them, but
\* for the count of a short read, an id that eight bits do not hold, and the
\* zeros that a failed call leaves: nothing else of what is in the server's
\* memory ever gets into the application's.
ResultsReturn ==
    at = "client" =>
        LET got    == Taken(call, reply)
            own    == Patch(call.out, ans)
            failed == reply.status = "ERR_FAILED"
        IN /\ \/ got.list = own.list
              \/ /\ failed /\ call.op \in {"FIVE_BAUD_INIT", "FAST_INIT"}
                 /\ Elements(got.list) = {0}
           /\ \/ got.n = own.n
              \/ call.op = "READ_MSGS" /\ own.n < got.n
           /\ \/ got.word = own.word
              \/ failed /\ got.word = 0
              \/ call.op = "START_PERIODIC_MSG" /\ reply.word >= IdSpan

\* However reads, failures and arrivals follow each other, the application
\* takes the messages that the library hands out, each once and in order, as
\* long as no read came back short or untold.
ReadsInOrder ==
    at = "app" /\ "messages" \notin untold =>
        took = [i \in 1 .. read |-> i]

\* The messages that are periodic in the library are those the application
\* believes to be, under the same ids, as long as no id was cut off and no
\* call untold.
PeriodicKept ==
    at = "app" /\ "periodic" \notin untold => handles = running

\* A parameter is what the application has last set or got, and none that it
\* has set becomes unknown, as long as it was told of what it set.
ConfigKnown ==
    at = "app" /\ "config" \notin untold =>
        \A p \in 1 .. Params : \/ known[p] = config[p]
                               \/ known[p] = Old /\ config[p] = 0

\* The pieces a function sends add up to the length it announced, or the
\* handler would take the next command for the rest of this one; only
\* FAST_INIT without a message sends less.
CommandsExact ==
    at = "server" => \/ Sum(Pieces(call)) = Announced(call)
                     \/ call.op = "FAST_INIT" /\ call.list = <<Null>>

\* A function copies no more than the reply has, and the reply has no more
\* than was allocated and filled; only that of GET_CONFIG is too small.
RepliesFit ==
    at = "client" =>
        /\ Copied(call, reply) <= ReplyData(cmd, reply)
        /\ \/ call.op = "GET_CONFIG"
           \/ /\ ReplyData(cmd, reply) <= Room(cmd)
              /\ Filled(cmd) <= Room(cmd)

-----------------------------------------------------------------------------
(* What the documentation leads one to expect, and the code does not do. *)

\* "Actual number of messages read is in NumMsgs" (J2534_V0404.h, of
\* ERR_TIMEOUT): the application finds there how many messages were read.
CountIsActual ==
    at = "client" /\ call.op = "READ_MSGS" /\ reply.status = "ERR_TIMEOUT" =>
        Taken(call, reply).n = ans.n

=============================================================================
