# A verification of J2534-TCP

J2534-TCP shares a J2534 (PassThru) library over TCP. A **client library**
(`libJ2534.so`, `J2534_TCP.dll`) is loaded by an application in place of the real
library; each PassThru call is sent to a **server**, which executes it against
the real library and sends the result back. These modules model that
protocol in TLA+, check it with TLC on small instances, and prove its safety
properties with TLAPS for all instances.

## 1. The system

| Component | Code | State | Operations | Properties that make it correct |
|---|---|---|---|---|
| Client library | `client/J2534_Client.cpp` | one static `sock` per process, shared by its threads; the call in progress | 16 PassThru calls over `connectToServer`, `sendData`, `getReply`, `disconnectServer` | a call returns; what it returns is its own reply; success means executed (as long as memory for replies lasts) |
| TCP connections | the operating system | ends open or closed, data queued, resets, the accept queue | connect, accept, send, recv, close, loss | external |
| Server, `main` | `server/J2534_TCPServer.cpp` 45-211 | `stopServer`, the listening socket, the future it waits for, the loaded library | accept loop, end, restart by somebody | one handler at a time; a queued client gets its turn once the served one is quiet; no handler without the library |
| Server, handlers | same, 213-307 | one `on_client_connect` per connection: the command being read, executed or answered | receive length and body, `processCommand`, send, disconnect | each command executed at most once and in order |
| Command execution | `server/J2534_Server.cpp` | none of its own; the devices open in the library | `processCommand` and a handler per call | the reply is the library's |
| Marshalling | both sides, `include/J2534_TCPIP.h` | packed structures; what the application keeps of the results | one copy in, one out per call, on each side | what goes in comes out; announced, sent, allocated and copied sizes agree |
| Loader | `server/J2534.cpp` | function pointers | `loadDLL`, `unloadDLL` | nothing is called that is not loaded |
| Start-up, log, vendored mINI and getopt, build | `client/dllmain.cpp`, `ini.h`, `getopt-win.*` | | | not modelled |

**How they interact.** An application calls the client library, which connects
when `PassThruOpen` (or `PassThruReset`) finds no socket, writes the command with
one `send` loop (two or three for `ReadMsgs`, `WriteMsgs`, `Ioctl`) and waits in
`recv` for at most 5 s (`SO_RCVTIMEO`). The server's `main` accepts one connection
and waits until its handler has ended: with `-m` because the handler runs in
`main`, without it because the destructor of the future that `std::async`
returns waits. The kernel queues `listen(server, 0)` connections meanwhile; such
a client can already send. The accepted sockets inherit the 5 s receive timeout
that `main` sets on the listening socket.

**What is hard.** Replies do not say which call they answer; calls time out while
their command is still on its way, queued or executing; both ends close, die or
lose the network at any point; half-sent commands; without memory for a packet an end leaves its body unread and keeps the
connection, so that it takes the next bytes for a length; the server has one
handler at a time and several clients, and a client that calls at least every 5 s keeps it;
devices outlive the connections that opened them. `PROJECT.json` lists these hazards at their lines, with the property
that covers each, or a note where none does yet.

## 2. The modules

    Tcp  <-  Client  <-  Server  <-  Proxy  <-  ProxyInv  <-  MCProxy (TLC)
                                       |               \-  ProxyProofs  <-  ProxyOrder  <-  ProxyRpc (TLAPS)
                                      Rpc (abstract specification, INSTANCE)
    Framing  <-  FramingInv  <-  MCFraming (TLC), FramingProofs (TLAPS)
    Tcp  <-  Threads  <-  ThreadsInv  <-  MCThreads (TLC), ThreadsProofs (TLAPS)
    Loader  <-  Marshal  <-  MarshalInv  <-  MCMarshal (TLC), MarshalProofs (TLAPS)
    Tcp  <-  TcpProofs (TLAPS)  <-  ProxyProofs, ThreadsProofs

* **Tcp** is external: the sockets as the code uses them. Each connection has two
  ends; `inq[k][e]` is what end `e` has not yet read, in items that are a packet's
  *head* (its length and, for the calls that send their messages separately, the fixed part) or *tail*
  (the rest). `Send` to a closed peer succeeds once and leaves a broken pipe;
  `close` with unread data resets the peer; `Lose` cuts a connection without
  telling either end and keeps a prefix of what was on its way. `ReceiveSome` is a `recv` by an end
that no longer knows where in its queue a packet begins.
* **Client**: `sock`, a program counter `pc` and the current call `cur` per process;
  `req[i]` and `outcome[i]` record what call `i` asked and returned. `PassThruOpen`,
  `PassThruReset`, `PassThruClose`, `PassThruStreamed` and `PassThruPlain` start a
  call (the sixteen calls differ, as far as the socket goes, in these five ways);
  `ConnectToServer`/`ConnectFails`, `SendData`/`SendDataFails`/`SigPipe`,
  `GetReplyLen`/`GetReplyLenFails`, `GetReplyBody`/`GetReplyBodyFails` are the
  functions of those names and their error paths; `Replied` is what a call makes of its reply, `CloseDisconnects` the end of
  a successful `PassThruClose`. `Crash` and `Restart` are the application's. `GetReplyAllocFails` is the `malloc` of
  `getReply` that returns NULL: the socket is kept, the body stays, and the connection is in
  `astray["client"]`, where `GetReplyAstray` finds whatever length the bytes make.
* **Server**: `mainPc`, `serving`, `stopServer`, `loaded` for `main` (`Accept`,
  `HandlerEnded`, `StopListening`, `StartServer`), `hpc[k]` and `hcall[k]` for the
  handler of connection `k` (`RecvLen`, `RecvBody`, `RecvEnds`, `RecvTimesOut`,
  `ProcessCommand`, `ProcessCommandNull`, `SendReply`, `SendReplyPart`,
  `SendReplyFails`, `ServerSigPipe`), and for the external library `executed`,
  `answer` and `opened`. `RecvBodyAllocFails`, `RecvAstray` and `ProcessNoise` are the handler that had no
  memory for a command: `astray["server"]`, what it then takes for commands, and what comes of these.
* **Proxy** composes them, one process per step, and states the properties. `OrderlyNext` has the steps of ends
  that know where a packet begins, `ClientAstray` and `HandlerAstray` those with which an end loses that and
  those it takes then.
* **Rpc** is what the proxy promises without sockets: each call is executed at
  most once, one application's calls in order, and success is told only of
  what was executed. `Proxy` is shown to implement it under the mapping `RPC`.
* **Framing** is one connection byte by byte, apart from the others: `sendData`,
  `getReply` and the loops of `on_client_connect`. Both ends do the same (`SendData`, `RecvLen`,
  `RecvBody`, `AllocFails`, `Disconnect` of end `e`) but for where a `recv` of the length
  writes (`Placed`); `MakeCall`, `ReturnReply` and `GetReplyFails` are the client's, `ProcessCommand` and
  `ProcessCommandNull` the handler's. `broken` is what `getReply` returns when its `recv` fails: NULL, or the packet as
  far as it has come, the rest `Unset`. Five faults leave a connection open and out of step: a length that
  arrives in pieces (`split`), no memory for a command or a reply (`cmdNull`, `replyNull`), a NULL reply
  (`noReply`) and a command shorter than it says (`short`: `FAST_INIT` without an input). `Proxy` assumes whole packets, which `CommandsIntact` and
  `RepliesIntact` justify as long as none of the faults that `faults` records has happened.
* **Threads** is one application whose threads call at the same time. Every step of a
  call reads `sock` again; `MakeSocket` and `Connect` are the two halves of
  `connectToServer`, `CloseSock` and `ForgetSock` those of `disconnectServer`. `fds` is
  what each descriptor stands for, because a number that one thread has closed may be
  another socket, or a file of the application (`OpenFile`), when the next thread uses it.
  `GetReplyAllocFails` and `GetReplyAstray` are as in Client, for the calls in `NoMemory`.
  The server is reduced to a handler that reads the two parts of a command and
  replies (`AcceptClient`, `ReadCommand`, `Reply`, `EndClient`).
* **Loader** is the server's process around the library: `loadDLL` finds the sixteen
  functions one after the other (`OpenLibrary`, `LookUp`, `LookUpFails`, `Loaded`), `main` binds,
  listens, serves, and `unloadDLL` (`UnloadDLL`).
* **Marshal** extends it with the data. Each of the client's sixteen functions is an action
  (`PassThruOpen` and so on) that puts what it was given (`call`) on the wire (`cmd`); each
  handler of the server is one (`Server_PassThruOpen` and so on) that calls the library with
  `args`, gets `ans` and puts what the out parameters then hold into `reply`; `Return` copies
  that to the application with `ReadMsgsReply`, `WriteMsgsReply`, `PeriodicReply`, `IoctlReply` or
  `WordReply`. Data are numbers for messages and words, and values for what memory may
  hold besides: `Null` (no object), `Old` (what the application had there), `Pointer`. `Pieces`, `Announced`,
  `Room`, `Filled`, `ReplyData` and `Copied` are the sizes that the code computes in six places.
  The library (external) receives messages from a bus, repeats
  periodic messages and keeps parameters; `took`, `handles` and `known` are what the
  application believes of these. `untold` names the parts of which it was told nothing or the wrong
  thing, by a time-out or by one of the defects below.
* **ProxyInv**, **FramingInv**, **ThreadsInv** and **MarshalInv** define the inductive
  invariants, which the runs check and the proofs rest on (section 6). **TcpProofs**,
  **ProxyProofs**, **ProxyOrder**, **ProxyRpc**, **FramingProofs**, **ThreadsProofs** and
  **MarshalProofs** are the proofs. The **MC** modules are the instances for TLC.

Definitions called mutants in their comments (`...Connected`, `...Retries`,
`AcceptDetached` and so on) are not used by any action: they are plausible bugs, each
of which makes one of the properties fail, kept to show that the property can fail.

## 3. Properties

* `LibrarySerial`: the J2534 library is never in two handlers at once.
* `OwnReply`: a process only ever has before it the reply to the call it is in.
  Nothing in a reply identifies the call; what keeps replies apart is that every
  failure disconnects, and this is fragile. One does not: without memory for a reply or a command the
  connection is kept (`Astray`); the property says that this stays with that connection.
* `InOrderAtMostOnce`: nothing is executed twice, and one process's calls in
  the order in which it made them, over all the connections it used. This and the next two speak of behaviours
  in which every packet could be received (`Astray = {}`): a handler that has lost its place executes whatever the
  bytes say.
* `SuccessIsReal`: `STATUS_NOERROR` is returned only if the library answered it.
* `HeldIsOpen`: a device an application has opened and not tried to close is open
  in the library, and no other application has it, whatever connections failed.
* `LibraryLoaded`: the library is unloaded only when no handler runs, no
  connection is open on the server and it no longer listens.
* `CallReturns`: every call returns (or its process dies).
* `QueuedServed`: a client waiting in the accept queue gets its turn or an error, provided that from some time on no more
  calls are made on the connection that is served (`ServedIsQuiet`). A client that goes on calling, at least every 5 s,
  has the only handler for ever; one that is idle, dead or unreachable has not, and that is what is to be shown.
* `ImplementsRpc`: refinement of `Rpc`.
* `IInv`, `OrderInv`, `ClaimsKept`, `WireInv`, `ThreadsInv`, `MarshalInv`: the inductive invariants
  (section 6).
* `CommandsIntact`: over bytes, what is executed is what was asked, however the stream is split and wherever it is cut, and no
  command of which a part was sent is executed; the antecedent names the only faults that can change it.
* `RepliesIntact`: what `getReply` returns from a connection that holds is what was answered, in order, whatever the server
  has made of the commands. When its `recv` fails in the body it returns the packet all the same: what it
  received of it, and what `malloc` left (`Unset`) for the rest, which may be the result (`torn_reply`). What was received
  is then in its place in the next answer (`TornFrom`). Only a reply left unread for want of memory can change that.
* `NoStall`: the two ends never wait for each other with nothing on its way, as long as none of the five faults has happened:
  after a NULL reply or a short command both wait, until the receive timeout of one of them, and after the
  others they may.
* `SerialRepliesOwn`, `SerialSocketsKept`: as long as calls of different threads do not overlap, each
  gets its own reply (if there was memory for every reply), no foreign descriptor is closed and no socket is lost.
* `PlainCommandsWhole`: even when they do overlap, the server reads whole commands, as long as no
  call that sends its command in pieces is among them.
* `CallsLoaded`: no handler calls a function that is not loaded.
* `ArgumentsArrive`: the library gets what the application passed. The exceptions are part of
  the property: the name given to `PassThruOpen`, filter messages that were `NULL` (sent as zeros, so that the library
  cannot tell) or that the filter's type does not use, and the bytes of `ADD_TO_FUNCT_MSG_LOOKUP_TABLE`, which are
  those of a pointer.
* `ResultsReturn`: the application's variables end up as if the library had been called with them,
  but for the count of a short read, the id of a periodic message that needs more than eight bits and the zeros of a failed call.
* `ReadsInOrder`, `PeriodicKept`, `ConfigKnown`: over several calls, what the application has taken, believes
  periodic or believes a parameter to be agrees with the library, as long as it was told
  what was done.
* `CommandsExact`, `RepliesFit`: the lengths announced, sent, allocated, filled and copied agree, but
  for `FAST_INIT` without a message and for the buffer of `GET_CONFIG`.

What the documentation leads one to expect and the code does not do:
`AppSurvives`, `ExitsOnClientClose`, and `SuccessIsReal` when replies travel in pieces; over bytes,
`SentIsExecuted`; of the results, `CountIsActual`; with several threads, `ReplyIsOwn`.

## 4. The runs

| Run | Instance | Result |
|---|---|---|
| `default` | 2 processes, 1 device, 3 calls, 3 connections, Linux; timeouts and closes at any time, no loss | `TypeOK`, `LibrarySerial`, `OwnReply`, `InOrderAtMostOnce`, `SuccessIsReal`, `HeldIsOpen`, `ClaimsKept`, `ImplementsRpc` hold; 458,795 states |
| `faults` | 2 calls, 2 connections; lost connections, failing allocations, of receive buffers too, fairness | `OwnReply`, `HeldIsOpen`, `CallReturns`, `QueuedServed` hold; 369,037 states |
| `leakmode` | `-m`, two starts of the server, Windows clients, replies in pieces, the faults of `faults` and dying applications | `IInv`, `OrderInv`, `LibraryLoaded`, `LibrarySerial`, `InOrderAtMostOnce` hold; 238,976 states |
| `torn_reply` | `ReplySplit` | `SuccessIsReal` violated: `getReply` returns a reply it has not fully read |
| `sigpipe` | Linux client | `AppSurvives` violated: `send` without `MSG_NOSIGNAL` |
| `leakmode_exit` | `-m` | `ExitsOnClientClose` violated: the server ends on an idle client |
| `framing` | 3 calls, base 4, lengths of 2 digits, commands of 1 and 3 bytes, 2 replies, the five faults | `TypeOK`, `CommandsIntact`, `RepliesIntact`, `NoStall`, `WireInv` hold; 233,447 states |
| `split_length` | a command whose length needs both digits; `Faults = {"split"}` | `SentIsExecuted` violated: the server's `recv` forgets `+ i` |
| `marshal` | 3 calls of any kind, messages, words and ids of two values, 2 messages on the bus, 2 parameters, ids cut off modulo 4, start-up failing anywhere, `-m` | `MarshalInv` and the nine invariants of `Marshal` hold; 526,106 states |
| `read_msgs` | the same | `CountIsActual` violated: `*pNumMsgs` is never written |
| `threads` | 2 threads, 3 calls, 2 connections, 2 descriptors, no memory for the reply to the first call | `TypeOK`, `SerialRepliesOwn`, `SerialSocketsKept`, `PlainCommandsWhole`, `ThreadsInv` hold; 2,483,992 states |
| `mixed_replies` | the same with 3 descriptors and memory | `ReplyIsOwn` violated: a thread takes another's reply |

**Bounds.** `MaxCalls`, `MaxConns` (connections made, ever), `MaxStarts` (starts of the
server) and `Backlog` (Linux queues `listen(s, 0)` at most one connection beyond those
accepted) bound the behaviours. Three calls over three connections of two processes are enough for one
process to time out on a connection, go on with another while the first is
still queued, and compete with a second process; two calls are enough for every
single failure, and for a body left unread by one call to meet the next. Reaching the call bound ends a behaviour, hence
`CHECK_DEADLOCK FALSE`; applications may also stop calling. With all connections
used, a connect can only fail, which the code may meet at any time anyway.
`Framing` has digits of base 4 for bytes and two of them for a length: enough for lengths
that need one digit or both, for every way to split them, and for the difference with the
length's own size to wrap around. Three calls let a lost boundary reach a later packet.
In `Marshal` three calls (`MaxCalls`) are what a use of a stale result takes: start, start, stop of periodic messages;
a failed read, then two reads; set, get, and a look. Ids 3 and 7 are the same modulo `IdSpan` = 4, as 3 and
259 are modulo 256. An array has at most `PtrSize` bytes: of a longer one, `ADD_TO_FUNCT_MSG_LOOKUP_TABLE`
would send what lies behind the structure. In `Threads` three calls let a reply
that came too late, or a descriptor that was closed, be met by a later call; two
descriptors are a socket and a file, or the two sockets of threads that connect at once. The call that lacks memory is the first,
so that two more meet what it has left. What kind of call the calls were that have returned is left out of the
states that TLC tells apart (`View`): nothing looks at it again.
`Marshal` and `Threads` stop when main has ended, the calls are used up or the application was killed, hence no check of deadlock.

**Fairness.** Each process that is in a call, `main` and each handler get
scheduled. This is all that liveness rests on, because the code bounds each wait: `recv` returns within
5 s on both sides, so `GetReplyLenFails`/`RecvTimesOut` stay enabled until something
arrives; `connect` is bounded by the kernel; the library is assumed to answer.
Nobody need make a call, close, die, or start the server again. That a served client stops calling is not
justified by the code and so is no fairness: `QueuedServed` has it as its antecedent.
`SO_RCVTIMEO` is not modelled by a clock: a timeout may strike at any time.

## 5. What the models leave out

* Calls of several threads of one process are in `Threads` only, with a server that does not fail and the
  Linux client; a `recv` that waits on a socket which another thread closes ends there at once or times out.
  A C++ data race on `sock` is taken to read the value before or after a write. Threads that overlap on one socket receive
  one part of a packet each.
* `Marshal` has one application and one connection, because what happens to connections is in `Proxy`; a
  call that fails on its way is `TimesOut`. The values of messages and words matter only by being equal or not.
  Verbose output and the log are left out.
* In `Proxy` a packet is two items; bytes are in `Framing`, which has one connection and
  does not go on after it. In `Proxy`, `AllocMayFail` covers the command in the client and the
  reply in the server, `RecvAllocMayFail` the receive buffers of both. An end that has lost its place takes any reply
  from what is there, or waits in vain; a length it reads at the server uses up the item it is in. `FAST_INIT` without an
  input, a call whose tail never comes, is in `Framing` and `Marshal` only.
* What an undersized buffer does to the heap (`cmd->len` is stored into whatever
  `malloc` returned, a wrapped length is received into it) is not modelled: `Framing` goes on as
  if there were room, and `Client`, `Server` and `Threads` go on as if a misread length were at least four.
* `send` does not block, and takes what it is given at once: in `Threads` a command sent with one `sendData` is not
  interrupted by another thread's, as it could be when the socket's buffer is full. The third `sendData` of `PassThruIoctl` is not told from the second.
* The early `return` of `PassThruIoctl` for an identifier it does not know is,
  for the protocol, `AllocFails`; the server's `NULL` for unknown commands is `ProcessCommandNull`.
* `HeldIsOpen` assumes an application that tries to close a device once, and
  counts it as given up from then on, whatever the call returned.
* That without `-m` too the server serves one client at a time, and that it executes a command whose caller
  has given up, is in the model (`HandlerEnded`, `ProcessCommand`) and part of `QueuedServed` and `ImplementsRpc`.
* The console handler is never installed (its call is commented out), so only
  `-m` ends `main`. A `bind` that fails on restart is a restart that does not happen.
* Devices are the only state of the library in `Proxy`; received messages, periodic messages and parameters are in
  `Marshal`. Channels and filters have no state in the models. `IOCTL_ID` is complete as the header has it.

## 6. The proofs

Every safety property of a passing run, the refinement included, is a theorem: for every
set of clients, devices and threads, every bound, every number of messages, parameters, bytes of a
length, and every combination of platform, mode and fault that the constants allow.

| Module | Theorem | States |
|---|---|---|
| `ProxyProofs` | `Invariance` | `Safety => []IInv` |
| | `TypeCorrect`, `Serial`, `RepliesAreOwn` | `TypeOK`, `LibrarySerial`, `OwnReply` (on connections that are not astray) |
| `ProxyOrder` | `OrderKept` | `Safety => []OrderInv` |
| | `ExecutedInOrder`, `LoadedWhenNeeded` | `InOrderAtMostOnce` (as long as none is astray), `LibraryLoaded` |
| | `SuccessesAreReal` | `SuccessIsReal` (the same), given `~ReplySplit` |
| `ProxyRpc` | `ClaimsAreKept`, `DevicesAreHeld` | `ClaimsKept`, `HeldIsOpen` (the same), given `~ReplySplit` |
| | `RpcImplemented` | `Safety => ImplementsRpc`, given `~ReplySplit` and `~RecvAllocMayFail` |
| `FramingProofs` | `WireKept` | `Spec => []WireInv` |
| | `FramingTypes`, `CommandsArriveIntact`, `RepliesArriveIntact`, `NeverStalls` | `TypeOK`, `CommandsIntact`, `RepliesIntact`, `NoStall` |
| `ThreadsProofs` | `ThreadsKept` | `Spec => []ThreadsInv` |
| | `ThreadsTypes`, `SerialCallsGetTheirs`, `SerialCallsKeepSockets`, `PlainCallsStayWhole` | `TypeOK`, `SerialRepliesOwn`, `SerialSocketsKept`, `PlainCommandsWhole` |
| `MarshalProofs` | `MarshalKept` | `Spec => []MarshalInv` |
| | `MarshalTypes`, `CallsAreLoaded`, `ArgumentsArriveIntact`, `ResultsComeBack` | `TypeOK`, `CallsLoaded`, `ArgumentsArrive`, `ResultsReturn` |
| | `ReadsStayInOrder`, `PeriodicStaysKnown`, `ConfigStaysKnown` | `ReadsInOrder`, `PeriodicKept`, `ConfigKnown` |
| | `CommandSizes`, `ReplySizes` | `CommandsExact`, `RepliesFit` |

**What they assume.** The named assumptions of the modules: bounds are naturals, and the "none" values
differ from the values whose absence they stand for (`NoCall` from the processes, too, in `Rpc`'s mapping, and in `Threads`
`Free`, `New` and `File` from each other). `~ReplySplit` is a hypothesis of its own wherever a theorem speaks of success:
the run `torn_reply` shows that without it the code makes up results. `~RecvAllocMayFail` is one of the refinement's,
since `Rpc` has no handler that executes what nobody asked; the other theorems hold without it, with what they say
of connections that are astray in the properties themselves.

**Calls on their connections (`IInv`).** `OwnReply` is not inductive: that nothing stale is on its way to a process
depends on where its command is. `IInv` says it: `Sockets` (a socket
belongs to one process, an unused connection is clean), `OneHandler` (main waits for the only handler),
`CallsInProgress` and `HandlerCalls` (who works on which call), `Remembers` (no connection is astray where memory never wants), and `Flows`, the
heart: for each process with a socket that is not astray its current call, and no other, is
nowhere, in the server's receive queue, in the handler, or in its own receive queue, in one
of ten combinations that `OnItsWay` lists with the `pc` that goes with each. A
connection that is not live (cut, or closed by the server) may have lost what was on it.
The proof has one lemma per part of `IInv`, split by actor and action; the
transitions of `OnItsWay` are stated over its parameters alone, so that no
action has to be expanded to use them.

**Order (`OrderInv`).** A process that timed out leaves a command behind on a connection that the
server may only get to later, and goes on with another connection: `IInv` forgets that command, and
`InOrderAtMostOnce` must not. `OrderInv` adds that connections are numbered in the order in which they were
made and served (`Numbered`, `Turns`), that each holds at most one command that is not executed (`OneCommand`),
and that a process's executed calls are older than its pending ones, and those older the older
their connection (`Ordered`, which like `Answered` is said as long as no connection is astray).
`Lifetime` relates main, the library and the listening socket; `Answered`
says that exactly the executed calls have an answer, from which `SuccessIsReal` follows when a reply comes whole.

**Devices (`ClaimsKept`).** `HeldIsOpen` looks only at what applications have been told. Between the
execution of an open and its reply, and between the call of a close and its execution, a device is nobody's
there; `ClaimsKept` counts these as claims and says that at most one claim is laid to a device, and none to a closed one, as
long as the first server runs. A late close of a process that has died, or has given up the call, is such a claim.

**Refinement.** `RpcImplemented` takes each step of `Proxy` to a step of `Rpc` or a stutter: making a
call is `Call`, `ProcessCommand` is `Execute`, the return of a call, or the end of the application in it, is `Tell`, and the rest
`Rpc` does not see. `OrderInv` gives the guard of `Execute` (no younger call of the process has been executed, by `Ordered`)
and that of `Tell` (success only of what has been executed and answered so, by `Answered`, given `~ReplySplit`).

**Bytes (`WireInv`).** For each direction: what was received begins what was sent, and the bytes of the packet
being received, in the network and still to be sent are the packets pending, one after the other (`Wire`), or their
beginning when an end has closed or a command was short (`Short`, after which there is no other), unless a fault that spoils this direction
has happened (`Spoilt`). `TornIntact` is what `RepliesIntact` says of a failed receive. `Phases` and
`Counts` tie the buffers to the program's place. That a length written in digits is read back as
itself, whatever the base, is proved on sets of numbers with the least-number principle, since the library's
induction takes an operator.

**Threads (`ThreadsInv`).** Two parts, each behind the flag that the property names. `Plain`: as long as no call that
is sent in pieces had company, each connection holds whole commands, or half a one whose other half its thread has yet to send
or that nobody will complete because the connection is closed. `Serial`: as long as no two calls overlapped, one thread
works at a time, `sock` is what its place in the code says (`SockOf`), and what is on its connection is its own call
in one of the forms of `Flow`, unless a reply was left unread there (`OwnReplies` is what then remains: it speaks of
applications that never lacked the memory). `Begun` and `Fresh` say that calls are begun, and connections clean, before they are used.

**Data (`MarshalInv`).** `Sent` gives the command as a function of the call (`Wire`), `Answered` the library's
arguments, and the reply, as functions of the command and the answer (`Passed`, `Prepared`, `ReplyTo`), with the answer
one that the library may give (`AnswerOf`). `MessagesTold`, `PeriodicTold` and `ConfigTold` are the
properties over several calls, which only speak of an application between two calls, extended to the
call whose effect the library has had and the application has not (`Ahead`). One lemma each says of all sixteen functions
(`MakeCallDoes`) and all handlers (`ProcessCommandDoes`) that they do what these functions describe; the
rest of the proof looks at calls only by what they change. `Ready` ties main's place to what is loaded.

**Only model-checked.** `CallReturns` and `QueuedServed`: liveness under
fairness is out of the prover's reach, and so is `ENABLED`.

## 7. The plan

Modelled: the connection protocol (Tcp, Client, Server, Proxy), the bytes (Framing), the data
(Loader, Marshal), the threads of one application (Threads). Proved: what section 6 lists. Left:

1. Action properties over the proved invariants: a connection that a process has left is never used by it again; what the
   library has executed is never undone but by a restart of the server.
2. The refinement that section 2 only states in words: that `Framing`, under the faults it excepts, implements the whole
   packets of `Tcp` between one client and the handler.
3. `ClaimsKept` over restarts of the server, with the devices that the earlier one had open.

**Not modelled.** `client/dllmain.cpp` opens the log and keeps the built-in address, as its
reading of the INI file is commented out; `ini.h` and `getopt-win.*` are
third-party parsers. None of them changes state that the calls use.
