------------------------------ MODULE ProxyInv ------------------------------
(***************************************************************************)
(* The inductive invariant of Proxy: what holds between the steps and is   *)
(* preserved by each, from which the properties of Proxy follow.  The runs *)
(* check it on small instances, ProxyProofs proves it for all.             *)
(***************************************************************************)
EXTENDS Proxy

Busy == {"connect", "send", "more", "len", "body", "bye"}

\* A process is in a call exactly when it is not idle, and the call is its own.
CallsInProgress ==
    \A c \in Clients :
        IF pc[c] \in Busy
        THEN cur[c] \in Calls /\ req[cur[c]] # NoRequest /\ req[cur[c]].client = c
        ELSE cur[c] = NoCall

\* Main waits for the only handler there is, and there is none otherwise.
OneHandler ==
    IF mainPc = "join"
    THEN serving \in Conns /\ \A k \in Conns : hpc[k] # "off" => k = serving
    ELSE \A k \in Conns : hpc[k] = "off"

\* What a handler works on is a call, or bytes of one; what it sends has been
\* answered, unless it has gone astray.
HandlerCalls ==
    /\ \A k \in Conns : hpc[k] \in {"body", "lib", "noise", "reply", "rest"} =>
           hcall[k] \in Calls /\ req[hcall[k]] # NoRequest
    /\ \A k \in Conns : hpc[k] = "noise" => k \in astray["server"]
    /\ \A k \in Conns : hpc[k] \in {"reply", "rest"} =>
           k \in astray["server"] \/ answer[hcall[k]] \in Reply
    /\ \A k \in Conns : \A m \in Items(inq[k]["server"]) :
           req[m.call] # NoRequest
    /\ \A k \in Conns : \A m \in Items(inq[k]["client"]) :
           k \in astray["server"] \/ answer[m.call] \in Reply

\* No packet is left unread for want of memory where memory never wants.
Remembers == ~RecvAllocMayFail => Astray = {}

\* A connection that is not in use is clean; a client end is open when, and
\* only when, it is the socket of a process, and of one process only.
Sockets ==
    /\ \A k \in Conns : st[k]["client"] = "none" =>
           /\ st[k]["server"] = "none" /\ hpc[k] = "off" /\ k \notin Queued
           /\ inq[k]["client"] = <<>> /\ inq[k]["server"] = <<>>
    /\ \A c \in Clients : sock[c] # NoSock =>
           st[sock[c]]["client"] = "open" /\ pc[c] \notin {"connect", "killed"}
    /\ \A b, c \in Clients : sock[b] = sock[c] /\ sock[b] # NoSock => b = c

H(i) == Head(Packet(i))
T(i) == Tail(Packet(i))[1]

Live(k) == k \notin cut /\ st[k]["server"] = "open"

\* Where call i of a process that is at p can be on its connection: nowhere,
\* on its way to the server (A), in the handler (h, that works on hc), or on
\* its way back (B).  A connection that is not live may have lost what the
\* other end would still have got.
OnItsWay(p, i, A, B, h, hc, live) ==
    /\ h \in {"body", "lib", "reply", "rest"} => hc = i
    /\ \/ /\ A = <<>> /\ B = <<>> /\ h \in {"off", "len"}
          /\ p \in {"more", "body"} => ~live
       \/ /\ A = <<H(i)>> /\ B = <<>> /\ h \in {"off", "len"}
          /\ p = "more" \/ (p = "len" /\ ~live)
       \/ A = <<H(i), T(i)>> /\ B = <<>> /\ h \in {"off", "len"} /\ p = "len"
       \/ /\ A = <<>> /\ B = <<>> /\ h = "body"
          /\ p = "more" \/ (p = "len" /\ ~live)
       \/ A = <<T(i)>> /\ B = <<>> /\ h = "body" /\ p = "len"
       \/ A = <<>> /\ B = <<>> /\ h \in {"lib", "reply"} /\ p = "len"
       \/ /\ A = <<>> /\ h = "rest"
          /\ \/ p = "len" /\ B = <<H(i)>>
             \/ p = "len" /\ B = <<>> /\ ~live
             \/ p = "body" /\ B = <<>>
       \/ A = <<>> /\ B = <<H(i), T(i)>> /\ h \in {"off", "len"} /\ p = "len"
       \/ A = <<>> /\ B = <<H(i)>> /\ h \in {"off", "len"} /\ p = "len" /\ ~live
       \/ A = <<>> /\ B = <<T(i)>> /\ h \in {"off", "len"} /\ p = "body"

Flow(c, k) == OnItsWay(pc[c], cur[c], inq[k]["server"], inq[k]["client"],
                       hpc[k], hcall[k], Live(k))

Flows == \A c \in Clients :
             sock[c] # NoSock /\ sock[c] \notin Astray => Flow(c, sock[c])

IInv == /\ TypeOK /\ CallsInProgress /\ OneHandler /\ HandlerCalls /\ Remembers
        /\ Sockets /\ Flows

-----------------------------------------------------------------------------
(* What the order of the calls, and what they return, rests on. *)

Done == Items(executed)

\* The calls that connection k may still bring to the library.
Pending(k) ==
    {m.call : m \in Items(inq[k]["server"])} \cup
    (IF hpc[k] \in {"body", "lib"} THEN {hcall[k]} ELSE {})

\* Calls and connections are numbered in the order in which they are made, and
\* the call a process is in is its last.
Numbered ==
    /\ \A i, j \in Calls : i < j /\ req[j] # NoRequest => req[i] # NoRequest
    /\ \A c \in Clients : \A i \in Calls :
          pc[c] \in Busy /\ req[i] # NoRequest /\ req[i].client = c => i <= cur[c]
    /\ \A j, k \in Conns :
          j < k /\ st[k]["client"] # "none" => st[j]["client"] # "none"

\* The server has its end of the connections that wait for their turn, and of
\* the one that has it, which is older than they are.
Turns ==
    /\ \A k \in Conns : st[k]["server"] = "open" <=> k \in Queued \/ hpc[k] # "off"
    /\ \A k \in Conns : inq[k]["server"] # <<>> => st[k]["server"] = "open"
    /\ \A m, n \in 1 .. Len(backlog) : m < n => backlog[m] < backlog[n]
    /\ \A j \in Conns : \A k \in Queued : hpc[j] # "off" => j < k

\* The server listens, with the library loaded, until main ends.
Lifetime ==
    /\ loaded <=> mainPc \in {"accept", "join"}
    /\ listening <=> mainPc \in {"accept", "join"}
    /\ ~listening => backlog = <<>>

\* What a handler at h, working on hc, has before it: nothing, a command it
\* has not begun to read, or the rest of the one it is reading.
AtServer(A, h, hc) ==
    \/ A = <<>>
    \/ h \in {"off", "len"} /\ \E i \in Calls : A \in {<<H(i)>>, <<H(i), T(i)>>}
    \/ h = "body" /\ A = <<T(hc)>>

\* A connection, abandoned or not, holds at most one command that has not been
\* executed yet.
OneCommand == \A k \in Conns \ Astray : AtServer(inq[k]["server"], hpc[k], hcall[k])

\* Of the calls of one process, those executed are older than those pending;
\* those pending on one connection are older than those on a later one; the
\* one that it is still sending is nowhere else.
Ordered ==
    /\ \A k \in Conns : \A i \in Pending(k) : \A j \in Done :
          req[j].client = req[i].client => j < i
    /\ \A j, k \in Conns : \A a \in Pending(j) : \A b \in Pending(k) :
          j < k /\ req[a].client = req[b].client => a < b
    /\ \A c \in Clients : \A k \in Conns : \A i \in Pending(k) :
          sock[c] # NoSock /\ req[i].client = c => k <= sock[c]
    /\ \A c \in Clients : pc[c] \in {"connect", "send", "more"} =>
          /\ cur[c] \notin Done
          /\ \A k \in Conns : cur[c] \in Pending(k) => pc[c] = "more" /\ k = sock[c]

\* Exactly the executed calls are answered, and a call has no outcome before
\* it returns.
Answered ==
    /\ \A i \in Calls : answer[i] \in Reply <=> i \in Done
    /\ \A i \in Calls : i \in Done \/ outcome[i] # "none" => req[i] # NoRequest
    /\ \A c \in Clients : pc[c] \in Busy => outcome[cur[c]] = "none"
    /\ \A c \in Clients : pc[c] = "bye" =>
          answer[cur[c]] \in Reply /\ answer[cur[c]].status = "STATUS_NOERROR"

OrderInv == /\ Numbered /\ Turns /\ Lifetime /\ OneCommand
            /\ Astray = {} => Ordered /\ Answered
            /\ InOrderAtMostOnce

\* Device d has been opened for c, which has not read the reply that says so.
Granted(c, d) ==
    /\ pc[c] \in {"len", "body"} /\ req[cur[c]].kind = "OPEN"
    /\ answer[cur[c]] = [status |-> "STATUS_NOERROR", dev |-> d]

\* Call i is to close device d, and has not been executed.
Closing(i, d) ==
    /\ req[i] # NoRequest /\ req[i].kind = "CLOSE" /\ req[i].dev = d
    /\ i \notin Done

\* Who lays claim to device d: who holds it, who is about to be told that it
\* is his, and the calls to close it that have not been executed.
Claims(d) ==
    {<<"held", c>> : c \in {x \in Clients : d \in held[x]}} \cup
    {<<"granted", c>> : c \in {x \in Clients : Granted(x, d)}} \cup
    {<<"closing", i>> : i \in {x \in Calls : Closing(x, d)}}

\* As long as the first server runs and every packet could be received, at most
\* one claim is laid to a device, and to none that is not open.
ClaimsKept ==
    /\ starts # 0
    /\ Astray = {} /\ starts = 1 /\ mainPc \in {"accept", "join"} =>
         \A d \in Devices :
             /\ Claims(d) # {} => d \in opened
             /\ \A a, b \in Claims(d) : a = b

=============================================================================
