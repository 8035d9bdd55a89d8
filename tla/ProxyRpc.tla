------------------------------ MODULE ProxyRpc ------------------------------
(***************************************************************************)
(* What a success means: the device that an open returned belongs to the   *)
(* application that opened it, and the proxy implements the remote         *)
(* procedure call of Rpc.  Both rest on IInv and OrderInv of ProxyInv, and *)
(* hold as long as a reply travels in one piece, and every packet finds    *)
(* the memory to be received: the body that getReply makes up when it does *)
(* not come, or reads where no reply begins, says anything.                *)
(***************************************************************************)
EXTENDS ProxyOrder

-----------------------------------------------------------------------------
(* A device and the claims that are laid to it. *)

LEMMA ClaimsShrink ==
    ASSUME NEW d \in Devices,
           \A c \in Clients : d \in held'[c] => d \in held[c],
           \A c \in Clients : Granted(c, d)' => Granted(c, d),
           \A i \in Calls : Closing(i, d)' => Closing(i, d)
    PROVE  Claims(d)' \subseteq Claims(d)
BY DEF Claims

LEMMA ClaimsSame ==
    ASSUME Astray = {}, ClaimsKept, starts' = starts,
           mainPc' \in {"accept", "join"} =>
               mainPc \in {"accept", "join"} /\ opened \subseteq opened',
           \A d \in Devices : Claims(d)' \subseteq Claims(d)
    PROVE  ClaimsKept'
BY DEF ClaimsKept

\* A claim is passed on, and all others are kept or given up.
LEMMA ClaimPassed ==
    ASSUME Astray = {}, ClaimsKept, UNCHANGED <<starts, mainPc, opened>>,
           NEW e \in Devices, NEW x \in Claims(e), NEW y,
           Claims(e)' \subseteq (Claims(e) \ {x}) \cup {y},
           \A d \in Devices : d # e => Claims(d)' \subseteq Claims(d)
    PROVE  ClaimsKept'
<1>1. starts' # 0
  BY DEF ClaimsKept
<1>2. ASSUME starts' = 1 /\ mainPc' \in {"accept", "join"}, NEW d \in Devices
      PROVE  /\ Claims(d)' # {} => d \in opened'
             /\ \A a, b \in Claims(d)' : a = b
  <2>1. /\ Claims(d) # {} => d \in opened
        /\ \A a, b \in Claims(d) : a = b
    BY <1>2 DEF ClaimsKept
  <2>2. CASE d # e
    BY <2>1, <2>2
  <2>3. CASE d = e
    BY <2>1, <2>3
  <2> QED BY <2>2, <2>3
<1> QED BY <1>1, <1>2 DEF ClaimsKept

\* The steps of the clients neither grant a device nor forget a call to close
\* one: only executing the call does.
LEMMA GrantedBefore ==
    ASSUME Astray = {}, IInv, OrderInv, NEW c \in Clients, ClientStep(c),
           NEW x \in Clients, NEW d \in Devices, Granted(x, d)'
    PROVE  Granted(x, d) /\ cur'[x] = cur[x] /\ pc'[x] \in {"len", "body"}
<1> USE DEF IInv, TypeOK, ClientTypeOK
<1>1. answer' = answer
  BY DEF ClientStep, serverVars
<1>2. [status |-> "STATUS_NOERROR", dev |-> d] \in Reply
  BY DEF Reply, Status
<1>3. [OrderlyNext]_vars
  BY DEF OrderlyNext
<1>4. pc'[x] \in {"len", "body"} /\ cur'[x] \in Calls
      /\ answer'[cur'[x]] = [status |-> "STATUS_NOERROR", dev |-> d]
      /\ req'[cur'[x]].kind = "OPEN"
  <2>1. CallsInProgress'
    BY <1>3, CallsInProgressStep
  <2> QED BY <2>1 DEF Granted, CallsInProgress, Busy
<1>5. pc[x] \in {"len", "body"} /\ cur'[x] = cur[x] => Granted(x, d)
  <2>1. pc[x] \in {"len", "body"} => req[cur[x]] # NoRequest
    BY DEF CallsInProgress, Busy
  <2> QED BY <1>1, <1>3, <1>4, <2>1, RequestsStay DEF Granted
<1>6. CASE MakeCall(c)
  BY <1>4, <1>5, <1>6, MakeCallEffect
<1>7. CASE AdvanceCall(c) \/ Crash(c) \/ Restart(c)
  <2>1. CASE x # c
    BY <1>4, <1>5, <1>7, <2>1, SocketEffect
  <2>2. CASE x = c
    <3>1. pc[c] \in {"send", "more", "len", "body"} /\ cur'[c] = cur[c]
      <4>1. CASE ConnectToServer(c) \/ SendData(c) \/ SendDataFails(c) \/ GetReplyLen(c)
                 \/ Restart(c)
        BY <1>4, <2>2, <4>1 DEF ConnectToServer, SendData, SendDataFails, GetReplyLen, Restart
      <4>2. ConnectFails(c) \/ GetReplyLenFails(c) \/ CloseDisconnects(c) \/ ReplyArrives(c)
              \/ (\E r \in Reply : GetReplyBodyFails(c, r))
            => pc'[c] \in {"idle", "bye"}
        BY DEF ConnectFails, GetReplyLenFails, CloseDisconnects, ReplyArrives, GetReplyBody, Replied,
               GetReplyBodyFails, Return
      <4>3. SigPipe(c) \/ Crash(c) => pc'[c] \in {"idle", "killed"}
        BY DEF SigPipe, Crash, Exit
      <4> QED BY <1>4, <1>7, <2>2, <4>1, <4>2, <4>3 DEF AdvanceCall
    <3>2. answer[cur[c]] \in Reply
      BY <1>1, <1>2, <1>4, <2>2, <3>1
    <3>3. pc[c] \notin {"send", "more"}
      BY <1>4, <2>2, <3>1, <3>2 DEF OrderInv, Ordered, Answered
    <3> QED BY <1>4, <1>5, <2>2, <3>1, <3>3
  <2> QED BY <2>1, <2>2
<1> QED BY <1>6, <1>7 DEF ClientStep

\* An application comes to hold a device by reading the reply that grants it.
LEMMA HeldEffect ==
    ASSUME ~ReplySplit, Astray = {}, IInv,
           NEW c \in Clients, AdvanceCall(c) \/ Crash(c) \/ Restart(c)
    PROVE  \/ \A b \in Clients : held'[b] \subseteq held[b]
           \/ \E d \in Devices : /\ Granted(c, d) /\ pc'[c] = "idle"
                                 /\ held' = [held EXCEPT ![c] = @ \cup {d}]
<1> USE DEF IInv, TypeOK, ClientTypeOK
<1>1. CASE ConnectToServer(c) \/ SendData(c) \/ SendDataFails(c) \/ GetReplyLen(c) \/ Restart(c)
  BY <1>1 DEF ConnectToServer, SendData, SendDataFails, GetReplyLen, Restart
<1>2. CASE ConnectFails(c) \/ GetReplyLenFails(c) \/ CloseDisconnects(c)
  BY <1>2 DEF ConnectFails, GetReplyLenFails, CloseDisconnects, Return
<1>3. CASE \E r \in Reply : GetReplyBodyFails(c, r)
  BY <1>3 DEF GetReplyBodyFails
<1>4. CASE ReplyArrives(c)
  <2> DEFINE r == answer[cur[c]]
  <2>1. GetReplyBody(c, r) /\ r \in Reply /\ r.dev \in Devices \cup {NoDev}
    BY <1>4, ArrivingOwn DEF Reply, ReplyArrives
  <2>2. CASE UNCHANGED held
    BY <2>2
  <2>3. CASE ~UNCHANGED held
    <3>1. /\ Return(c, r.status, r.dev) /\ pc[c] = "body"
          /\ r.status = "STATUS_NOERROR" /\ r.dev # NoDev
          /\ req[cur[c]].kind = "OPEN"
      BY <2>1, <2>3 DEF GetReplyBody, Replied, Return
    <3>2. answer[cur[c]] = [status |-> "STATUS_NOERROR", dev |-> r.dev]
      BY <2>1, <3>1 DEF Reply
    <3> QED BY <2>1, <3>1, <3>2 DEF Return, Granted
  <2> QED BY <2>2, <2>3
<1>5. CASE SigPipe(c) \/ Crash(c)
  BY <1>5 DEF SigPipe, Crash, Exit
<1> QED BY <1>1, <1>2, <1>3, <1>4, <1>5 DEF AdvanceCall

\* What the clients do passes claims on: a call to close a device takes the
\* place of its holder, and the holder that of the one it was granted to.
LEMMA ClaimsClient ==
    ASSUME ~ReplySplit, Astray = {}, IInv, OrderInv, ClaimsKept,
           NEW c \in Clients, ClientStep(c)
    PROVE  ClaimsKept'
<1> USE DEF IInv, TypeOK, ClientTypeOK
<1>1. UNCHANGED <<starts, mainPc, opened, executed>> /\ Done' = Done
  BY DEF ClientStep, serverVars, Done
<1>2. ASSUME NEW d \in Devices, \A b \in Clients : d \in held'[b] => d \in held[b],
             \A i \in Calls : Closing(i, d)' => Closing(i, d)
      PROVE  Claims(d)' \subseteq Claims(d)
  BY <1>2, GrantedBefore, ClaimsShrink
<1>3. CASE MakeCall(c)
  <2>1. PICK i \in Calls :
           \/ PassThruOpen(c, i) \/ PassThruReset(c, i) \/ PassThruPlain(c, i)
           \/ PassThruStreamed(c, i) \/ AllocFails(c, i)
           \/ \E e \in Devices : PassThruClose(c, i, e)
    BY <1>3 DEF MakeCall
  <2>2. ASSUME NEW e \in Devices, PassThruClose(c, i, e)
        PROVE  ClaimsKept'
    <3>1. /\ e \in held[c] /\ held' = [held EXCEPT ![c] = @ \ {e}]
          /\ req' = [req EXCEPT ![i] = [client |-> c, kind |-> "CLOSE", dev |-> e]]
      BY <2>2 DEF PassThruClose, Issue
    <3>2. \A j \in Calls, d \in Devices : Closing(j, d)' => Closing(j, d) \/ (j = i /\ d = e)
      BY <1>1, <3>1 DEF Closing
    <3>3. <<"held", c>> \in Claims(e)
      BY <3>1 DEF Claims
    <3>4. ASSUME NEW d \in Devices, d # e
          PROVE  Claims(d)' \subseteq Claims(d)
      BY <1>2, <3>1, <3>2, <3>4
    <3>5. ASSUME NEW a \in Claims(e)'
          PROVE  a \in Claims(e) \ {<<"held", c>>} \/ a = <<"closing", i>>
      <4>1. CASE \E b \in Clients : a = <<"held", b>> /\ e \in held'[b]
        BY <3>1, <4>1 DEF Claims
      <4>2. CASE \E b \in Clients : a = <<"granted", b>> /\ Granted(b, e)'
        BY <4>2, GrantedBefore DEF Claims
      <4>3. CASE \E j \in Calls : a = <<"closing", j>> /\ Closing(j, e)'
        BY <3>2, <4>3 DEF Claims
      <4> QED BY <4>1, <4>2, <4>3 DEF Claims
    <3> QED BY <1>1, <3>3, <3>4, <3>5, ClaimPassed
  <2>3. CASE ~\E e \in Devices : PassThruClose(c, i, e)
    <3>1. /\ held' = held
          /\ \E r \in Request : r.kind # "CLOSE" /\ req' = [req EXCEPT ![i] = r]
      <4>1. \A kind \in Kinds :
               [client |-> c, kind |-> kind, dev |-> NoDev] \in Request
        BY DEF Request
      <4> QED BY <2>1, <2>3, <4>1 DEF PassThruOpen, PassThruReset, PassThruPlain,
                 PassThruStreamed, AllocFails, Issue, Kinds
    <3>2. \A j \in Calls, d \in Devices : Closing(j, d)' => Closing(j, d)
      BY <1>1, <3>1 DEF Closing
    <3>3. \A d \in Devices : Claims(d)' \subseteq Claims(d)
      BY <1>2, <3>1, <3>2
    <3> QED BY <1>1, <3>3, ClaimsSame
  <2> QED BY <2>1, <2>2, <2>3
<1>4. CASE AdvanceCall(c) \/ Crash(c) \/ Restart(c)
  <2>1. \A j \in Calls, d \in Devices : Closing(j, d)' => Closing(j, d)
    BY <1>1, <1>4, CallEffect DEF Closing
  <2>2. CASE \A b \in Clients : held'[b] \subseteq held[b]
    <3>1. \A d \in Devices : Claims(d)' \subseteq Claims(d)
      BY <1>2, <2>1, <2>2
    <3> QED BY <1>1, <3>1, ClaimsSame
  <2>3. ASSUME NEW e \in Devices, Granted(c, e), pc'[c] = "idle",
               held' = [held EXCEPT ![c] = @ \cup {e}]
        PROVE  ClaimsKept'
    <3>1. <<"granted", c>> \in Claims(e)
      BY <2>3 DEF Claims
    <3>2. ASSUME NEW d \in Devices, d # e
          PROVE  Claims(d)' \subseteq Claims(d)
      BY <1>2, <2>1, <2>3, <3>2
    <3>3. ASSUME NEW a \in Claims(e)'
          PROVE  a \in Claims(e) \ {<<"granted", c>>} \/ a = <<"held", c>>
      <4>1. CASE \E b \in Clients : a = <<"held", b>> /\ e \in held'[b]
        BY <2>3, <4>1 DEF Claims
      <4>2. CASE \E b \in Clients : a = <<"granted", b>> /\ Granted(b, e)'
        BY <2>3, <4>2, GrantedBefore DEF Claims, Granted
      <4>3. CASE \E j \in Calls : a = <<"closing", j>> /\ Closing(j, e)'
        BY <2>1, <4>3 DEF Claims
      <4> QED BY <4>1, <4>2, <4>3 DEF Claims
    <3> QED BY <1>1, <3>1, <3>2, <3>3, ClaimPassed
  <2> QED BY <1>4, <2>2, <2>3, HeldEffect
<1> QED BY <1>3, <1>4 DEF ClientStep

\* A device that the library opens had no claim laid to it; one that it closes
\* had that of the call to close it, and has none any more.
LEMMA ClaimsExecute ==
    ASSUME Astray = {}, IInv, OrderInv, ClaimsKept,
           NEW k \in Conns, HandlerStep(k), ProcessCommand(k)
    PROVE  ClaimsKept'
<1> USE DEF IInv, TypeOK, ClientTypeOK, ServerTypeOK
<1> DEFINE i == hcall[k]
<1>1. /\ i \in Calls /\ i \in Pending(k) /\ req[i] \in Request
      /\ UNCHANGED clientVars /\ UNCHANGED mainVars /\ Done' = Done \cup {i}
  BY ExecuteEffect DEF OrderInv
<1>2. PICK a \in Answers(req[i]) :
         answer' = [answer EXCEPT ![i] = a[1]] /\ opened' = a[2] /\ a[1] \in Reply
  BY ExecuteEffect DEF OrderInv
<1>3. i \notin Done /\ req[i] # NoRequest
  <2>1. ~(i < i)
    BY <1>1, TcpAssumption DEF Calls
  <2> QED BY <1>1, <2>1, PendingMade DEF OrderInv, Ordered
<1>4. \A c \in Clients : pc[c] \in {"len", "body"} => cur[c] \in Calls /\ req[cur[c]].client = c
  BY DEF CallsInProgress, Busy
<1>5. \A d \in Devices : \A c \in Clients :
         Granted(c, d)' => Granted(c, d) \/ (cur[c] = i /\ a[1] = [status |-> "STATUS_NOERROR", dev |-> d]
                                             /\ req[i].kind = "OPEN" /\ c = req[i].client)
  BY <1>1, <1>2, <1>4 DEF Granted, clientVars
<1>6. /\ \A d \in Devices : \A j \in Calls : Closing(j, d)' => Closing(j, d) /\ j # i
      /\ held' = held
  BY <1>1 DEF Closing, clientVars
<1>7. ASSUME NEW d \in Devices, a[1] # [status |-> "STATUS_NOERROR", dev |-> d]
      PROVE  Claims(d)' \subseteq Claims(d)
  BY <1>5, <1>6, <1>7, ClaimsShrink
<1>8. NoDev \notin Devices
  BY ClientAssumption
<1>9. CASE opened' = opened /\ \A d \in Devices : a[1] # [status |-> "STATUS_NOERROR", dev |-> d]
  BY <1>1, <1>7, <1>9, ClaimsSame DEF mainVars
<1>10. ASSUME NEW e \in Devices \ opened, req[i].kind = "OPEN",
              a = <<[status |-> "STATUS_NOERROR", dev |-> e], opened \cup {e}>>
       PROVE  ClaimsKept'
  <2>1. starts' = starts /\ mainPc' = mainPc /\ starts # 0
    BY <1>1 DEF mainVars, ClaimsKept
  <2>2. ASSUME starts = 1 /\ mainPc \in {"accept", "join"}, NEW d \in Devices
        PROVE  /\ Claims(d)' # {} => d \in opened'
               /\ \A x, y \in Claims(d)' : x = y
    <3>1. CASE d # e
      <4>1. Claims(d)' \subseteq Claims(d)
        BY <1>7, <1>10, <3>1
      <4> QED BY <1>2, <1>10, <2>2, <4>1 DEF ClaimsKept
    <3>2. CASE d = e
      <4>1. Claims(e) = {}
        BY <2>2 DEF ClaimsKept
      <4>2. \A x \in Claims(e)' : x = <<"granted", req[i].client>>
        <5>1. /\ \A c \in Clients : e \in held[c] => <<"held", c>> \in Claims(e)
              /\ \A c \in Clients : Granted(c, e) => <<"granted", c>> \in Claims(e)
              /\ \A j \in Calls : Closing(j, e) => <<"closing", j>> \in Claims(e)
          BY DEF Claims
        <5>2. /\ \A c \in Clients : e \notin held'[c]
              /\ \A c \in Clients : Granted(c, e)' => c = req[i].client
              /\ \A j \in Calls : ~Closing(j, e)'
          BY <1>5, <1>6, <4>1, <5>1
        <5> QED BY <5>2 DEF Claims
      <4> QED BY <1>2, <1>10, <3>2, <4>2
    <3> QED BY <3>1, <3>2
  <2> QED BY <2>1, <2>2 DEF ClaimsKept
<1>11. ASSUME NEW e \in Devices, req[i].kind = "CLOSE", req[i].dev = e,
              a = <<[status |-> "STATUS_NOERROR", dev |-> NoDev], opened \ {e}>>
       PROVE  ClaimsKept'
  <2>1. starts' = starts /\ mainPc' = mainPc /\ starts # 0
    BY <1>1 DEF mainVars, ClaimsKept
  <2>2. \A d \in Devices : Claims(d)' \subseteq Claims(d)
    BY <1>7, <1>8, <1>11
  <2>3. <<"closing", i>> \in Claims(e) /\ <<"closing", i>> \notin Claims(e)'
    BY <1>1, <1>3, <1>6, <1>11 DEF Claims, Closing
  <2>4. ASSUME starts = 1 /\ mainPc \in {"accept", "join"}, NEW d \in Devices
        PROVE  /\ Claims(d)' # {} => d \in opened'
               /\ \A x, y \in Claims(d)' : x = y
    <3>1. /\ Claims(d) # {} => d \in opened
          /\ \A x, y \in Claims(d) : x = y
      BY <2>4 DEF ClaimsKept
    <3>2. d = e => Claims(d)' = {}
      BY <2>2, <2>3, <3>1
    <3> QED BY <1>2, <1>11, <2>2, <3>1, <3>2
  <2> QED BY <2>1, <2>4 DEF ClaimsKept
<1> QED
  <2>1. req[i].kind \in Kinds
    BY <1>1 DEF Request
  <2>2. CASE req[i].kind = "OPEN"
    BY <1>2, <1>9, <1>10, <2>2 DEF Answers
  <2>3. CASE req[i].kind = "CLOSE"
    BY <1>2, <1>8, <1>9, <1>11, <2>3 DEF Answers
  <2>4. CASE req[i].kind \notin {"OPEN", "CLOSE"}
    BY <1>2, <1>8, <1>9, <2>4 DEF Answers
  <2> QED BY <2>2, <2>3, <2>4

LEMMA ClaimsStep ==
    ASSUME ~ReplySplit, Astray = {}, IInv, OrderInv, ClaimsKept, [OrderlyNext]_vars
    PROVE  ClaimsKept'
<1> USE DEF IInv, TypeOK, ServerTypeOK
<1>1. ASSUME NEW k \in Conns, HandlerStep(k), ProcessCommand(k)
      PROVE  ClaimsKept'
  BY <1>1, ClaimsExecute
<1>2. ASSUME NEW c \in Clients, ClientStep(c)
      PROVE  ClaimsKept'
  BY <1>2, ClaimsClient
<1>3. CASE UNCHANGED clientVars /\ UNCHANGED <<executed, answer>>
  <2>1. \A d \in Devices : Claims(d)' = Claims(d)
    BY <1>3 DEF Claims, Granted, Closing, Done, clientVars
  <2>2. CASE UNCHANGED <<starts, mainPc, opened>>
    BY <2>1, <2>2, ClaimsSame
  <2>3. CASE MainStep
    <3>1. CASE Accept \/ HandlerEnded
      BY <2>1, <3>1, ClaimsSame DEF Accept, HandlerEnded, libVars
    <3>2. CASE StopListening
      BY <2>1, <3>2, ClaimsSame DEF StopListening
    <3>3. CASE StartServer
      <4>1. starts' = starts + 1 /\ starts # 0 /\ starts \in Nat
        BY <3>3 DEF StartServer, ClaimsKept
      <4> QED BY <4>1 DEF ClaimsKept
    <3> QED BY <2>3, <3>1, <3>2, <3>3 DEF MainStep
  <2>4. ASSUME NEW k \in Conns, ServerSigPipe(k)
        PROVE  ClaimsKept'
    BY <2>1, <2>4, ClaimsSame DEF ServerSigPipe
  <2>5. ASSUME NEW k \in Conns, HandlerStep(k), ~ProcessCommand(k), ~ServerSigPipe(k)
        PROVE  UNCHANGED <<starts, mainPc, opened>>
    BY <2>5 DEF HandlerStep, Receiving, Serving, RecvLen, RecvBody, RecvEnds,
       RecvTimesOut, ProcessCommandNull, SendReply, SendReplyPart,
       SendReplyFails, Disconnect, libVars, mainVars
  <2>6. NetworkStep \/ UNCHANGED vars => UNCHANGED <<starts, mainPc, opened>>
    BY DEF NetworkStep, vars, serverVars
  <2> QED BY <1>1, <1>2, <2>2, <2>3, <2>4, <2>5, <2>6 DEF OrderlyNext
<1> QED BY <1>1, <1>2, <1>3, ExecutedStep
        DEF OrderlyNext, MainStep, HandlerStep, NetworkStep, vars, clientVars

\* The server that runs has been started.
LEMMA StartedStep ==
    ASSUME IInv, starts # 0, [Next]_vars
    PROVE  starts' # 0
<1>1. starts \in Nat
  BY DEF IInv, TypeOK, ServerTypeOK
<1>2. ASSUME NEW c \in Clients, ClientStep(c) \/ ClientAstray(c) PROVE starts' = starts
  BY <1>2 DEF ClientStep, ClientAstray, serverVars
<1>3. CASE MainStep
  <2>1. starts' = starts \/ starts' = starts + 1
    BY <1>3 DEF MainStep, Accept, HandlerEnded, StopListening, StartServer
  <2> QED BY <1>1, <2>1
<1>4. ASSUME NEW k \in Conns, HandlerStep(k) PROVE starts' = starts
  BY <1>4 DEF HandlerStep, Receiving, Serving, RecvLen, RecvBody, RecvEnds,
     RecvTimesOut, ProcessCommand, ProcessCommandNull, SendReply, SendReplyPart,
     SendReplyFails, ServerSigPipe, Disconnect, mainVars
<1>5. ASSUME NEW k \in Conns, HandlerAstray(k) PROVE starts' = starts
  BY <1>5 DEF HandlerAstray, RecvBodyAllocFails, RecvAstray, ProcessNoise, mainVars
<1>6. NetworkStep \/ UNCHANGED vars => starts' = starts
  BY DEF NetworkStep, vars, serverVars
<1> QED BY <1>2, <1>3, <1>4, <1>5, <1>6 DEF Next, OrderlyNext

\* A device is claimed once, and open, from the reply that grants it to the
\* execution of the call that closes it, as long as every packet could be
\* received.
THEOREM ClaimsAreKept == ASSUME ~ReplySplit PROVE Safety => []ClaimsKept
<1>1. Init => ClaimsKept
  <2> SUFFICES ASSUME Init PROVE ClaimsKept
    OBVIOUS
  <2>1. \A d \in Devices : Claims(d) = {}
    BY DEF Init, ClientInit, Claims, Granted, Closing
  <2> QED BY <2>1 DEF Init, ServerInit, ClaimsKept
<1>2. IInv /\ OrderInv /\ ClaimsKept /\ [Next]_vars => ClaimsKept'
  <2> SUFFICES ASSUME IInv, OrderInv, ClaimsKept, [Next]_vars PROVE ClaimsKept'
    OBVIOUS
  <2>1. CASE Astray' = {}
    BY <2>1, OrderlyUntil, ClaimsStep
  <2>2. CASE Astray' # {}
    BY <2>2, StartedStep DEF ClaimsKept
  <2> QED BY <2>1, <2>2
<1> QED BY <1>1, <1>2, Invariance, OrderKept, PTL DEF Safety

\* What an application has opened and not tried to close stays open in the
\* library, and nobody else's, as long as the first server runs and every
\* packet could be received.
THEOREM DevicesAreHeld == ASSUME ~ReplySplit PROVE Safety => []HeldIsOpen
<1>1. IInv /\ ClaimsKept => HeldIsOpen
  <2> SUFFICES ASSUME IInv, ClaimsKept, Astray = {},
                      starts = 1 /\ mainPc \in {"accept", "join"}
               PROVE  /\ \A c \in Clients : held[c] \subseteq opened
                      /\ \A b, c \in Clients : b # c => held[b] \cap held[c] = {}
    BY DEF HeldIsOpen
  <2>1. ASSUME NEW c \in Clients, NEW d \in held[c]
        PROVE  /\ d \in Devices /\ d \in opened
               /\ \A b \in Clients : d \in held[b] => b = c
    <3>1. d \in Devices
      BY DEF IInv, TypeOK, ClientTypeOK
    <3>2. \A b \in Clients : d \in held[b] => <<"held", b>> \in Claims(d)
      BY DEF Claims
    <3>3. Claims(d) # {} => d \in opened
      BY <3>1 DEF ClaimsKept
    <3>4. \A b \in Clients : d \in held[b] => <<"held", b>> = <<"held", c>>
      BY <3>1, <3>2 DEF ClaimsKept
    <3> QED BY <3>1, <3>2, <3>3, <3>4
  <2> QED BY <2>1
<1> QED BY <1>1, Invariance, ClaimsAreKept, PTL

-----------------------------------------------------------------------------
(* Each step of the proxy is one of Rpc, or none. *)

RpcCaller == [i \in Calls |-> IF req[i] = NoRequest THEN NoCall ELSE req[i].client]

\* Who made a call, before and after a step.
LEMMA CallerOf ==
    ASSUME TypeOK, NEW i \in Calls
    PROVE  /\ RpcCaller[i] = NoCall <=> req[i] = NoRequest
           /\ req[i] # NoRequest => RpcCaller[i] = req[i].client /\ RpcCaller[i] \in Clients
BY ProxyAssumption DEF RpcCaller, TypeOK, ClientTypeOK, Request

\* A step at the client that changes neither the calls nor what was executed.
LEMMA RpcStutters ==
    ASSUME UNCHANGED <<req, executed, answer, outcome>>
    PROVE  UNCHANGED RPC!vars
BY DEF RPC!vars

LEMMA MakeCallIsCall ==
    ASSUME Astray = {}, IInv, OrderInv,
           NEW c \in Clients, MakeCall(c), UNCHANGED serverVars
    PROVE  \E i \in Calls, s \in {"none", "ERR_FAILED"} : RPC!Call(c, i, s)
<1> USE DEF IInv, TypeOK, ClientTypeOK
<1>1. PICK i \in Calls :
         /\ req[i] = NoRequest /\ req'[i] \in Request /\ req'[i].client = c
         /\ \A j \in Calls : j # i => req'[j] = req[j]
         /\ UNCHANGED outcome \/ outcome' = [outcome EXCEPT ![i] = "ERR_FAILED"]
  BY MakeCallEffect
<1>2. RpcCaller[i] = NoCall /\ RpcCaller' = [RpcCaller EXCEPT ![i] = c]
  BY <1>1, RequestAssumption DEF RpcCaller
<1>3. UNCHANGED <<executed, answer>>
  BY DEF serverVars
<1>4. UNCHANGED outcome => outcome' = [outcome EXCEPT ![i] = "none"]
  BY <1>1 DEF OrderInv, Answered
<1>5. ASSUME NEW s, outcome' = [outcome EXCEPT ![i] = s]
      PROVE  RPC!Call(c, i, s)
  BY <1>2, <1>3, <1>5 DEF RPC!Call, RpcCaller
<1> QED BY <1>1, <1>4, <1>5

LEMMA ProcessCommandIsExecute ==
    ASSUME Astray = {}, IInv, OrderInv,
           NEW k \in Conns, HandlerStep(k), ProcessCommand(k)
    PROVE  \E i \in Calls, a \in Reply : RPC!Execute(i, a)
<1> USE DEF IInv, TypeOK, ServerTypeOK
<1> DEFINE i == hcall[k]
<1>1. /\ i \in Calls /\ i \in Pending(k) /\ UNCHANGED clientVars
      /\ executed' = Append(executed, i)
      /\ \E a \in Reply : answer' = [answer EXCEPT ![i] = a]
  BY ExecuteEffect DEF OrderInv
<1>2. RpcCaller' = RpcCaller /\ outcome' = outcome
  BY <1>1 DEF RpcCaller, clientVars
<1>3. req[i] # NoRequest
  BY <1>1, PendingMade
<1>4. RPC!Done = Done /\ Done \subseteq Calls
  BY DEF RPC!Done, Done, Items
<1>5. ASSUME NEW j \in Done, RpcCaller[j] = RpcCaller[i]
      PROVE  j < i
  <2>1. j \in Calls /\ req[j] # NoRequest
    BY <1>4 DEF OrderInv, Answered
  <2>2. req[j].client = req[i].client
    BY <1>1, <1>3, <1>5, <2>1, CallerOf
  <2> QED BY <1>1, <2>2 DEF OrderInv, Ordered
<1>6. RpcCaller[i] # NoCall
  BY <1>1, <1>3, CallerOf
<1>7. PICK a \in Reply : answer' = [answer EXCEPT ![i] = a]
  BY <1>1
<1>8. RPC!Execute(i, a)
  BY <1>1, <1>2, <1>4, <1>5, <1>6, <1>7 DEF RPC!Execute, RpcCaller
<1> QED BY <1>1, <1>8

LEMMA AdvanceIsTell ==
    ASSUME ~ReplySplit, Astray = {}, IInv, OrderInv,
           NEW c \in Clients, UNCHANGED serverVars,
           AdvanceCall(c) \/ Crash(c) \/ Restart(c), ~UNCHANGED outcome
    PROVE  \E i \in Calls, s \in {"STATUS_NOERROR", "ERR_FAILED", "lost"} : RPC!Tell(i, s)
<1> USE DEF IInv, TypeOK, ClientTypeOK
<1>1. PICK s \in {"STATUS_NOERROR", "ERR_FAILED", "lost"} :
         /\ outcome' = [outcome EXCEPT ![cur[c]] = s]
         /\ s = "STATUS_NOERROR" =>
              \/ ReplySplit
              \/ answer[cur[c]] \in Reply /\ answer[cur[c]].status = "STATUS_NOERROR"
  BY OutcomeEffect DEF OrderInv
<1>2. pc[c] \in Busy
  BY OutcomeEffect DEF OrderInv
<1>3. /\ cur[c] \in Calls /\ req[cur[c]] # NoRequest /\ outcome[cur[c]] = "none"
      /\ answer[cur[c]] \in Reply => cur[c] \in Done
  BY <1>2 DEF CallsInProgress, OrderInv, Answered
<1>4. RpcCaller[cur[c]] # NoCall
  BY <1>3, CallerOf
<1>5. UNCHANGED <<executed, answer>> /\ RpcCaller' = RpcCaller
  BY CallEffect DEF serverVars, RpcCaller
<1>6. RPC!Done = Done
  BY DEF RPC!Done, Done, Items
<1>7. RPC!Tell(cur[c], s)
  BY <1>1, <1>3, <1>4, <1>5, <1>6 DEF RPC!Tell, RpcCaller
<1> QED BY <1>3, <1>7

\* Executing a command is Execute, the return of a call, or the end of the
\* application in it, Tell, making a call Call; the rest Rpc does not see.
LEMMA RpcStep ==
    ASSUME ~ReplySplit, Astray = {}, IInv, OrderInv, [OrderlyNext]_vars
    PROVE  RPC!Next \/ UNCHANGED RPC!vars
<1> USE DEF IInv
<1>1. ASSUME NEW k \in Conns, HandlerStep(k), ProcessCommand(k)
      PROVE  RPC!Next
  BY <1>1, ProcessCommandIsExecute DEF RPC!Next, RPC!Calls, Calls
<1>2. ASSUME NEW c \in Clients, ClientStep(c)
      PROVE  RPC!Next \/ UNCHANGED RPC!vars
  <2>1. CASE MakeCall(c)
    BY <1>2, <2>1, MakeCallIsCall DEF RPC!Next, RPC!Calls, Calls, ClientStep
  <2>2. CASE (AdvanceCall(c) \/ Crash(c) \/ Restart(c)) /\ ~UNCHANGED outcome
    BY <1>2, <2>2, AdvanceIsTell DEF RPC!Next, RPC!Calls, Calls, ClientStep
  <2>3. CASE (AdvanceCall(c) \/ Crash(c) \/ Restart(c)) /\ UNCHANGED outcome
    BY <1>2, <2>3, CallEffect, RpcStutters DEF ClientStep, serverVars
  <2> QED BY <1>2, <2>1, <2>2, <2>3 DEF ClientStep
<1>3. CASE UNCHANGED clientVars /\ UNCHANGED <<executed, answer>>
  BY <1>3, RpcStutters DEF clientVars
<1> QED BY <1>1, <1>2, <1>3, ExecutedStep
        DEF OrderlyNext, MainStep, HandlerStep, NetworkStep, vars, clientVars

\* The proxy implements Rpc: every behaviour of it, with the sockets taken
\* away, is one of a remote procedure call that is executed at most once, in
\* the order of the calls, and whose success is the answer of the library.
THEOREM RpcImplemented ==
    ASSUME ~ReplySplit, ~RecvAllocMayFail
    PROVE  Safety => ImplementsRpc
<1>1. Init => RPC!Init
  <2> SUFFICES ASSUME Init PROVE RPC!Init
    OBVIOUS
  <2>1. [i \in Calls |-> IF req[i] = NoRequest THEN NoCall ELSE req[i].client]
        = [i \in Calls |-> NoCall]
    BY DEF Init, ClientInit
  <2> QED BY <2>1 DEF Init, ClientInit, ServerInit, RPC!Init, RPC!Calls, Calls
<1>2. IInv /\ IInv' /\ OrderInv /\ [Next]_vars => [RPC!Next]_(RPC!vars)
  <2>1. IInv' => Astray' = {}
    BY DEF IInv, Remembers
  <2> QED BY <2>1, OrderlyUntil, RpcStep
<1> QED BY <1>1, <1>2, Invariance, OrderKept, PTL DEF Safety, ImplementsRpc, RPC!Spec

=============================================================================
