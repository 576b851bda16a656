----------------------- MODULE RpcServerSession_proofs -----------------------
(***************************************************************************)
(* Proofs about RpcServerSession, for every set of requests: the types,    *)
(* the wake-up of the send coroutine, and that no reply is written twice.  *)
(***************************************************************************)
EXTENDS RpcServerSession, SequenceLemmas, TLAPS

SockH == [h : {"send", "recv", "stop"}] \cup [h : {"reply"}, req : Req]
MgrH == [h : {"timer", "stop"}]
SndT == [at : {"start", "write", "wait", "end"}, op : Op]
RcvT == [at : {"start", "read", "end"}, op : Op]
TmrT == [at : {"start", "wait", "end"}, op : Op]

(***************************************************************************)
(* TypeOK, with names for the sets of what a strand holds and of how a     *)
(* coroutine can be suspended, which the proofs leave unexpanded.          *)
(***************************************************************************)
Types ==
  /\ run \in BOOLEAN /\ sock \in BOOLEAN /\ peer \in BOOLEAN /\ hasData \in BOOLEAN
  /\ sockQ \in Seq(SockH) /\ mgrQ \in Seq(MgrH)
  /\ toStop \subseteq {"sock", "mgr"}
  /\ snd \in SndT /\ rcv \in RcvT /\ tmr \in TmrT
  /\ buf \in Seq(Req) /\ writing \in Seq(Req) /\ out \in Seq(Req)
  /\ batch \in Seq(Msg) /\ wire \in Seq(Msg)
  /\ hnd \in [Req -> {"none", "posted", "running", "done"}]

LEMMA TypeOKIsTypes == TypeOK <=> Types
BY DEF TypeOK, Types, SockH, MgrH, SndT, RcvT, TmrT

\* What Stop on the socket strand does to the types of what it touches.
LEMMA StopTypes ==
  ASSUME Types, NEW s \in SndT, NEW r \in RcvT
  PROVE  /\ CloseSocket(s, r) => sock' \in BOOLEAN /\ snd' \in SndT /\ rcv' \in RcvT
         /\ StopOnSockStrand(s, r) => /\ run' \in BOOLEAN /\ sock' \in BOOLEAN
                                      /\ toStop' \subseteq {"sock", "mgr"}
                                      /\ snd' \in SndT /\ rcv' \in RcvT
<1>1. /\ [s EXCEPT !.op = IF s.at = "wait" THEN "cancel" ELSE "error"] \in SndT
      /\ [r EXCEPT !.op = "error"] \in RcvT
  BY DEF SndT, RcvT, Op
<1>2. CloseSocket(s, r) => sock' \in BOOLEAN /\ snd' \in SndT /\ rcv' \in RcvT
  BY <1>1 DEF CloseSocket
<1> QED BY <1>2 DEF StopOnSockStrand, Types

LEMMA CoroTypes ==
  /\ Ended \in SndT /\ Ended \in RcvT /\ Ended \in TmrT
  /\ \A a \in {"start", "write", "wait"}, o \in Op : Coro(a, o) \in SndT
  /\ \A o \in Op : Coro("read", o) \in RcvT
  /\ \A a \in {"start", "wait"}, o \in Op : Coro(a, o) \in TmrT
  /\ {"none", "ok", "data", "error", "cancel", "fired"} = Op
BY DEF Ended, Coro, SndT, RcvT, TmrT, Op

LEMMA TypesStep == Types /\ [Next]_vars => Types'
<1> SUFFICES ASSUME Types, [Next]_vars PROVE Types'
  OBVIOUS
<1> USE DEF Types, coros, env
<1>c. ASSUME NEW name, SockStep(name) PROVE sockQ' \in Seq(SockH) /\ Head(sockQ) \in SockH
  BY <1>c DEF SockStep, Runs
<1>d. /\ H("send") \in SockH /\ H("recv") \in SockH /\ H("stop") \in SockH
      /\ H("timer") \in MgrH /\ H("stop") \in MgrH
      /\ \A r \in Req : ReplyH(r) \in SockH
  BY DEF H, ReplyH, SockH, MgrH
<1>e. /\ \A x \in SockH : Append(sockQ, x) \in Seq(SockH)
      /\ \A x \in MgrH : Append(mgrQ, x) \in Seq(MgrH)
  OBVIOUS
<1>1. CASE SendWrite
  <2>1. Coro("write", "none") \in SndT
    BY CoroTypes
  <2> QED BY <1>1, <1>c, <2>1 DEF SendWrite, Swap
<1>2. CASE SendWait
  <2>1. Coro("wait", "none") \in SndT
    BY CoroTypes
  <2> QED BY <1>2, <1>c, <2>1 DEF SendWait
<1>3. CASE SendExit
  BY <1>3, <1>c, CoroTypes, StopTypes DEF SendExit
<1>4. CASE RecvData
  <2>1. Coro("read", "none") \in RcvT /\ Ended \in RcvT
    BY CoroTypes
  <2>2. /\ run' \in BOOLEAN /\ sock' \in BOOLEAN /\ toStop' \subseteq {"sock", "mgr"}
        /\ snd' \in SndT /\ rcv' \in RcvT
    BY <1>4, <2>1, StopTypes DEF RecvData
  <2>3. hnd' \in [Req -> {"none", "posted", "running", "done"}]
    BY <1>4 DEF RecvData
  <2> QED BY <1>4, <1>c, <2>2, <2>3 DEF RecvData
<1>5. CASE RecvStart
  BY <1>5, <1>c, CoroTypes DEF RecvStart
<1>6. CASE RecvExit
  BY <1>6, <1>c, CoroTypes, StopTypes DEF RecvExit
<1>7. CASE Reply
  <2>1. Head(sockQ).req \in Req
    <3>1. Head(sockQ) \in SockH /\ Head(sockQ).h = "reply"
      BY <1>7, <1>c DEF Reply, SockStep, Runs
    <3> QED BY <3>1 DEF SockH
  <2>2. Woken(snd) \in SndT
    BY CoroTypes DEF Woken
  <2> QED BY <1>7, <1>c, <2>1, <2>2 DEF Reply
<1>8. CASE SockStop
  BY <1>8, <1>c, StopTypes DEF SockStop
<1>9. CASE TimerAgain
  BY <1>9, CoroTypes DEF TimerAgain, TimerResumes, Runs
<1>10. CASE TimerExit
  <2>1. mgrQ' \in Seq(MgrH) /\ tmr' \in TmrT
    BY <1>10, CoroTypes DEF TimerExit, TimerResumes, Runs
  <2>2. toStop' \subseteq {"sock", "mgr"} /\ hasData' \in BOOLEAN
    BY <1>10 DEF TimerExit
  <2> QED BY <1>10, <2>1, <2>2 DEF TimerExit
<1>11. CASE MgrStop
  BY <1>11, CoroTypes DEF MgrStop, Runs
<1>12. ASSUME NEW r \in Req, HandlerStart(r) PROVE Types'
  BY <1>12 DEF HandlerStart
<1>13. ASSUME NEW r \in Req, HandlerFinish(r) PROVE Types'
  BY <1>13, <1>d, <1>e DEF HandlerFinish
<1>14. ASSUME NEW s \in toStop, DispatchStop(s) PROVE Types'
  <2>1. sockQ' \in Seq(SockH) /\ mgrQ' \in Seq(MgrH)
    BY <1>14, <1>d, <1>e DEF DispatchStop
  <2> QED BY <1>14, <2>1 DEF DispatchStop
<1>15. CASE DeliverSock("send", snd) \/ DeliverSock("recv", rcv)
  <2>1. sockQ' \in Seq(SockH)
    BY <1>15, <1>d, <1>e DEF DeliverSock
  <2> QED BY <1>15, <2>1 DEF DeliverSock
<1>16. CASE DeliverTimer
  BY <1>16, <1>d, <1>e DEF DeliverTimer
<1>17. CASE WriteDone
  <2>1. out \o writing \in Seq(Req)
    OBVIOUS
  <2> QED BY <1>17, <2>1, CoroTypes DEF WriteDone
<1>18. CASE ReadDone
  <2>1. \A n \in 1..Len(wire) : /\ SubSeq(wire, 1, n) \in Seq(Msg)
                                /\ SubSeq(wire, n + 1, Len(wire)) \in Seq(Msg)
    OBVIOUS
  <2> QED BY <1>18, <2>1, CoroTypes DEF ReadDone
<1>19. CASE TimerFires
  BY <1>19, CoroTypes DEF TimerFires
<1>20. CASE StopCall
  BY <1>20 DEF StopCall
<1>21. ASSUME NEW m \in Req \cup Extra, PeerSend(m) PROVE Types'
  <2>1. m \in Msg
    BY ReqAssumption DEF Msg
  <2> QED BY <1>21, <2>1 DEF PeerSend
<1>22. CASE PeerClose
  BY <1>22 DEF PeerClose
<1>23. CASE UNCHANGED vars
  BY <1>23 DEF vars, coros, env
<1> QED
  BY <1>1, <1>2, <1>3, <1>4, <1>5, <1>6, <1>7, <1>8, <1>9, <1>10, <1>11, <1>12, <1>13, <1>14,
     <1>15, <1>16, <1>17, <1>18, <1>19, <1>20, <1>21, <1>22, <1>23
  DEF Next, SockStrand, MgrStrand, Handler

LEMMA TypesInit == Init => Types
<1> SUFFICES ASSUME Init PROVE Types
  OBVIOUS
<1>1. H("send") \in SockH /\ H("recv") \in SockH /\ H("timer") \in MgrH
  BY DEF H, SockH, MgrH
<1>2. sockQ \in Seq(SockH) /\ mgrQ \in Seq(MgrH)
  BY <1>1 DEF Init
<1>3. snd \in SndT /\ rcv \in RcvT /\ tmr \in TmrT
  BY DEF Init, Coro, SndT, RcvT, TmrT, Op
<1>4. <<>> \in Seq(Req) /\ <<>> \in Seq(Msg)
  OBVIOUS
<1>5. /\ buf \in Seq(Req) /\ writing \in Seq(Req) /\ out \in Seq(Req)
      /\ batch \in Seq(Msg) /\ wire \in Seq(Msg)
  BY <1>4 DEF Init
<1>6. /\ run \in BOOLEAN /\ sock \in BOOLEAN /\ peer \in BOOLEAN /\ hasData \in BOOLEAN
      /\ toStop \subseteq {"sock", "mgr"} /\ hnd \in [Req -> {"none", "posted", "running", "done"}]
  BY DEF Init
<1> QED BY <1>2, <1>3, <1>5, <1>6 DEF Types

(***************************************************************************)
(* Type correctness: among others, an operation completes in no other way  *)
(* than its coroutine expects and only replies are buffered and written.   *)
(***************************************************************************)
THEOREM TypeCorrect == Spec => []TypeOK
<1> QED BY TypesInit, TypesStep, TypeOKIsTypes, PTL DEF Spec

LEMMA AlwaysTypes == Spec => []Types
<1> QED BY TypesInit, TypesStep, PTL DEF Spec

-----------------------------------------------------------------------------
(***************************************************************************)
(* The wake-up of the send coroutine.  It falls asleep in the handler of   *)
(* its strand that finds the buffer empty, and the handlers that fill the  *)
(* buffer run on the same strand and end its wait.                         *)
(***************************************************************************)
LEMMA StopAwakes ==
  ASSUME NEW s \in SndT, NEW r
  PROVE  /\ CloseSocket(s, r) => ~Awaits(snd', "wait")
         /\ StopOnSockStrand(s, r) => snd' = s \/ ~Awaits(snd', "wait")
<1>1. ASSUME CloseSocket(s, r) PROVE ~Awaits(snd', "wait")
  <2>1. CASE s.at \in {"wait", "write"} /\ s.op = "none"
    <3>1. snd' = [s EXCEPT !.op = "cancel"] \/ snd' = [s EXCEPT !.op = "error"]
      BY <1>1, <2>1 DEF CloseSocket
    <3>2. [s EXCEPT !.op = "cancel"].op = "cancel" /\ [s EXCEPT !.op = "error"].op = "error"
      BY DEF SndT
    <3> QED BY <3>1, <3>2 DEF Awaits
  <2>2. CASE ~(s.at \in {"wait", "write"} /\ s.op = "none")
    BY <1>1, <2>2 DEF CloseSocket, Awaits
  <2> QED BY <2>1, <2>2
<1> QED BY <1>1 DEF StopOnSockStrand

LEMMA AsleepStep == Types /\ NothingToSendAsleep /\ [Next]_vars => NothingToSendAsleep'
<1> SUFFICES ASSUME Types, NothingToSendAsleep, [Next]_vars, Awaits(snd', "wait")
             PROVE  buf' = <<>>
  BY DEF NothingToSendAsleep, Awaits
<1> USE DEF NothingToSendAsleep, coros, env
<1>1. CASE SendWrite \/ SendExit
  <2>1. CASE SendWrite
    BY <2>1 DEF SendWrite, Awaits, Coro
  <2>2. CASE SendExit
    BY <2>2, StopAwakes, CoroTypes DEF SendExit, Awaits, Coro, Ended
  <2> QED BY <1>1, <2>1, <2>2
<1>2. CASE SendWait
  BY <1>2 DEF SendWait
<1>3. CASE RecvData \/ RecvExit \/ RecvStart
  <2>1. snd' = snd /\ buf' = buf
    BY <1>3, StopAwakes DEF RecvData, RecvExit, RecvStart, Types
  <2> QED BY <2>1
<1>4. CASE Reply
  BY <1>4 DEF Reply, Woken, Awaits, Coro
<1>5. CASE SockStop
  BY <1>5, StopAwakes DEF SockStop, Types
<1>6. CASE MgrStrand
  BY <1>6 DEF MgrStrand, TimerAgain, TimerExit, MgrStop
<1>7. ASSUME NEW r \in Req, Handler(r) PROVE buf' = <<>>
  BY <1>7 DEF Handler, HandlerStart, HandlerFinish
<1>8. ASSUME NEW s \in toStop, DispatchStop(s) PROVE buf' = <<>>
  BY <1>8 DEF DispatchStop
<1>9. CASE DeliverSock("send", snd) \/ DeliverSock("recv", rcv) \/ DeliverTimer
  BY <1>9 DEF DeliverSock, DeliverTimer
<1>10. CASE WriteDone
  BY <1>10 DEF WriteDone, Awaits, Coro
<1>11. CASE ReadDone \/ TimerFires \/ StopCall \/ PeerClose
  BY <1>11 DEF ReadDone, TimerFires, StopCall, PeerClose
<1>12. ASSUME NEW m \in Req \cup Extra, PeerSend(m) PROVE buf' = <<>>
  BY <1>12 DEF PeerSend
<1>13. CASE UNCHANGED vars
  BY <1>13 DEF vars
<1> QED
  BY <1>1, <1>2, <1>3, <1>4, <1>5, <1>6, <1>7, <1>8, <1>9, <1>10, <1>11, <1>12, <1>13
  DEF Next, SockStrand

(***************************************************************************)
(* For every set of requests, a handler's Merge never leaves a reply in    *)
(* the buffer of a sender that goes on sleeping.                           *)
(***************************************************************************)
THEOREM SenderIsWoken == Spec => []NothingToSendAsleep
<1>1. Init => NothingToSendAsleep
  BY DEF Init, NothingToSendAsleep
<1> QED BY <1>1, AsleepStep, AlwaysTypes, PTL DEF Spec

-----------------------------------------------------------------------------
(***************************************************************************)
(* A request arrives once.  The peer sends no id twice (the bound of the   *)
(* model), and a request is on the wire, in the messages of the last read, *)
(* or with its handler.                                                    *)
(***************************************************************************)
ArrivesOnce ==
  /\ Once(wire, Req)
  /\ \A r \in Req : r \in Range(wire) \cup Range(batch) => hnd[r] = "none"
  /\ Range(wire) \cap Range(batch) \cap Req = {}

LEMMA ArrivesStep == Types /\ ArrivesOnce /\ [Next]_vars => ArrivesOnce'
<1> SUFFICES ASSUME Types, ArrivesOnce, [Next]_vars PROVE ArrivesOnce'
  OBVIOUS
<1> USE DEF coros, env
<1>a. ASSUME wire' = wire, batch' = batch, hnd' = hnd PROVE ArrivesOnce'
  BY <1>a DEF ArrivesOnce
<1>1. CASE SockStrand /\ ~RecvData
  BY <1>1, <1>a DEF SockStrand, SendWrite, SendWait, SendExit, RecvStart, RecvExit, Reply, SockStop
<1>2. CASE RecvData
  <2>1. /\ wire' = wire /\ batch' = <<>> /\ Range(batch') = {}
        /\ \A r \in Req : r \notin Handled(batch) => hnd'[r] = hnd[r]
    BY <1>2, EmptyOnce DEF RecvData
  <2>2. Handled(batch) \subseteq Range(batch)
    BY DEF Handled, Range
  <2> QED BY <2>1, <2>2 DEF ArrivesOnce
<1>3. CASE MgrStrand
  BY <1>3, <1>a DEF MgrStrand, TimerAgain, TimerExit, MgrStop
<1>4. ASSUME NEW r \in Req, Handler(r) PROVE ArrivesOnce'
  <2>1. /\ hnd[r] # "none" /\ wire' = wire /\ batch' = batch
        /\ \A x \in Req : x # r => hnd'[x] = hnd[x]
    BY <1>4 DEF Handler, HandlerStart, HandlerFinish, Types
  <2> QED BY <2>1 DEF ArrivesOnce
<1>5. ASSUME NEW s \in toStop, DispatchStop(s) PROVE ArrivesOnce'
  BY <1>5, <1>a DEF DispatchStop
<1>6. CASE DeliverSock("send", snd) \/ DeliverSock("recv", rcv) \/ DeliverTimer
  BY <1>6, <1>a DEF DeliverSock, DeliverTimer
<1>7. CASE WriteDone \/ TimerFires \/ StopCall \/ PeerClose
  BY <1>7, <1>a DEF WriteDone, TimerFires, StopCall, PeerClose
<1>8. CASE ReadDone
  <2>1. CASE wire' = wire /\ batch' = batch
    BY <1>8, <2>1, <1>a DEF ReadDone
  <2>2. CASE ~(wire' = wire /\ batch' = batch)
    <3>1. PICK n \in 1..Len(wire) : /\ batch' = SubSeq(wire, 1, n)
                                    /\ wire' = SubSeq(wire, n + 1, Len(wire))
      BY <1>8, <2>2 DEF ReadDone
    <3>2. wire \in Seq(Msg) /\ hnd' = hnd
      BY <1>8 DEF Types, ReadDone
    <3>3. /\ Range(batch') \subseteq Range(wire) /\ Range(wire') \subseteq Range(wire)
          /\ Once(wire', Req) /\ Range(batch') \cap Range(wire') \cap Req = {}
      BY <3>1, <3>2, SplitOnce DEF ArrivesOnce
    <3> QED BY <3>2, <3>3 DEF ArrivesOnce
  <2> QED BY <2>1, <2>2
<1>9. ASSUME NEW m \in Req \cup Extra, PeerSend(m) PROVE ArrivesOnce'
  <2>1. m \in Msg /\ wire \in Seq(Msg)
    BY ReqAssumption DEF Msg, Types
  <2>2. m \in Req => hnd[m] = "none" /\ m \notin Range(wire) \cup Range(batch)
    BY <1>9 DEF PeerSend, Sent
  <2>3. wire' = Append(wire, m) /\ batch' = batch /\ hnd' = hnd
    BY <1>9 DEF PeerSend
  <2>4. Range(wire') = Range(wire) \cup {m} /\ Once(wire', Req)
    BY <2>1, <2>2, <2>3, AppendOnce DEF ArrivesOnce
  <2> QED BY <2>2, <2>3, <2>4 DEF ArrivesOnce
<1>10. CASE UNCHANGED vars
  BY <1>10, <1>a DEF vars
<1> QED
  BY <1>1, <1>2, <1>3, <1>4, <1>5, <1>6, <1>7, <1>8, <1>9, <1>10 DEF Next, SockStrand

-----------------------------------------------------------------------------
(***************************************************************************)
(* The reply to a request is in one place: queued for the socket strand,   *)
(* in the send buffer, in the write in progress, or written.  The buffer   *)
(* of a write that has completed still holds what was written, so only a   *)
(* write in progress counts.                                               *)
(***************************************************************************)
Replies == [h : {"reply"}, req : Req]
InFlight == IF Awaits(snd, "write") THEN Range(writing) ELSE {}

OnePlace ==
  /\ Once(sockQ, Replies) /\ Once(buf, Req) /\ Once(writing, Req) /\ Once(out, Req)
  /\ \A r \in Req :
       /\ ReplyH(r) \in Range(sockQ) =>
            hnd[r] = "done" /\ r \notin Range(buf) \cup InFlight \cup Range(out)
       /\ r \in Range(buf) => hnd[r] = "done" /\ r \notin InFlight \cup Range(out)
       /\ r \in InFlight => hnd[r] = "done" /\ r \notin Range(out)
       /\ r \in Range(out) => hnd[r] = "done"

LEMMA ReplyNames ==
  /\ \A r \in Req : ReplyH(r) \in Replies /\ ReplyH(r) \in SockH
  /\ \A r, x \in Req : ReplyH(r) = ReplyH(x) => r = x
  /\ \A x \in SockH : x.h = "reply" => x.req \in Req /\ x = ReplyH(x.req)
  /\ \A name \in {"send", "recv", "stop"} : H(name) \in SockH /\ H(name) \notin Replies
<1>1. \A r \in Req : ReplyH(r) \in Replies /\ ReplyH(r) \in SockH /\ ReplyH(r).req = r
  BY DEF ReplyH, Replies, SockH
<1>2. \A x \in SockH : x.h = "reply" => x.req \in Req /\ x = ReplyH(x.req)
  BY DEF ReplyH, SockH
<1>3. ASSUME NEW name \in {"send", "recv", "stop"} PROVE H(name) \in SockH /\ H(name) \notin Replies
  <2>1. H(name).h = name
    BY DEF H
  <2> QED BY <2>1 DEF H, SockH, Replies
<1> QED BY <1>1, <1>2, <1>3

\* A stop on the socket strand starts no write.
LEMMA StopStartsNoWrite ==
  ASSUME NEW s \in SndT, NEW r
  PROVE  /\ CloseSocket(s, r) => snd' = s \/ ~Awaits(snd', "write")
         /\ StopOnSockStrand(s, r) => snd' = s \/ ~Awaits(snd', "write")
<1>1. ASSUME CloseSocket(s, r) PROVE snd' = s \/ ~Awaits(snd', "write")
  <2>1. snd' \in {s, [s EXCEPT !.op = "cancel"], [s EXCEPT !.op = "error"]}
    BY <1>1 DEF CloseSocket
  <2>2. [s EXCEPT !.op = "cancel"].op = "cancel" /\ [s EXCEPT !.op = "error"].op = "error"
    BY DEF SndT
  <2> QED BY <2>1, <2>2 DEF Awaits
<1> QED BY <1>1 DEF StopOnSockStrand

LEMMA OnePlaceStep == Types /\ ArrivesOnce /\ OnePlace /\ [Next]_vars => OnePlace'
<1> SUFFICES ASSUME Types, ArrivesOnce, OnePlace, [Next]_vars PROVE OnePlace'
  OBVIOUS
<1> USE DEF coros, env
\* Nothing is added to any place, and no handler starts again.
<1>a. ASSUME Once(sockQ', Replies), Range(sockQ') \cap Replies \subseteq Range(sockQ),
             buf' = buf, writing' = writing \/ writing' = <<>>, out' = out,
             InFlight' \subseteq InFlight,
             \A r \in Req : hnd[r] = "done" => hnd'[r] = "done"
      PROVE  OnePlace'
  <2>1. Once(writing', Req)
    BY <1>a, EmptyOnce DEF OnePlace
  <2>2. \A r \in Req : ReplyH(r) \in Range(sockQ') => ReplyH(r) \in Range(sockQ)
    BY <1>a, ReplyNames
  <2> QED BY <1>a, <2>1, <2>2 DEF OnePlace
<1>b. ASSUME NEW name, SockStep(name)
      PROVE  /\ Once(sockQ', Replies) /\ Range(sockQ') \cap Replies \subseteq Range(sockQ)
             /\ Head(sockQ) \in SockH /\ Head(sockQ) \in Range(sockQ) /\ Head(sockQ).h = name
             /\ Range(sockQ') \subseteq Range(sockQ)
             /\ Head(sockQ) \in Replies => Head(sockQ) \notin Range(sockQ')
  <2>1. sockQ \in Seq(SockH) /\ sockQ # <<>> /\ sockQ' = Tail(sockQ) /\ Head(sockQ).h = name
    BY <1>b DEF SockStep, Runs, Types
  <2> QED BY <2>1, TailOnce DEF OnePlace
<1>c. ASSUME snd' = snd \/ ~Awaits(snd', "write"), writing' = writing
      PROVE  InFlight' \subseteq InFlight
  BY <1>c DEF InFlight
<1>d. ASSUME NEW name \in {"send", "recv", "stop"}, sockQ' = Append(sockQ, H(name))
      PROVE  Once(sockQ', Replies) /\ Range(sockQ') \cap Replies \subseteq Range(sockQ)
  <2>1. H(name) \in SockH /\ H(name) \notin Replies /\ sockQ \in Seq(SockH)
    BY ReplyNames DEF Types
  <2> QED BY <1>d, <2>1, AppendOnce DEF OnePlace
<1>e. ASSUME sockQ' = sockQ PROVE Once(sockQ', Replies) /\ Range(sockQ') \cap Replies \subseteq Range(sockQ)
  BY <1>e DEF OnePlace
<1>1. CASE SendWrite
  <2>1. /\ SockStep("send") /\ writing' = buf /\ buf' = <<>> /\ out' = out /\ hnd' = hnd
        /\ Awaits(snd', "write")
    BY <1>1 DEF SendWrite, Swap, Awaits, Coro
  <2>2. InFlight' = Range(buf) /\ Range(buf') = {} /\ Once(buf', Req) /\ Once(writing', Req)
    BY <2>1, EmptyOnce DEF InFlight, OnePlace
  <2>3. \A r \in Req : ReplyH(r) \in Range(sockQ') => ReplyH(r) \in Range(sockQ)
    BY <2>1, <1>b
  <2> QED BY <2>1, <2>2, <2>3, <1>b DEF OnePlace
<1>2. CASE SendWait
  <2>1. /\ SockStep("send") /\ writing' = <<>> /\ buf' = buf /\ out' = out /\ hnd' = hnd
        /\ ~Awaits(snd', "write")
    BY <1>2 DEF SendWait, Awaits, Coro
  <2> QED BY <2>1, <1>a, <1>b DEF InFlight
<1>3. CASE SendExit
  <2>1. /\ SockStep("send") /\ writing' = <<>> /\ buf' = buf /\ out' = out /\ hnd' = hnd
        /\ StopOnSockStrand(Ended, rcv)
    BY <1>3 DEF SendExit
  <2>2. InFlight' \subseteq InFlight
    BY <2>1, EmptyOnce DEF InFlight
  <2> QED BY <2>1, <2>2, <1>a, <1>b
<1>4. CASE RecvData
  <2>1. /\ SockStep("recv") /\ buf' = buf /\ writing' = writing /\ out' = out
        /\ \A r \in Req : r \notin Handled(batch) => hnd'[r] = hnd[r]
        /\ snd' = snd \/ StopOnSockStrand(snd, Ended)
    BY <1>4 DEF RecvData
  <2>2. Handled(batch) \subseteq Range(batch)
    BY DEF Handled, Range
  <2>3. \A r \in Req : hnd[r] = "done" => hnd'[r] = "done"
    BY <2>1, <2>2 DEF ArrivesOnce
  <2>4. InFlight' \subseteq InFlight
    BY <2>1, <1>c, StopStartsNoWrite DEF Types
  <2> QED BY <2>1, <2>3, <2>4, <1>a, <1>b
<1>5. CASE RecvStart \/ RecvExit \/ SockStop
  <2>1. /\ SockStep("recv") \/ SockStep("stop")
        /\ buf' = buf /\ writing' = writing /\ out' = out /\ hnd' = hnd
        /\ snd' = snd \/ ~Awaits(snd', "write")
    BY <1>5, StopStartsNoWrite DEF RecvStart, RecvExit, SockStop, Types
  <2> QED BY <2>1, <1>a, <1>b, <1>c
<1>6. CASE Reply
  <2> DEFINE r0 == Head(sockQ).req
  <2>1. /\ SockStep("reply") /\ buf' = Append(buf, r0) /\ snd' = Woken(snd)
        /\ writing' = writing /\ out' = out /\ hnd' = hnd
    BY <1>6 DEF Reply
  <2>2. /\ r0 \in Req /\ Head(sockQ) = ReplyH(r0)
        /\ ReplyH(r0) \in Range(sockQ) /\ ReplyH(r0) \notin Range(sockQ')
    BY <2>1, <1>b, ReplyNames
  <2>3. hnd[r0] = "done" /\ r0 \notin Range(buf) \cup InFlight \cup Range(out)
    BY <2>2 DEF OnePlace
  <2>4. Range(buf') = Range(buf) \cup {r0} /\ Once(buf', Req)
    BY <2>1, <2>2, <2>3, AppendOnce DEF OnePlace, Types
  <2>5. InFlight' \subseteq InFlight
    BY <2>1, <1>c DEF Woken, Awaits, Coro
  <2>6. ASSUME NEW r \in Req, ReplyH(r) \in Range(sockQ') PROVE r # r0 /\ ReplyH(r) \in Range(sockQ)
    BY <2>1, <2>2, <2>6, <1>b
  <2> HIDE DEF r0
  <2> QED BY <2>1, <2>3, <2>4, <2>5, <2>6, <1>b DEF OnePlace
<1>7. CASE MgrStrand
  <2>1. /\ buf' = buf /\ writing' = writing /\ out' = out /\ hnd' = hnd
        /\ sockQ' = sockQ /\ snd' = snd
    BY <1>7 DEF MgrStrand, TimerAgain, TimerExit, MgrStop
  <2> QED BY <2>1, <1>a, <1>c, <1>e
<1>8. ASSUME NEW x \in Req, HandlerStart(x) PROVE OnePlace'
  <2>1. /\ buf' = buf /\ writing' = writing /\ out' = out /\ sockQ' = sockQ /\ snd' = snd
        /\ \A r \in Req : hnd[r] = "done" => hnd'[r] = "done"
    BY <1>8 DEF HandlerStart, Types
  <2> QED BY <2>1, <1>a, <1>c, <1>e
<1>9. ASSUME NEW x \in Req, HandlerFinish(x) PROVE OnePlace'
  <2>1. /\ buf' = buf /\ writing' = writing /\ out' = out /\ snd' = snd
        /\ hnd[x] # "done" /\ hnd'[x] = "done"
        /\ \A r \in Req : hnd[r] = "done" => hnd'[r] = "done"
    BY <1>9 DEF HandlerFinish, Types
  <2>2. InFlight' = InFlight
    BY <2>1 DEF InFlight
  <2>3. CASE sockQ' = sockQ
    BY <2>1, <2>2, <2>3, <1>a, <1>e
  <2>4. CASE sockQ' = Append(sockQ, ReplyH(x))
    <3>1. ReplyH(x) \notin Range(sockQ) /\ x \notin Range(buf) \cup InFlight \cup Range(out)
      BY <2>1 DEF OnePlace
    <3>2. Once(sockQ', Replies) /\ Range(sockQ') = Range(sockQ) \cup {ReplyH(x)}
      BY <2>4, <3>1, AppendOnce, ReplyNames DEF OnePlace, Types
    <3>3. ASSUME NEW r \in Req, ReplyH(r) \in Range(sockQ')
          PROVE  hnd'[r] = "done" /\ r \notin Range(buf) \cup InFlight \cup Range(out)
      <4>1. r = x \/ ReplyH(r) \in Range(sockQ)
        BY <3>2, <3>3, ReplyNames
      <4> QED BY <2>1, <3>1, <4>1 DEF OnePlace
    <3> QED BY <2>1, <2>2, <3>2, <3>3 DEF OnePlace
  <2> QED BY <1>9, <2>3, <2>4 DEF HandlerFinish
<1>10. ASSUME NEW s \in toStop, DispatchStop(s) PROVE OnePlace'
  <2>1. /\ buf' = buf /\ writing' = writing /\ out' = out /\ hnd' = hnd /\ snd' = snd
        /\ sockQ' = sockQ \/ sockQ' = Append(sockQ, H("stop"))
    BY <1>10 DEF DispatchStop
  <2> QED BY <2>1, <1>a, <1>c, <1>d, <1>e
<1>11. CASE DeliverSock("send", snd) \/ DeliverSock("recv", rcv)
  <2>1. /\ buf' = buf /\ writing' = writing /\ out' = out /\ hnd' = hnd /\ snd' = snd
        /\ sockQ' = Append(sockQ, H("send")) \/ sockQ' = Append(sockQ, H("recv"))
    BY <1>11 DEF DeliverSock
  <2> QED BY <2>1, <1>a, <1>c, <1>d
<1>12. CASE WriteDone
  <2>1. /\ InFlight = Range(writing) /\ ~Awaits(snd', "write") /\ InFlight' = {}
        /\ sockQ' = sockQ /\ buf' = buf /\ writing' = writing /\ hnd' = hnd
        /\ out' = out \/ out' = out \o writing
    BY <1>12 DEF WriteDone, InFlight, Awaits, Coro
  <2>2. CASE out' = out
    BY <2>1, <2>2, <1>a, <1>e
  <2>3. CASE out' = out \o writing
    <3>1. Range(writing) \cap Range(out) = {} /\ out \in Seq(Req) /\ writing \in Seq(Req)
      <4>1. out \in Seq(Req) /\ writing \in Seq(Req)
        BY DEF Types
      <4>2. Range(writing) \subseteq Req
        BY <4>1, RangeOfSeq
      <4> QED BY <2>1, <4>1, <4>2 DEF OnePlace
    <3>2. Range(out') = Range(out) \cup Range(writing) /\ Once(out', Req)
      BY <2>3, <3>1, ConcatOnce DEF OnePlace
    <3> QED BY <2>1, <3>2 DEF OnePlace
  <2> QED BY <2>1, <2>2, <2>3
<1>13. CASE ReadDone \/ TimerFires \/ StopCall \/ PeerClose \/ DeliverTimer \/ UNCHANGED vars
  <2>1. /\ buf' = buf /\ writing' = writing /\ out' = out /\ hnd' = hnd
        /\ sockQ' = sockQ /\ snd' = snd
    BY <1>13 DEF ReadDone, TimerFires, StopCall, PeerClose, DeliverTimer, vars
  <2> QED BY <2>1, <1>a, <1>c, <1>e
<1>14. ASSUME NEW m \in Req \cup Extra, PeerSend(m) PROVE OnePlace'
  <2>1. /\ buf' = buf /\ writing' = writing /\ out' = out /\ hnd' = hnd
        /\ sockQ' = sockQ /\ snd' = snd
    BY <1>14 DEF PeerSend
  <2> QED BY <2>1, <1>a, <1>c, <1>e
<1> QED
  BY <1>1, <1>2, <1>3, <1>4, <1>5, <1>6, <1>7, <1>8, <1>9, <1>10, <1>11, <1>12, <1>13, <1>14
  DEF Next, SockStrand, Handler

(***************************************************************************)
(* No reply is written twice, for every set of requests: the handler posts *)
(* one reply, and the buffers hand it on without keeping it.               *)
(***************************************************************************)
THEOREM RepliesWrittenOnce == Spec => []AnsweredOnce
<1>1. Init => ArrivesOnce /\ OnePlace
  <2> SUFFICES ASSUME Init PROVE ArrivesOnce /\ OnePlace
    OBVIOUS
  <2>1. ArrivesOnce
    BY EmptyOnce DEF Init, ArrivesOnce
  <2>2. Once(sockQ, Replies) /\ \A r \in Req : ReplyH(r) \notin Range(sockQ)
    <3>1. DOMAIN sockQ = 1..2 /\ sockQ[1] = H("send") /\ sockQ[2] = H("recv")
      BY DEF Init
    <3>2. \A i \in DOMAIN sockQ : sockQ[i] \notin Replies
      BY <3>1, ReplyNames
    <3> QED BY <3>2, ReplyNames DEF Once, Range
  <2> QED BY <2>1, <2>2, EmptyOnce DEF Init, OnePlace, InFlight
<1>2. Types /\ OnePlace => AnsweredOnce
  BY OnceIsInjective DEF Types, OnePlace, AnsweredOnce
<1> QED BY <1>1, <1>2, AlwaysTypes, ArrivesStep, OnePlaceStep, PTL DEF Spec

=============================================================================
