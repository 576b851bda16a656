--------------------------- MODULE RpcClient_proofs ---------------------------
(***************************************************************************)
(* Proofs about RpcClient, for every set of calls and contexts and every   *)
(* number of sessions: one session runs at a time and none after the       *)
(* client stopped, the sender is woken, a reply finds its call waiting and *)
(* every status is deserved.                                               *)
(***************************************************************************)
EXTENDS RpcClient, FiniteSetTheorems, SequenceLemmas, TLAPS

SockH == [h : {"con", "snd", "rcv", "stop"}] \cup [h : {"merge", "merged"}, call : Call]
HndH == [h : {"begin", "sent", "reply", "over"}, call : Call]
MgrH == [h : {"stop"}] \cup [h : {"create"}, call : Call]
ConT == {Ended, Coro("start", "ok")} \cup [at : {"connect"}, op : {"none", "ok", "error"}]
SndT == {Ended, Coro("start", "ok")}
          \cup [at : {"write", "beat"}, op : {"none", "ok", "error"}]
          \cup [at : {"wait"}, op : {"none", "fired", "cancel"}]
RcvT == {Ended, Coro("start", "ok")} \cup [at : {"read"}, op : {"none", "data", "error"}]

(***************************************************************************)
(* TypeOK, and the types of the strands and of the wire.                   *)
(***************************************************************************)
CallTypes ==
  /\ pc \in [Call -> {"idle", "try", "spawn", "create", "call", "done"}]
  /\ status \in [Call -> Code]
  /\ tm \in [Call -> {"new", "armed", "fired", "cancel"}]
  /\ got \in [Call -> BOOLEAN]
  /\ on \in [Call -> Session \cup {NoSession}]
  /\ ctxDone \subseteq Context /\ late \subseteq Timed

SessionTypes ==
  /\ run \in BOOLEAN /\ cur \in Session \cup {NoSession} /\ made \in 0..MaxSession
  /\ mgrQ \in Seq(MgrH) /\ stopDue \subseteq Session \cup {NoSession}
  /\ srun \in [Session -> BOOLEAN] /\ sock \in [Session -> BOOLEAN]
  /\ sockQ \in [Session -> Seq(SockH)] /\ hndQ \in [Session -> Seq(HndH)]
  /\ con \in [Session -> ConT] /\ snd \in [Session -> SndT] /\ rcv \in [Session -> RcvT]

DataTypes ==
  /\ batch \in [Session -> Seq(Call)] /\ buf \in [Session -> Seq(Call)]
  /\ writing \in [Session -> Seq(Call)] /\ replies \in [Session -> Seq(Call)]
  /\ waiting \in [Session -> SUBSET Call] /\ sent \in [Session -> SUBSET Call]
  /\ answered \subseteq Call /\ answer \in [Call -> Code]

Types == CallTypes /\ SessionTypes /\ DataTypes

LEMMA TypesImplyTypeOK == Types => TypeOK
BY DEF Types, CallTypes, SessionTypes, DataTypes, TypeOK, CorosOK, ConT, SndT, RcvT, Code

\* A changed value keeps the type of a function on the sessions.
LEMMA SetIn ==
  ASSUME NEW S, NEW f \in [Session -> S], NEW s \in Session, NEW v \in S
  PROVE  Set(f, s, v) \in [Session -> S]
BY DEF Set

\* The names of handlers, and how coroutines are suspended.
LEMMA Names ==
  /\ \A n \in {"con", "snd", "rcv", "stop"} : H(n) \in SockH /\ H(n).h = n
  /\ \A n \in {"merge", "merged"}, c \in Call : HC(n, c) \in SockH
  /\ \A n \in {"begin", "sent", "reply", "over"}, c \in Call : HC(n, c) \in HndH
  /\ \A n, c : HC(n, c).h = n /\ HC(n, c).call = c
  /\ H("stop") \in MgrH /\ \A c \in Call : HC("create", c) \in MgrH
  /\ \A x \in SockH : x.h \in {"merge", "merged"} => x.call \in Call /\ x = HC(x.h, x.call)
  /\ \A x \in HndH : x.call \in Call /\ x = HC(x.h, x.call)
  /\ \A x \in MgrH : x.h = "create" => x.call \in Call
  /\ \A x \in SockH : x.h \in {"con", "snd", "rcv", "stop"} => x = H(x.h)
  /\ \A x \in MgrH : x.h = "stop" => x = H("stop")
<1>1. /\ \A n \in {"con", "snd", "rcv", "stop"} : H(n) \in SockH /\ H(n).h = n
      /\ H("stop") \in MgrH
  BY DEF H, SockH, MgrH
<1>2. /\ \A n \in {"merge", "merged"}, c \in Call : HC(n, c) \in SockH
      /\ \A n \in {"begin", "sent", "reply", "over"}, c \in Call : HC(n, c) \in HndH
      /\ \A n, c : HC(n, c).h = n /\ HC(n, c).call = c
      /\ \A c \in Call : HC("create", c) \in MgrH
  BY DEF HC, SockH, HndH, MgrH
<1>3. /\ \A x \in SockH : x.h \in {"merge", "merged"} => x.call \in Call /\ x = HC(x.h, x.call)
      /\ \A x \in SockH : x.h \in {"con", "snd", "rcv", "stop"} => x = H(x.h)
  BY DEF H, HC, SockH
<1>4. \A x \in HndH : x.call \in Call /\ x = HC(x.h, x.call)
  BY DEF HC, HndH
<1>5. \A x \in MgrH : (x.h = "create" => x.call \in Call) /\ (x.h = "stop" => x = H("stop"))
  BY DEF H, MgrH
<1> QED BY <1>1, <1>2, <1>3, <1>4, <1>5

LEMMA CoroNames ==
  /\ Ended \in ConT /\ Ended \in SndT /\ Ended \in RcvT
  /\ Coro("start", "ok") \in ConT /\ Coro("start", "ok") \in SndT /\ Coro("start", "ok") \in RcvT
  /\ \A o \in {"none", "ok", "error"} : /\ Coro("connect", o) \in ConT
                                        /\ Coro("write", o) \in SndT /\ Coro("beat", o) \in SndT
  /\ \A o \in {"none", "fired", "cancel"} : Coro("wait", o) \in SndT
  /\ \A o \in {"none", "data", "error"} : Coro("read", o) \in RcvT
  /\ \A a, o : Coro(a, o).at = a /\ Coro(a, o).op = o
  /\ \A a, o, b, p : Coro(a, o) = Coro(b, p) => a = b /\ o = p
  /\ Ended.at = "end" /\ Ended.op = "none"
BY DEF Ended, Coro, ConT, SndT, RcvT

\* Closing a session's socket touches the session's coroutines only.
LEMMA CloseTypes ==
  ASSUME Types, NEW s \in Session, NEW k \in ConT, NEW d \in SndT, NEW r \in RcvT
  PROVE  /\ CloseSocket(s, k, d, r) =>
              /\ sock' \in [Session -> BOOLEAN] /\ con' \in [Session -> ConT]
              /\ snd' \in [Session -> SndT] /\ rcv' \in [Session -> RcvT]
         /\ LeaveAndStop(s, k, d, r) =>
              /\ srun' \in [Session -> BOOLEAN] /\ sock' \in [Session -> BOOLEAN]
              /\ con' \in [Session -> ConT]
              /\ snd' \in [Session -> SndT] /\ rcv' \in [Session -> RcvT]
<1> DEFINE k1 == IF Awaits(k, "connect") THEN Coro("connect", "error") ELSE k
           d1 == IF Awaits(d, "wait") THEN Coro("wait", "cancel")
                 ELSE IF d.at \in {"write", "beat"} /\ d.op = "none"
                      THEN Coro(d.at, "error") ELSE d
           r1 == IF Awaits(r, "read") THEN Coro("read", "error") ELSE r
<1>1. k1 \in ConT /\ d1 \in SndT /\ r1 \in RcvT
  BY CoroNames
<1>2. CloseSocket(s, k, d, r) => /\ sock' = Set(sock, s, FALSE) /\ con' = Set(con, s, k1)
                                 /\ snd' = Set(snd, s, d1) /\ rcv' = Set(rcv, s, r1)
  BY DEF CloseSocket
<1> HIDE DEF k1, d1, r1
<1>b. Set(sock, s, FALSE) \in [Session -> BOOLEAN] /\ Set(srun, s, FALSE) \in [Session -> BOOLEAN]
  BY DEF Set, Types, SessionTypes
<1>s. /\ Set(con, s, k1) \in [Session -> ConT] /\ Set(snd, s, d1) \in [Session -> SndT]
      /\ Set(rcv, s, r1) \in [Session -> RcvT]
  BY <1>1, SetIn DEF Types, SessionTypes
<1>3. CloseSocket(s, k, d, r) =>
              /\ sock' \in [Session -> BOOLEAN] /\ con' \in [Session -> ConT]
              /\ snd' \in [Session -> SndT] /\ rcv' \in [Session -> RcvT]
  BY <1>2, <1>b, <1>s
<1>4. LeaveAndStop(s, k, d, r) => srun' \in [Session -> BOOLEAN]
  <2>1. LeaveAndStop(s, k, d, r) => srun' = Set(srun, s, FALSE) \/ srun' = srun
    BY DEF LeaveAndStop
  <2> QED BY <2>1, <1>b DEF Types, SessionTypes
<1>5. LeaveAndStop(s, k, d, r) =>
        \/ CloseSocket(s, k, d, r)
        \/ /\ con' = Set(con, s, k) /\ snd' = Set(snd, s, d) /\ rcv' = Set(rcv, s, r)
           /\ sock' = sock
  BY DEF LeaveAndStop
<1>6. /\ sock \in [Session -> BOOLEAN] /\ Set(con, s, k) \in [Session -> ConT]
      /\ Set(snd, s, d) \in [Session -> SndT] /\ Set(rcv, s, r) \in [Session -> RcvT]
  BY SetIn DEF Types, SessionTypes
<1> QED BY <1>3, <1>4, <1>5, <1>6

\* The handler at the front of a strand, and the strand without it.
LEMMA Fronts ==
  ASSUME Types, NEW s \in Session
  PROVE  /\ \A n : OnSock(s, n) => /\ sockQ[s] \in Seq(SockH) /\ sockQ[s] # <<>>
                                   /\ Head(sockQ[s]) \in SockH /\ Head(sockQ[s]).h = n
                                   /\ Rest(s) \in Seq(SockH) /\ Rest(s) = Tail(sockQ[s])
         /\ \A n : OnHnd(s, n) => /\ hndQ[s] \in Seq(HndH) /\ hndQ[s] # <<>>
                                  /\ HndCall(s) \in Call /\ Head(hndQ[s]) = HC(n, HndCall(s))
                                  /\ Tail(hndQ[s]) \in Seq(HndH)
<1>1. ASSUME NEW n, OnSock(s, n)
      PROVE  /\ sockQ[s] \in Seq(SockH) /\ sockQ[s] # <<>>
             /\ Head(sockQ[s]) \in SockH /\ Head(sockQ[s]).h = n
             /\ Rest(s) \in Seq(SockH) /\ Rest(s) = Tail(sockQ[s])
  BY <1>1 DEF OnSock, Rest, Types, SessionTypes
<1>2. ASSUME NEW n, OnHnd(s, n)
      PROVE  /\ hndQ[s] \in Seq(HndH) /\ hndQ[s] # <<>>
             /\ HndCall(s) \in Call /\ Head(hndQ[s]) = HC(n, HndCall(s))
             /\ Tail(hndQ[s]) \in Seq(HndH)
  <2>1. /\ hndQ[s] \in Seq(HndH) /\ hndQ[s] # <<>> /\ Head(hndQ[s]) \in HndH
        /\ Tail(hndQ[s]) \in Seq(HndH) /\ Head(hndQ[s]).h = n
    BY <1>2 DEF OnHnd, Types, SessionTypes
  <2> QED BY <2>1, Names DEF HndCall
<1> QED BY <1>1, <1>2

LEMMA RepliesPosted ==
  ASSUME NEW b \in Seq(Call)
  PROVE  LET q == [i \in DOMAIN b |-> HC("reply", b[i])] IN
           /\ q \in Seq(HndH) /\ Range(q) = {HC("reply", c) : c \in Range(b)}
<1> DEFINE q == [i \in DOMAIN b |-> HC("reply", b[i])]
<1>1. DOMAIN b = 1..Len(b) /\ Len(b) \in Nat /\ \A i \in 1..Len(b) : b[i] \in Call
  OBVIOUS
<1>2. q \in [1..Len(b) -> HndH]
  BY <1>1, Names
<1>3. q \in Seq(HndH)
  BY <1>1, <1>2, SeqDef
<1>4. Range(q) = {HC("reply", c) : c \in Range(b)}
  BY DEF Range
<1> QED BY <1>3, <1>4

\* A session's strand after one of its handlers ran or was queued.
LEMMA StrandTypes ==
  ASSUME Types, NEW s \in Session
  PROVE  /\ \A q \in Seq(SockH) : Set(sockQ, s, q) \in [Session -> Seq(SockH)]
         /\ \A q \in Seq(HndH) : Set(hndQ, s, q) \in [Session -> Seq(HndH)]
         /\ \A x \in SockH : /\ Append(sockQ[s], x) \in Seq(SockH)
                             /\ \A n : OnSock(s, n) => Append(Rest(s), x) \in Seq(SockH)
         /\ \A x \in HndH : Append(hndQ[s], x) \in Seq(HndH)
         /\ \A x \in MgrH : Append(mgrQ, x) \in Seq(MgrH)
<1>1. sockQ[s] \in Seq(SockH) /\ hndQ[s] \in Seq(HndH) /\ mgrQ \in Seq(MgrH)
  BY DEF Types, SessionTypes
<1>2. \A n : OnSock(s, n) => Rest(s) \in Seq(SockH)
  BY Fronts
<1>3. /\ \A q \in Seq(SockH), x \in SockH : Append(q, x) \in Seq(SockH)
      /\ \A q \in Seq(HndH), x \in HndH : Append(q, x) \in Seq(HndH)
      /\ \A q \in Seq(MgrH), x \in MgrH : Append(q, x) \in Seq(MgrH)
  OBVIOUS
<1>4. /\ \A q \in Seq(SockH) : Set(sockQ, s, q) \in [Session -> Seq(SockH)]
      /\ \A q \in Seq(HndH) : Set(hndQ, s, q) \in [Session -> Seq(HndH)]
  BY DEF Set, Types, SessionTypes
<1> QED BY <1>1, <1>2, <1>3, <1>4

LEMMA SockStrandTypes == \A s \in Session : Types /\ SockStrand(s) => Types'
<1> SUFFICES ASSUME NEW s \in Session, Types, SockStrand(s) PROVE Types'
  OBVIOUS
<1> USE DEF client, calls, queues, coros, data, net
<1>a. con[s] \in ConT /\ snd[s] \in SndT /\ rcv[s] \in RcvT /\ Ended \in ConT /\ Ended \in SndT /\ Ended \in RcvT
  BY CoroNames DEF Types, SessionTypes
<1>b. ASSUME NEW n, OnSock(s, n) PROVE Set(sockQ, s, Rest(s)) \in [Session -> Seq(SockH)]
  BY <1>b, Fronts, StrandTypes
<1>1. CASE StartConnect(s)
  <2>1. sockQ' \in [Session -> Seq(SockH)]
    BY <1>1, <1>b DEF StartConnect
  <2>2. con' \in [Session -> ConT]
    BY <1>1, CoroNames DEF StartConnect, Set, Types, SessionTypes
  <2> QED BY <1>1, <2>1, <2>2 DEF StartConnect, Types, CallTypes, SessionTypes, DataTypes
<1>2. CASE Connected(s)
  <2>1. Rest(s) \o <<H("snd"), H("rcv")>> \in Seq(SockH)
    BY <1>2, Fronts, Names DEF Connected
  <2>2. sockQ' \in [Session -> Seq(SockH)]
    BY <1>2, <2>1, StrandTypes DEF Connected
  <2>3. con' \in [Session -> ConT] /\ snd' \in [Session -> SndT] /\ rcv' \in [Session -> RcvT]
    BY <1>2, CoroNames DEF Connected, Set, Types, SessionTypes
  <2> QED BY <1>2, <2>2, <2>3 DEF Connected, Types, CallTypes, SessionTypes, DataTypes
<1>3. CASE ConnectFailed(s) \/ SendExit(s) \/ RecvExit(s)
  <2>1. sockQ' \in [Session -> Seq(SockH)]
    BY <1>3, <1>b DEF ConnectFailed, SendExit, RecvExit
  <2>2. /\ srun' \in [Session -> BOOLEAN] /\ sock' \in [Session -> BOOLEAN]
        /\ con' \in [Session -> ConT]
        /\ snd' \in [Session -> SndT] /\ rcv' \in [Session -> RcvT]
    BY <1>3, <1>a, CloseTypes DEF ConnectFailed, SendExit, RecvExit
  <2> QED BY <1>3, <2>1, <2>2
          DEF ConnectFailed, SendExit, RecvExit, Types, CallTypes, SessionTypes, DataTypes
<1>4. CASE SendWrite(s)
  <2>1. sockQ' \in [Session -> Seq(SockH)]
    BY <1>4, <1>b DEF SendWrite
  <2>2. snd' \in [Session -> SndT]
    BY <1>4, CoroNames DEF SendWrite, Set, Types, SessionTypes
  <2>3. writing' \in [Session -> Seq(Call)] /\ buf' \in [Session -> Seq(Call)]
    BY <1>4 DEF SendWrite, Set, Types, DataTypes
  <2> QED BY <1>4, <2>1, <2>2, <2>3 DEF SendWrite, Types, CallTypes, SessionTypes, DataTypes
<1>5. CASE SendWait(s) \/ SendHeartBeat(s)
  <2>1. sockQ' \in [Session -> Seq(SockH)]
    BY <1>5, <1>b DEF SendWait, SendHeartBeat
  <2>2. snd' \in [Session -> SndT]
    <3>1. Coro("wait", "none") \in SndT /\ Coro("beat", "none") \in SndT
      BY CoroNames
    <3>2. PICK d \in SndT : snd' = Set(snd, s, d)
      BY <1>5, <3>1 DEF SendWait, SendHeartBeat
    <3> QED BY <3>2 DEF Set, Types, SessionTypes
  <2> QED BY <1>5, <2>1, <2>2 DEF SendWait, SendHeartBeat, Types, CallTypes, SessionTypes, DataTypes
<1>6. CASE RecvReplies(s)
  <2>1. sockQ' \in [Session -> Seq(SockH)]
    BY <1>6, <1>b DEF RecvReplies
  <2>2. rcv' \in [Session -> RcvT]
    BY <1>6, CoroNames DEF RecvReplies, Set, Types, SessionTypes
  <2>3. batch[s] \in Seq(Call) /\ batch' \in [Session -> Seq(Call)]
    BY <1>6 DEF RecvReplies, Set, Types, DataTypes
  <2>4. hndQ' \in [Session -> Seq(HndH)]
    <3> DEFINE q == [i \in DOMAIN batch[s] |-> HC("reply", batch[s][i])]
    <3>1. q \in Seq(HndH)
      BY <2>3, RepliesPosted
    <3>2. hndQ' = [hndQ EXCEPT ![s] = @ \o q]
      BY <1>6 DEF RecvReplies
    <3> HIDE DEF q
    <3> QED BY <3>1, <3>2 DEF Types, SessionTypes
  <2> QED BY <1>6, <2>1, <2>2, <2>3, <2>4 DEF RecvReplies, Types, CallTypes, SessionTypes, DataTypes
<1>7. CASE Merge(s)
  <2> DEFINE c == Head(sockQ[s]).call
  <2>1. c \in Call
    BY <1>7, Fronts, Names DEF Merge
  <2>2. sockQ' \in [Session -> Seq(SockH)]
    BY <1>7, <2>1, StrandTypes, Names DEF Merge
  <2>3. snd' \in [Session -> SndT]
    BY <1>7, CoroNames DEF Merge, Woken, Set, Types, SessionTypes
  <2>4. buf' \in [Session -> Seq(Call)]
    BY <1>7, <2>1 DEF Merge, Types, DataTypes
  <2> QED BY <1>7, <2>2, <2>3, <2>4 DEF Merge, Types, CallTypes, SessionTypes, DataTypes
<1>8. CASE Merged(s)
  <2> DEFINE c == Head(sockQ[s]).call
  <2>1. c \in Call
    BY <1>8, Fronts, Names DEF Merged
  <2>2. sockQ' \in [Session -> Seq(SockH)]
    BY <1>8, <1>b DEF Merged
  <2>3. hndQ' \in [Session -> Seq(HndH)]
    BY <1>8, <2>1, Names DEF Merged, Types, SessionTypes
  <2> QED BY <1>8, <2>2, <2>3 DEF Merged, Types, CallTypes, SessionTypes, DataTypes
<1>9. CASE SockStop(s)
  <2>1. sockQ' \in [Session -> Seq(SockH)]
    BY <1>9, <1>b DEF SockStop
  <2>2. /\ sock' \in [Session -> BOOLEAN] /\ con' \in [Session -> ConT]
        /\ snd' \in [Session -> SndT] /\ rcv' \in [Session -> RcvT]
    BY <1>9, <1>a, CloseTypes DEF SockStop
  <2> QED BY <1>9, <2>1, <2>2 DEF SockStop, Types, CallTypes, SessionTypes, DataTypes
<1> QED BY <1>1, <1>2, <1>3, <1>4, <1>5, <1>6, <1>7, <1>8, <1>9 DEF SockStrand

LEMMA TypesStep == Types /\ [Next]_vars => Types'
<1> SUFFICES ASSUME Types, [Next]_vars PROVE Types'
  OBVIOUS
<1> USE DEF client, calls, queues, coros, data, net
<1>1. ASSUME NEW c \in Call, Invoke(c) \/ CallStep(c) \/ DeadlinePasses(c) PROVE Types'
  <2>1. CASE Invoke(c) \/ TryStopped(c) \/ TryCreate(c)
    <3>1. pc' \in [Call -> {"idle", "try", "spawn", "create", "call", "done"}]
      BY <2>1 DEF Invoke, TryStopped, TryCreate, Return, Set, Types, CallTypes
    <3>2. status' \in [Call -> Code]
      BY <2>1 DEF Invoke, TryStopped, TryCreate, Return, Set, Code, Types, CallTypes
    <3> QED BY <2>1, <3>1, <3>2
            DEF Invoke, TryStopped, TryCreate, Types, CallTypes, SessionTypes, DataTypes
  <2>2. CASE TrySession(c)
    <3>1. cur \in Session /\ HC("begin", c) \in HndH
      BY <2>2, Names DEF TrySession, Usable, Types, SessionTypes
    <3>2. hndQ' \in [Session -> Seq(HndH)]
      BY <2>2, <3>1 DEF TrySession, Types, SessionTypes
    <3>3. CallTypes'
      BY <2>2, <3>1 DEF TrySession, Set, Types, CallTypes
    <3> QED BY <2>2, <3>2, <3>3 DEF TrySession, Types, SessionTypes, DataTypes
  <2>3. CASE SpawnCreate(c)
    <3>1. mgrQ' \in Seq(MgrH)
      BY <2>3, Names DEF SpawnCreate, Types, SessionTypes
    <3>2. CallTypes'
      BY <2>3 DEF SpawnCreate, Set, Types, CallTypes
    <3> QED BY <2>3, <3>1, <3>2 DEF SpawnCreate, Types, SessionTypes, DataTypes
  <2>4. CASE WaitTimesOut(c)
    BY <2>4 DEF WaitTimesOut, Set, Types, CallTypes, SessionTypes, DataTypes
  <2>5. CASE DeliverOver(c)
    <3>1. hndQ' \in [Session -> Seq(HndH)]
      <4>1. hndQ' = [hndQ EXCEPT ![on[c]] = Append(@, HC("over", c))] /\ HC("over", c) \in HndH
        BY <2>5, Names DEF DeliverOver
      <4>2. CASE on[c] \in Session
        BY <4>1, <4>2 DEF Types, SessionTypes
      <4>3. CASE on[c] \notin Session
        BY <4>1, <4>3 DEF Types, SessionTypes
      <4> QED BY <4>2, <4>3
    <3> QED BY <2>5, <3>1 DEF DeliverOver, Types, CallTypes, SessionTypes, DataTypes
  <2>6. CASE DeadlinePasses(c)
    BY <2>6 DEF DeadlinePasses, Types, CallTypes, SessionTypes, DataTypes
  <2> QED BY <1>1, <2>1, <2>2, <2>3, <2>4, <2>5, <2>6 DEF CallStep
<1>2. CASE Create
  <2> DEFINE c == Head(mgrQ).call
  <2>1. c \in Call /\ mgrQ' \in Seq(MgrH)
    BY <1>2, Names DEF Create, Types, SessionTypes
  <2>2. CallTypes'
    BY <1>2, <2>1 DEF Create, Set, Types, CallTypes
  <2>3. /\ made' \in 0..MaxSession /\ cur' \in Session \cup {NoSession}
        /\ srun' \in [Session -> BOOLEAN] /\ sock' \in [Session -> BOOLEAN]
        /\ con' \in [Session -> ConT] /\ sockQ' \in [Session -> Seq(SockH)]
    <3>1. CASE ~MustCreate
      BY <1>2, <3>1 DEF Create, Types, SessionTypes
    <3>2. CASE MustCreate
      <4> DEFINE s == made + 1
      <4>1. /\ s \in Session /\ made' = s /\ cur' = s /\ srun' = Set(srun, s, TRUE)
            /\ sock' = Set(sock, s, TRUE) /\ con' = Set(con, s, Coro("start", "ok"))
            /\ sockQ' = Set(sockQ, s, <<H("con")>>)
        BY <1>2, <3>2 DEF Create
      <4>2. <<H("con")>> \in Seq(SockH)
        BY Names
      <4>3. made' \in 0..MaxSession
        BY <4>1, MaxSessionAssumption DEF Session
      <4> HIDE DEF s
      <4> QED BY <4>1, <4>2, <4>3, CoroNames DEF Set, Types, SessionTypes
    <3> QED BY <3>1, <3>2
  <2> QED BY <1>2, <2>1, <2>2, <2>3 DEF Create, Types, SessionTypes, DataTypes
<1>3. CASE Stop \/ \E x \in UserDone : Done(x)
  <2>1. ctxDone' \subseteq Context
    BY <1>3, UserDoneAssumption DEF Stop, Done, Types, CallTypes
  <2> QED BY <1>3, <2>1 DEF Stop, Done, Types, CallTypes, SessionTypes, DataTypes
<1>4. CASE ClientStop
  <2>1. mgrQ' \in Seq(MgrH) /\ srun' \in [Session -> BOOLEAN] /\ stopDue' \subseteq Session \cup {NoSession}
    <3>1. mgrQ' \in Seq(MgrH)
      BY <1>4 DEF ClientStop, Types, SessionTypes
    <3>2. CASE Usable
      BY <1>4, <3>1, <3>2 DEF ClientStop, Usable, Set, Types, SessionTypes
    <3>3. CASE ~Usable
      BY <1>4, <3>1, <3>3 DEF ClientStop, Types, SessionTypes
    <3> QED BY <3>2, <3>3
  <2> QED BY <1>4, <2>1 DEF ClientStop, Types, CallTypes, SessionTypes, DataTypes
<1>5. ASSUME NEW s \in Session \cup {NoSession}, DispatchStop(s) PROVE Types'
  <2>1. mgrQ' \in Seq(MgrH) /\ sockQ' \in [Session -> Seq(SockH)]
    <3>1. H("stop") \in SockH /\ H("stop") \in MgrH
      BY Names
    <3>2. CASE s = NoSession
      <4>1. mgrQ' = Append(mgrQ, H("stop")) /\ sockQ' = sockQ
        BY <1>5, <3>2 DEF DispatchStop
      <4> QED BY <3>1, <4>1 DEF Types, SessionTypes
    <3>3. CASE s # NoSession
      <4>1. mgrQ' = mgrQ /\ sockQ' = [sockQ EXCEPT ![s] = Append(@, H("stop"))] /\ s \in Session
        BY <1>5, <3>3 DEF DispatchStop
      <4> QED BY <3>1, <4>1 DEF Types, SessionTypes
    <3> QED BY <3>2, <3>3
  <2> QED BY <1>5, <2>1 DEF DispatchStop, Types, CallTypes, SessionTypes, DataTypes
<1>6. ASSUME NEW s \in Session, HndStrand(s) PROVE Types'
  <2>1. hndQ' \in [Session -> Seq(HndH)]
    <3>1. Tail(hndQ[s]) \in Seq(HndH) /\ hndQ' = Set(hndQ, s, Tail(hndQ[s]))
      BY <1>6, Fronts DEF HndStrand, BeginCall, AwaitReply, HandleReply, EndCall, PopHnd
    <3> QED BY <3>1, StrandTypes
  <2>2. HndCall(s) \in Call
    BY <1>6, Fronts DEF HndStrand, BeginCall, AwaitReply, HandleReply, EndCall
  <2>3. CASE BeginCall(s)
    <3>1. HC("merge", HndCall(s)) \in SockH
      BY <2>2, Names
    <3>2. sockQ' \in [Session -> Seq(SockH)]
      BY <2>3, <3>1 DEF BeginCall, Types, SessionTypes
    <3>3. waiting' \in [Session -> SUBSET Call]
      BY <2>3, <2>2 DEF BeginCall, Types, DataTypes
    <3> QED BY <2>1, <2>3, <3>2, <3>3 DEF BeginCall, Types, CallTypes, SessionTypes, DataTypes
  <2>4. CASE AwaitReply(s)
    BY <2>1, <2>2, <2>4 DEF AwaitReply, Set, Types, CallTypes, SessionTypes, DataTypes
  <2>5. CASE HandleReply(s)
    <3>1. CallTypes'
      BY <2>2, <2>5 DEF HandleReply, Set, Types, CallTypes, DataTypes
    <3> QED BY <2>1, <2>5, <3>1 DEF HandleReply, Types, SessionTypes, DataTypes
  <2>6. CASE EndCall(s)
    <3>1. Returned(Outcome(HndCall(s))) \subseteq Code /\ CtxOf[HndCall(s)] \in Context
      BY <2>2, CallAssumption DEF Outcome, Returned, Code, Types, CallTypes
    <3>2. PICK code \in Code : Return(HndCall(s), code)
      BY <2>6, <3>1 DEF EndCall
    <3>4. CallTypes'
      BY <2>2, <2>6, <3>1, <3>2 DEF EndCall, Return, Set, Types, CallTypes
    <3>3. waiting' \in [Session -> SUBSET Call]
      BY <2>6 DEF EndCall, Types, DataTypes
    <3> QED BY <2>1, <2>6, <3>3, <3>4 DEF EndCall, Types, SessionTypes, DataTypes
  <2> QED BY <1>6, <2>3, <2>4, <2>5, <2>6 DEF HndStrand
<1>7. ASSUME NEW s \in Session, ConnectDone(s) \/ ConnectBreaks(s) PROVE Types'
  <2>1. con' \in [Session -> ConT]
    <3>1. PICK k \in ConT : con' = Set(con, s, k)
      BY <1>7, CoroNames DEF ConnectDone, ConnectBreaks
    <3> QED BY <3>1 DEF Set, Types, SessionTypes
  <2> QED BY <1>7, <2>1 DEF ConnectDone, ConnectBreaks, Types, CallTypes, SessionTypes, DataTypes
<1>8. ASSUME NEW s \in Session, WriteDone(s) \/ WriteBreaks(s) \/ HeartBeatDue(s) PROVE Types'
  <2>1. snd' \in [Session -> SndT]
    <3>1. Coro("wait", "fired") \in SndT
      BY CoroNames
    <3>2. snd[s].at \in {"write", "beat"} =>
            Coro(snd[s].at, "ok") \in SndT /\ Coro(snd[s].at, "error") \in SndT
      BY CoroNames
    <3>3. PICK d \in SndT : snd' = Set(snd, s, d)
      BY <1>8, <3>1, <3>2 DEF WriteDone, WriteBreaks, HeartBeatDue
    <3> QED BY <3>3 DEF Set, Types, SessionTypes
  <2>2. writing' \in [Session -> Seq(Call)] /\ sent' \in [Session -> SUBSET Call]
    <3>1. {writing[s][i] : i \in DOMAIN writing[s]} \subseteq Call /\ <<>> \in Seq(Call)
      BY DEF Types, DataTypes
    <3>2. writing' = writing \/ writing' = Set(writing, s, <<>>)
      BY <1>8 DEF WriteDone, WriteBreaks, HeartBeatDue
    <3>3. sent' = sent \/ sent' = [sent EXCEPT ![s] = @ \cup {writing[s][i] : i \in DOMAIN writing[s]}]
      BY <1>8 DEF WriteDone, WriteBreaks, HeartBeatDue
    <3>4. writing' \in [Session -> Seq(Call)]
      BY <3>1, <3>2 DEF Set, Types, DataTypes
    <3>5. sent' \in [Session -> SUBSET Call]
      BY <3>1, <3>3 DEF Types, DataTypes
    <3> QED BY <3>4, <3>5
  <2> QED BY <1>8, <2>1, <2>2
          DEF WriteDone, WriteBreaks, HeartBeatDue, Types, CallTypes, SessionTypes, DataTypes
<1>9. ASSUME NEW s \in Session, ReadDone(s) \/ ReadBreaks(s) PROVE Types'
  <2>1. rcv' \in [Session -> RcvT]
    BY <1>9, CoroNames DEF ReadDone, ReadBreaks, Set, Types, SessionTypes
  <2>2. batch' \in [Session -> Seq(Call)] /\ replies' \in [Session -> Seq(Call)]
    <3>1. \/ batch' = batch /\ replies' = replies
          \/ batch' = Set(batch, s, replies[s]) /\ replies' = Set(replies, s, <<>>)
      BY <1>9 DEF ReadDone, ReadBreaks
    <3>2. replies[s] \in Seq(Call) /\ <<>> \in Seq(Call)
      BY DEF Types, DataTypes
    <3>3. batch' \in [Session -> Seq(Call)]
      BY <3>1, <3>2 DEF Set, Types, DataTypes
    <3>4. replies' \in [Session -> Seq(Call)]
      BY <3>1, <3>2 DEF Set, Types, DataTypes
    <3> QED BY <3>3, <3>4
  <2> QED BY <1>9, <2>1, <2>2 DEF ReadDone, ReadBreaks, Types, CallTypes, SessionTypes, DataTypes
<1>10. ASSUME NEW s \in Session, DeliverSock(s) PROVE Types'
  <2>1. sockQ' \in [Session -> Seq(SockH)]
    BY <1>10, Names DEF DeliverSock, Types, SessionTypes
  <2> QED BY <1>10, <2>1 DEF DeliverSock, Types, CallTypes, SessionTypes, DataTypes
<1>11. ASSUME NEW s \in Session, NEW c \in Call, NEW code \in ReplyCode[c], ServerAnswers(s, c, code)
      PROVE  Types'
  <2>1. replies' \in [Session -> Seq(Call)] /\ answered' \subseteq Call /\ answer' \in [Call -> Code]
    <3>1. replies[s] \in Seq(Call) /\ Append(replies[s], c) \in Seq(Call)
      BY DEF Types, DataTypes
    <3>2. replies' \in [Session -> Seq(Call)]
      BY <1>11, <3>1 DEF ServerAnswers, Types, DataTypes
    <3>3. answer' \in [Call -> Code]
      BY <1>11, ReplyCodeAssumption DEF ServerAnswers, Set, Types, DataTypes
    <3> QED BY <1>11, <3>2, <3>3 DEF ServerAnswers, Types, DataTypes
  <2> QED BY <1>11, <2>1 DEF ServerAnswers, Types, CallTypes, SessionTypes, DataTypes
<1>12. CASE UNCHANGED vars
  BY <1>12 DEF vars, Types, CallTypes, SessionTypes, DataTypes
<1> QED
  BY <1>1, <1>2, <1>3, <1>4, <1>5, <1>6, <1>7, <1>8, <1>9, <1>10, <1>11, <1>12, SockStrandTypes
  DEF Next, SessionStep

LEMMA TypesInit == Init => Types
<1> SUFFICES ASSUME Init PROVE Types
  OBVIOUS
<1>1. CallTypes
  BY DEF Init, CallTypes, Code
<1>2. SessionTypes
  BY CoroNames, MaxSessionAssumption DEF Init, SessionTypes
<1>3. DataTypes
  BY DEF Init, DataTypes, Code
<1> QED BY <1>1, <1>2, <1>3 DEF Types

LEMMA AlwaysTypes == Spec => []Types
<1> QED BY TypesInit, TypesStep, PTL DEF Spec

(***************************************************************************)
(* Type correctness: among others, an operation of a session completes in  *)
(* no other way than its coroutine expects.                                *)
(***************************************************************************)
THEOREM TypeCorrect == Spec => []TypeOK
<1> QED BY AlwaysTypes, TypesImplyTypeOK, PTL

-----------------------------------------------------------------------------
(***************************************************************************)
(* One session runs at a time: only the current one does, and it is        *)
(* replaced on mgr_strand_ when it has stopped.                            *)
(***************************************************************************)
OnlyCurRuns == \A s \in Session : srun[s] => s = cur

LEMMA LeaveClears ==
  ASSUME Types, NEW s \in Session, NEW k, NEW d, NEW r, LeaveAndStop(s, k, d, r)
  PROVE  \A x \in Session : srun'[x] => srun[x]
BY DEF LeaveAndStop, Set, Types, SessionTypes

\* The steps that start no session and leave mgr_strand_ to others.
LEMMA SessionSteps ==
  ASSUME Types, [Next]_vars,
         ~Create, ~ClientStop, ~Stop, ~\E s \in Session \cup {NoSession} : DispatchStop(s)
  PROVE  /\ run' = run /\ cur' = cur /\ stopDue' = stopDue
         /\ mgrQ' = mgrQ \/ \E c \in Call : mgrQ' = Append(mgrQ, HC("create", c))
         /\ \A x \in Session : srun'[x] => srun[x]
<1> USE DEF client, calls, queues, coros, data, net
<1>1. ASSUME NEW c \in Call, Invoke(c) \/ CallStep(c) \/ DeadlinePasses(c)
      PROVE  /\ run' = run /\ cur' = cur /\ stopDue' = stopDue /\ srun' = srun
             /\ mgrQ' = mgrQ \/ mgrQ' = Append(mgrQ, HC("create", c))
  BY <1>1 DEF Invoke, CallStep, TrySession, TryStopped, TryCreate, SpawnCreate, WaitTimesOut,
              DeliverOver, DeadlinePasses
<1>2. ASSUME NEW s \in Session, SockStrand(s)
      PROVE  /\ run' = run /\ cur' = cur /\ stopDue' = stopDue /\ mgrQ' = mgrQ
             /\ \A x \in Session : srun'[x] => srun[x]
  <2>1. run' = run /\ cur' = cur /\ stopDue' = stopDue /\ mgrQ' = mgrQ
    BY <1>2 DEF SockStrand, StartConnect, Connected, ConnectFailed, SendWrite, SendWait, SendHeartBeat,
                SendExit, RecvReplies, RecvExit, Merge, Merged, SockStop
  <2>2. CASE ConnectFailed(s) \/ SendExit(s) \/ RecvExit(s)
    BY <2>1, <2>2, LeaveClears DEF ConnectFailed, SendExit, RecvExit
  <2>3. CASE ~(ConnectFailed(s) \/ SendExit(s) \/ RecvExit(s))
    BY <1>2, <2>1, <2>3 DEF SockStrand, StartConnect, Connected, SendWrite, SendWait, SendHeartBeat,
                RecvReplies, Merge, Merged, SockStop
  <2> QED BY <2>2, <2>3
<1>3. ASSUME NEW s \in Session, HndStrand(s)
      PROVE  run' = run /\ cur' = cur /\ stopDue' = stopDue /\ mgrQ' = mgrQ /\ srun' = srun
  BY <1>3 DEF HndStrand, BeginCall, AwaitReply, HandleReply, EndCall
<1>4. ASSUME NEW s \in Session, ConnectDone(s) \/ ConnectBreaks(s) \/ WriteDone(s) \/ WriteBreaks(s)
                                \/ ReadDone(s) \/ ReadBreaks(s) \/ HeartBeatDue(s) \/ DeliverSock(s)
      PROVE  run' = run /\ cur' = cur /\ stopDue' = stopDue /\ mgrQ' = mgrQ /\ srun' = srun
  BY <1>4 DEF ConnectDone, ConnectBreaks, WriteDone, WriteBreaks, ReadDone, ReadBreaks, HeartBeatDue,
              DeliverSock
<1>5. ASSUME NEW s \in Session, NEW c \in Call, NEW code \in ReplyCode[c], ServerAnswers(s, c, code)
      PROVE  run' = run /\ cur' = cur /\ stopDue' = stopDue /\ mgrQ' = mgrQ /\ srun' = srun
  BY <1>5 DEF ServerAnswers
<1>6. CASE (\E x \in UserDone : Done(x)) \/ UNCHANGED vars
  BY <1>6 DEF Done, vars
<1> QED BY <1>1, <1>2, <1>3, <1>4, <1>5, <1>6 DEF Next, SessionStep

LEMMA OnlyCurStep == Types /\ OnlyCurRuns /\ [Next]_vars => OnlyCurRuns'
<1> SUFFICES ASSUME Types, OnlyCurRuns, [Next]_vars PROVE OnlyCurRuns'
  OBVIOUS
<1> USE DEF OnlyCurRuns, client, calls, queues, coros, data, net
<1>1. CASE Create
  <2>1. CASE MustCreate
    <3>1. /\ cur' = made + 1 /\ made + 1 \in Session /\ srun' = Set(srun, made + 1, TRUE)
      BY <1>1, <2>1 DEF Create
    <3>2. \A s \in Session : ~srun[s]
      BY <2>1 DEF MustCreate, Usable, NoSession, Session
    <3> QED BY <3>1, <3>2 DEF Set, Types, SessionTypes
  <2>2. CASE ~MustCreate
    BY <1>1, <2>2 DEF Create
  <2> QED BY <2>1, <2>2
<1>2. CASE ClientStop
  BY <1>2 DEF ClientStop, Set, Types, SessionTypes
<1>3. CASE Stop \/ \E s \in Session \cup {NoSession} : DispatchStop(s)
  BY <1>3 DEF Stop, DispatchStop
<1> QED BY <1>1, <1>2, <1>3, SessionSteps

LEMMA AlwaysOnlyCur == Spec => []OnlyCurRuns
<1>1. Init => OnlyCurRuns
  BY DEF Init, OnlyCurRuns
<1> QED BY <1>1, OnlyCurStep, AlwaysTypes, PTL DEF Spec

(***************************************************************************)
(* However many sessions stop and are made again, and whoever finds the    *)
(* session stopped, two never run at a time.                               *)
(***************************************************************************)
THEOREM OneSessionRuns == Spec => []OneRunningSession
<1>1. OnlyCurRuns => OneRunningSession
  <2> SUFFICES ASSUME OnlyCurRuns PROVE OneRunningSession
    OBVIOUS
  <2> DEFINE R == {s \in Session : srun[s]}
  <2>1. R \subseteq {cur}
    BY DEF OnlyCurRuns
  <2>2. IsFiniteSet({cur}) /\ Cardinality({cur}) = 1
    BY FS_Singleton
  <2>3. Cardinality(R) <= Cardinality({cur})
    BY <2>1, <2>2, FS_Subset
  <2> QED BY <2>2, <2>3 DEF OneRunningSession
<1> QED BY <1>1, AlwaysOnlyCur, PTL

-----------------------------------------------------------------------------
(***************************************************************************)
(* No session runs after the client's stop handler: the handler stops the  *)
(* current session, a coroutine that was waiting for mgr_strand_ finds     *)
(* run_flag_ cleared and makes none.                                       *)
(***************************************************************************)
\* What stays queued behind the front, and what an addition changes.
LEMMA MgrQueue ==
  ASSUME Types
  PROVE  /\ mgrQ # <<>> /\ Head(mgrQ).h = "create" =>
              (Queued(Tail(mgrQ), H("stop")) <=> Queued(mgrQ, H("stop")))
         /\ \A c : Queued(Append(mgrQ, HC("create", c)), H("stop")) <=> Queued(mgrQ, H("stop"))
         /\ Queued(Append(mgrQ, H("stop")), H("stop"))
<1>1. Len(mgrQ) \in Nat /\ DOMAIN mgrQ = 1..Len(mgrQ)
  BY DEF Types, SessionTypes
<1>2. \A x : /\ DOMAIN Append(mgrQ, x) = 1..(Len(mgrQ) + 1)
             /\ Append(mgrQ, x)[Len(mgrQ) + 1] = x
             /\ \A i \in 1..Len(mgrQ) : Append(mgrQ, x)[i] = mgrQ[i]
  BY <1>1 DEF Types, SessionTypes
<1>3. H("stop").h = "stop" /\ \A c : HC("create", c) # H("stop")
  <2>1. H("stop").h = "stop" /\ \A c : HC("create", c).h = "create"
    BY Names
  <2> QED BY <2>1
<1>4. ASSUME mgrQ # <<>>, Head(mgrQ).h = "create"
      PROVE  Queued(Tail(mgrQ), H("stop")) <=> Queued(mgrQ, H("stop"))
  <2> DEFINE t == Tail(mgrQ)
  <2>1. /\ DOMAIN t = 1..(Len(mgrQ) - 1) /\ \A i \in 1..(Len(mgrQ) - 1) : t[i] = mgrQ[i + 1]
        /\ mgrQ[1] # H("stop")
    BY <1>1, <1>3, <1>4 DEF Types, SessionTypes
  <2> HIDE DEF t
  <2>2. ASSUME NEW i \in DOMAIN mgrQ, mgrQ[i] = H("stop") PROVE Queued(t, H("stop"))
    <3>1. i - 1 \in DOMAIN t /\ t[i - 1] = H("stop")
      BY <1>1, <2>1, <2>2
    <3> QED BY <3>1 DEF Queued
  <2>3. ASSUME NEW i \in DOMAIN t, t[i] = H("stop") PROVE Queued(mgrQ, H("stop"))
    <3>1. i + 1 \in DOMAIN mgrQ /\ mgrQ[i + 1] = H("stop")
      BY <1>1, <2>1, <2>3
    <3> QED BY <3>1 DEF Queued
  <2> QED BY <2>2, <2>3 DEF Queued, t
<1>5. \A c : Queued(Append(mgrQ, HC("create", c)), H("stop")) <=> Queued(mgrQ, H("stop"))
  BY <1>1, <1>2, <1>3 DEF Queued
<1>6. Queued(Append(mgrQ, H("stop")), H("stop"))
  <2>1. Len(mgrQ) + 1 \in DOMAIN Append(mgrQ, H("stop"))
    BY <1>1, <1>2
  <2> QED BY <1>2, <2>1 DEF Queued
<1> QED BY <1>4, <1>5, <1>6

LEMMA StoppedStep == Types /\ OnlyCurRuns /\ NoSessionAfterStop /\ [Next]_vars => NoSessionAfterStop'
<1> SUFFICES ASSUME Types, OnlyCurRuns, NoSessionAfterStop, [Next]_vars, Stopped'
             PROVE  \A s \in Session : ~srun'[s]
  BY DEF NoSessionAfterStop
<1> USE DEF Stopped, client, calls, queues, coros, data, net
<1>1. CASE Create
  <2>1. srun' = srun
    BY <1>1 DEF Create, MustCreate
  <2>2. Stopped
    BY <1>1, MgrQueue DEF Create
  <2> QED BY <2>1, <2>2 DEF NoSessionAfterStop
<1>2. CASE ClientStop
  <2>1. ASSUME NEW s \in Session, srun'[s] PROVE FALSE
    <3>1. srun[s] /\ s = cur
      BY <1>2, <2>1 DEF ClientStop, OnlyCurRuns, Set, Types, SessionTypes
    <3>2. Usable
      BY <3>1 DEF Usable, Session, NoSession
    <3> QED BY <1>2, <2>1, <3>1, <3>2 DEF ClientStop, Set, Types, SessionTypes
  <2> QED BY <2>1
<1>3. CASE Stop
  BY <1>3 DEF Stop
<1>4. ASSUME NEW s \in Session \cup {NoSession}, DispatchStop(s) PROVE \A x \in Session : ~srun'[x]
  <2>1. CASE s = NoSession
    BY <1>4, <2>1, MgrQueue DEF DispatchStop
  <2>2. CASE s # NoSession
    BY <1>4, <2>2 DEF DispatchStop, NoSessionAfterStop
  <2> QED BY <2>1, <2>2
<1>5. CASE ~Create /\ ~ClientStop /\ ~Stop /\ ~\E s \in Session \cup {NoSession} : DispatchStop(s)
  <2>1. Queued(mgrQ', H("stop")) <=> Queued(mgrQ, H("stop"))
    <3>1. mgrQ' = mgrQ \/ \E c \in Call : mgrQ' = Append(mgrQ, HC("create", c))
      BY <1>5, SessionSteps
    <3> QED BY <3>1, MgrQueue
  <2>2. Stopped
    BY <1>5, <2>1, SessionSteps
  <2> QED BY <1>5, <2>2, SessionSteps DEF NoSessionAfterStop
<1> QED BY <1>1, <1>2, <1>3, <1>4, <1>5

(***************************************************************************)
(* A session that is made concurrently with Stop is found by the stop      *)
(* handler, for every number of calls and sessions.                        *)
(***************************************************************************)
THEOREM StopLeavesNoSession == Spec => []NoSessionAfterStop
<1>1. Init => NoSessionAfterStop
  BY DEF Init, NoSessionAfterStop
<1> QED BY <1>1, StoppedStep, AlwaysTypes, AlwaysOnlyCur, PTL DEF Spec

-----------------------------------------------------------------------------
(***************************************************************************)
(* The wake-up of the send coroutine.                                      *)
(***************************************************************************)
\* What closing the socket of session s does to the coroutines.
LEMMA CloseEffect ==
  ASSUME Types, NEW s \in Session, NEW k \in ConT, NEW d \in SndT, NEW r \in RcvT,
         CloseSocket(s, k, d, r) \/ LeaveAndStop(s, k, d, r)
  PROVE  /\ \A x \in Session \ {s} : con'[x] = con[x] /\ snd'[x] = snd[x] /\ rcv'[x] = rcv[x]
         /\ con'[s] = k \/ (Awaits(k, "connect") /\ con'[s] = Coro("connect", "error"))
         /\ \/ snd'[s] = d
            \/ /\ d.at \in {"wait", "write", "beat"} /\ d.op = "none" /\ snd'[s].at = d.at
               /\ snd'[s].op \in {"cancel", "error"}
         /\ rcv'[s] = r \/ (Awaits(r, "read") /\ rcv'[s] = Coro("read", "error"))
<1> USE DEF Set, Types, SessionTypes
<1>1. CASE CloseSocket(s, k, d, r)
  <2>1. /\ \A x \in Session \ {s} : con'[x] = con[x] /\ snd'[x] = snd[x] /\ rcv'[x] = rcv[x]
        /\ con'[s] = IF Awaits(k, "connect") THEN Coro("connect", "error") ELSE k
        /\ rcv'[s] = IF Awaits(r, "read") THEN Coro("read", "error") ELSE r
    BY <1>1 DEF CloseSocket
  <2>2. snd'[s] = IF Awaits(d, "wait") THEN Coro("wait", "cancel")
                  ELSE IF d.at \in {"write", "beat"} /\ d.op = "none" THEN Coro(d.at, "error") ELSE d
    BY <1>1 DEF CloseSocket
  <2>3. \/ snd'[s] = d
        \/ /\ d.at \in {"wait", "write", "beat"} /\ d.op = "none" /\ snd'[s].at = d.at
           /\ snd'[s].op \in {"cancel", "error"}
    <3>1. CASE Awaits(d, "wait")
      BY <2>2, <3>1, CoroNames DEF Awaits
    <3>2. CASE ~Awaits(d, "wait") /\ d.at \in {"write", "beat"} /\ d.op = "none"
      BY <2>2, <3>2, CoroNames
    <3>3. CASE ~Awaits(d, "wait") /\ ~(d.at \in {"write", "beat"} /\ d.op = "none")
      BY <2>2, <3>3
    <3> QED BY <3>1, <3>2, <3>3
  <2>4. con'[s] = k \/ (Awaits(k, "connect") /\ con'[s] = Coro("connect", "error"))
    BY <2>1
  <2>5. rcv'[s] = r \/ (Awaits(r, "read") /\ rcv'[s] = Coro("read", "error"))
    BY <2>1
  <2> HIDE DEF Set, Types, SessionTypes
  <2> QED BY <2>1, <2>3, <2>4, <2>5
<1>2. CASE LeaveAndStop(s, k, d, r) /\ ~srun[s]
  <2>1. /\ \A x \in Session \ {s} : con'[x] = con[x] /\ snd'[x] = snd[x] /\ rcv'[x] = rcv[x]
        /\ con'[s] = k /\ snd'[s] = d /\ rcv'[s] = r
    BY <1>2 DEF LeaveAndStop
  <2> HIDE DEF Set, Types, SessionTypes
  <2> QED BY <2>1
<1>3. LeaveAndStop(s, k, d, r) /\ srun[s] => CloseSocket(s, k, d, r)
  BY DEF LeaveAndStop
<1> QED BY <1>1, <1>2, <1>3

LEMMA AsleepStep == Types /\ NothingToSendAsleep /\ [Next]_vars => NothingToSendAsleep'
<1> SUFFICES ASSUME Types, NothingToSendAsleep, [Next]_vars PROVE NothingToSendAsleep'
  OBVIOUS
<1> USE DEF client, calls, queues, coros, data, net
<1>a. ASSUME buf' = buf, \A x \in Session : snd'[x] = snd[x] \/ ~Awaits(snd'[x], "wait")
      PROVE  NothingToSendAsleep'
  BY <1>a DEF NothingToSendAsleep, Awaits
<1>b. \A x \in Session : con[x] \in ConT /\ snd[x] \in SndT /\ rcv[x] \in RcvT
  BY DEF Types, SessionTypes
<1>c. Ended \in ConT /\ Ended \in SndT /\ Ended \in RcvT /\ ~Awaits(Ended, "wait")
  BY CoroNames DEF Awaits
<1>1. ASSUME NEW s \in Session, SockStrand(s) PROVE NothingToSendAsleep'
  <2>1. CASE StartConnect(s) \/ RecvReplies(s) \/ Merged(s)
    BY <1>a, <2>1 DEF StartConnect, RecvReplies, Merged
  <2>2. CASE Connected(s) \/ SendHeartBeat(s)
    <3>1. PICK d \in SndT : snd' = Set(snd, s, d) /\ ~Awaits(d, "wait")
      BY <2>2, CoroNames DEF Connected, SendHeartBeat, Awaits
    <3>2. buf' = buf
      BY <2>2 DEF Connected, SendHeartBeat
    <3> QED BY <1>a, <3>1, <3>2 DEF Set, Types, SessionTypes
  <2>3. CASE ConnectFailed(s) \/ SendExit(s) \/ RecvExit(s) \/ SockStop(s)
    <3>1. PICK k \in ConT, d \in SndT, r \in RcvT :
            /\ CloseSocket(s, k, d, r) \/ LeaveAndStop(s, k, d, r)
            /\ d = snd[s] \/ d = Ended
      BY <1>b, <1>c, <2>3 DEF ConnectFailed, SendExit, RecvExit, SockStop
    <3>2. /\ \A x \in Session \ {s} : snd'[x] = snd[x]
          /\ snd'[s] = d \/ snd'[s].op \in {"cancel", "error"}
      BY <3>1, CloseEffect
    <3>3. snd'[s] = snd[s] \/ ~Awaits(snd'[s], "wait")
      BY <1>c, <3>1, <3>2, CoroNames DEF Awaits
    <3>4. buf' = buf
      BY <2>3 DEF ConnectFailed, SendExit, RecvExit, SockStop
    <3> QED BY <1>a, <3>2, <3>3, <3>4
  <2>4. CASE SendWrite(s)
    <3>1. snd' = Set(snd, s, Coro("write", "none")) /\ buf' = Set(buf, s, <<>>)
      BY <2>4 DEF SendWrite
    <3> QED BY <3>1, CoroNames DEF NothingToSendAsleep, Awaits, Set, Types, SessionTypes, DataTypes
  <2>5. CASE SendWait(s)
    <3>1. snd' = Set(snd, s, Coro("wait", "none")) /\ buf' = buf /\ buf[s] = <<>>
      BY <2>5 DEF SendWait
    <3> QED BY <3>1 DEF NothingToSendAsleep, Awaits, Set, Types, SessionTypes
  <2>6. CASE Merge(s)
    <3>1. /\ snd' = Set(snd, s, Woken(snd[s]))
          /\ buf' = [buf EXCEPT ![s] = Append(@, Head(sockQ[s]).call)]
      BY <2>6 DEF Merge
    <3>2. ~Awaits(Woken(snd[s]), "wait")
      BY CoroNames DEF Woken, Awaits
    <3>3. ~Awaits(snd'[s], "wait") /\ \A x \in Session \ {s} : snd'[x] = snd[x] /\ buf'[x] = buf[x]
      BY <3>1, <3>2 DEF Set, Types, SessionTypes, DataTypes
    <3> QED BY <3>3 DEF NothingToSendAsleep, Awaits
  <2> QED BY <1>1, <2>1, <2>2, <2>3, <2>4, <2>5, <2>6 DEF SockStrand
<1>2. ASSUME NEW c \in Call, Invoke(c) \/ CallStep(c) \/ DeadlinePasses(c) PROVE NothingToSendAsleep'
  <2>1. buf' = buf /\ snd' = snd
    BY <1>2 DEF Invoke, CallStep, TrySession, TryStopped, TryCreate, SpawnCreate, WaitTimesOut,
                DeliverOver, DeadlinePasses
  <2> QED BY <1>a, <2>1
<1>3. CASE Create \/ Stop \/ ClientStop \/ (\E s \in Session \cup {NoSession} : DispatchStop(s))
           \/ \E x \in UserDone : Done(x)
  <2>1. buf' = buf /\ snd' = snd
    BY <1>3 DEF Create, Stop, ClientStop, DispatchStop, Done
  <2> QED BY <1>a, <2>1
<1>4. ASSUME NEW s \in Session, HndStrand(s) \/ ConnectDone(s) \/ ConnectBreaks(s) \/ ReadDone(s)
                                \/ ReadBreaks(s) \/ DeliverSock(s)
      PROVE  NothingToSendAsleep'
  <2>1. buf' = buf /\ snd' = snd
    BY <1>4 DEF HndStrand, BeginCall, AwaitReply, HandleReply, EndCall, ConnectDone, ConnectBreaks,
                ReadDone, ReadBreaks, DeliverSock
  <2> QED BY <1>a, <2>1
<1>5. ASSUME NEW s \in Session, WriteDone(s) \/ WriteBreaks(s) \/ HeartBeatDue(s)
      PROVE  NothingToSendAsleep'
  <2>1. PICK a, o : snd' = Set(snd, s, Coro(a, o)) /\ o # "none"
    BY <1>5 DEF WriteDone, WriteBreaks, HeartBeatDue
  <2>2. buf' = buf
    BY <1>5 DEF WriteDone, WriteBreaks, HeartBeatDue
  <2>3. ~Awaits(snd'[s], "wait") /\ \A x \in Session \ {s} : snd'[x] = snd[x]
    BY <2>1, CoroNames DEF Awaits, Set, Types, SessionTypes
  <2> QED BY <1>a, <2>2, <2>3
<1>6. ASSUME NEW s \in Session, NEW c \in Call, NEW code \in ReplyCode[c], ServerAnswers(s, c, code)
      PROVE  NothingToSendAsleep'
  BY <1>6, <1>a DEF ServerAnswers
<1>7. CASE UNCHANGED vars
  BY <1>7, <1>a DEF vars
<1> QED BY <1>1, <1>2, <1>3, <1>4, <1>5, <1>6, <1>7 DEF Next, SessionStep

(***************************************************************************)
(* In every session and for every set of calls: a sender that sleeps has   *)
(* nothing to send (Merge and the cancellation of its wait are one         *)
(* handler, the test of the buffer and the start of the wait another).     *)
(***************************************************************************)
THEOREM SenderIsWoken == Spec => []NothingToSendAsleep
<1>1. Init => NothingToSendAsleep
  BY DEF Init, NothingToSendAsleep
<1> QED BY <1>1, AsleepStep, AlwaysTypes, PTL DEF Spec

-----------------------------------------------------------------------------
(***************************************************************************)
(* The calls: every status is deserved (the refinement of RpcCalls) and a  *)
(* reply finds its call waiting.  Both rest on where a call's coroutine is *)
(* (Turns), on where its request is (Places), and on the order in which    *)
(* the strands run what a request and its reply leave behind               *)
(* (RepliesFollow).                                                        *)
(***************************************************************************)
SockName == {"merge", "merged"}
Name == {"begin", "sent", "over", "reply"} \cup SockName

\* The calls that have a handler n queued in session s.
At(n, s) == {c \in Call : HC(n, c) \in Range(IF n \in SockName THEN sockQ[s] ELSE hndQ[s])}

(***************************************************************************)
(* A handler that continues a coroutine is queued once.                    *)
(***************************************************************************)
SockTurn == {H("rcv")} \cup [h : SockName, call : Call]
HndTurn == [h : {"begin", "sent", "over"}, call : Call]

Single == \A s \in Session : Once(sockQ[s], SockTurn) /\ Once(hndQ[s], HndTurn)

(***************************************************************************)
(* A call that is in a session has exactly one turn: one of the handlers   *)
(* that lead to its wait is queued, or it waits.                           *)
(***************************************************************************)
Turn == {"begin", "merge", "merged", "sent"}

Turns ==
  /\ \A c \in Call : pc[c] = "call" => /\ on[c] \in Session
                                       /\ tm[c] # "new" \/ \E n \in Turn, s \in Session : c \in At(n, s)
  /\ \A n \in Turn, s \in Session : \A c \in At(n, s) : pc[c] = "call" /\ on[c] = s /\ tm[c] = "new"
  /\ \A s \in Session, n, m \in Turn : n # m => At(n, s) \cap At(m, s) = {}
  /\ \A s \in Session : \A c \in At("over", s) : tm[c] \in {"fired", "cancel"} /\ on[c] = s
  /\ \A c \in Call : tm[c] # "new" => pc[c] = "call"

(***************************************************************************)
(* Nothing refers to a session that was not made, and nothing is written   *)
(* before it is connected.                                                 *)
(***************************************************************************)
Begun(s) ==
  /\ s > made => con[s] = Ended /\ snd[s] = Ended /\ rcv[s] = Ended /\ writing[s] = <<>>
  /\ con[s].at # "end" => snd[s] = Ended /\ rcv[s] = Ended /\ writing[s] = <<>>
  /\ writing[s] # <<>> => snd[s].at \in {"write", "end"} /\ snd[s].op # "ok"

Fresh ==
  /\ cur <= made /\ \A c \in Call : on[c] <= made
  /\ \A s \in Session : Begun(s)

\* No handler of a receive coroutine is queued while its read is in progress.
ReadsAlone == \A s \in Session : H("rcv") \in Range(sockQ[s]) => rcv[s].op # "none"

\* A call whose coroutine is on mgr_strand_ waits for it, and is there once.
CreateH == [h : {"create"}, call : Call]
Created ==
  /\ Once(mgrQ, CreateH)
  /\ \A c \in Call : HC("create", c) \in Range(mgrQ) => pc[c] = "create"

(***************************************************************************)
(* A request is in one place: not yet merged, in the send buffer, in the   *)
(* write in progress, at the server, or answered.                          *)
(***************************************************************************)
Early(s) == At("begin", s) \cup At("merge", s)
Flying(s) == IF snd[s] = Coro("write", "none") THEN Range(writing[s]) ELSE {}

Places ==
  /\ \A c \in answered : pc[c] \in {"call", "done"}
  /\ \A s \in Session :
       /\ \A c \in Range(buf[s]) \cup Flying(s) \cup sent[s] : on[c] = s /\ pc[c] \in {"call", "done"}
       /\ Early(s) \cap (Range(buf[s]) \cup Flying(s) \cup sent[s] \cup answered) = {}
       /\ Range(buf[s]) \cap (Flying(s) \cup sent[s] \cup answered) = {}
       /\ Flying(s) \cap (sent[s] \cup answered) = {}
       /\ sent[s] \cap answered = {}

(***************************************************************************)
(* A call that has not returned has the status of its reply or none, a     *)
(* wait ends by the deadline or by a reply, and every reply is an answer   *)
(* of the server.                                                          *)
(***************************************************************************)
Told(c) == IF got[c] THEN answer[c] ELSE "OK"

Deserved ==
  /\ \A c \in Call : /\ pc[c] # "done" => status[c] = Told(c)
                     /\ tm[c] = "fired" => c \in late
                     /\ tm[c] = "cancel" => got[c]
                     /\ got[c] => pc[c] \in {"call", "done"} /\ c \in answered
  /\ \A s \in Session : /\ \A c \in waiting[s] : pc[c] = "call" /\ on[c] = s
                        /\ At("reply", s) \cup Range(batch[s]) \cup Range(replies[s]) \subseteq answered

(***************************************************************************)
(* The two strands bring a call to its wait before they bring its reply.   *)
(***************************************************************************)
RepliesFollow ==
  \A s \in Session :
    /\ \A c \in Range(batch[s]) : Before(sockQ[s], HC("merged", c), H("rcv"))
    /\ At("reply", s) \cap At("merged", s) = {}
    /\ \A c \in Call : Before(hndQ[s], HC("sent", c), HC("reply", c))

-----------------------------------------------------------------------------
(***************************************************************************)
(* What the steps do to the handlers of the calls.                         *)
(***************************************************************************)
LEMMA TurnNames ==
  /\ \A n, m, c, d : HC(n, c) = HC(m, d) <=> n = m /\ c = d
  /\ \A n \in {"con", "snd", "rcv", "stop"} : \A m \in SockName, c \in Call : H(n) # HC(m, c)
  /\ \A n \in SockName, c \in Call : HC(n, c) \in SockTurn /\ HC(n, c) \in SockH
  /\ \A n \in {"begin", "sent", "over"}, c \in Call : HC(n, c) \in HndTurn
  /\ \A c \in Call : HC("reply", c) \notin HndTurn
  /\ \A n \in {"con", "snd", "stop"} : H(n) \notin SockTurn
  /\ H("rcv") \in SockTurn
<1>1. \A n, m, c, d : HC(n, c) = HC(m, d) <=> n = m /\ c = d
  <2>1. \A n, c : HC(n, c).h = n /\ HC(n, c).call = c
    BY Names
  <2> QED BY <2>1
<1>2. \A n \in {"con", "snd", "rcv", "stop"} : \A m \in SockName, c \in Call : H(n) # HC(m, c)
  <2>1. \A n \in {"con", "snd", "rcv", "stop"} : H(n).h = n
    BY Names
  <2>2. \A m \in SockName, c \in Call : HC(m, c).h = m
    BY Names
  <2> QED BY <2>1, <2>2 DEF SockName
<1>3. \A n \in SockName, c \in Call : HC(n, c) \in SockTurn /\ HC(n, c) \in SockH
  BY DEF HC, SockTurn, SockName, SockH
<1>4. /\ \A n \in {"begin", "sent", "over"}, c \in Call : HC(n, c) \in HndTurn
      /\ \A c \in Call : HC("reply", c) \notin HndTurn
  BY DEF HC, HndTurn
<1>5. \A n \in {"con", "snd", "stop"} : H(n) \notin SockTurn
  <2>1. \A n \in {"con", "snd", "rcv", "stop"} : H(n).h = n
    BY Names
  <2>2. \A x \in SockTurn : x.h = "rcv" \/ x.h \in SockName
    BY <2>1 DEF SockTurn
  <2> QED BY <2>1, <2>2 DEF SockName
<1>6. H("rcv") \in SockTurn
  BY DEF SockTurn
<1> QED BY <1>1, <1>2, <1>3, <1>4, <1>5, <1>6

\* The front of a strand and what is behind it.
LEMMA SockFront ==
  ASSUME Types, Single, NEW s \in Session, NEW n, OnSock(s, n)
  PROVE  LET h == Head(sockQ[s]) IN
         /\ h \in SockH /\ h.h = n /\ Rest(s) \in Seq(SockH)
         /\ Range(sockQ[s]) = {h} \cup Range(Rest(s))
         /\ Once(Rest(s), SockTurn)
         /\ h \in SockTurn => h \notin Range(Rest(s))
         /\ n \in SockName => h.call \in Call /\ h = HC(n, h.call)
         /\ n \in {"con", "snd", "rcv", "stop"} => h = H(n)
<1>1. /\ sockQ[s] \in Seq(SockH) /\ sockQ[s] # <<>> /\ Head(sockQ[s]) \in SockH
      /\ Head(sockQ[s]).h = n /\ Rest(s) = Tail(sockQ[s]) /\ Rest(s) \in Seq(SockH)
  BY Fronts
<1>2. Once(sockQ[s], SockTurn)
  BY DEF Single
<1>3. /\ Range(sockQ[s]) = {Head(sockQ[s])} \cup Range(Rest(s)) /\ Once(Rest(s), SockTurn)
      /\ Head(sockQ[s]) \in SockTurn => Head(sockQ[s]) \notin Range(Rest(s))
  BY <1>1, <1>2, TailOnce
<1>4. /\ n \in SockName => /\ Head(sockQ[s]).call \in Call
                           /\ Head(sockQ[s]) = HC(n, Head(sockQ[s]).call)
      /\ n \in {"con", "snd", "rcv", "stop"} => Head(sockQ[s]) = H(n)
  BY <1>1, Names DEF SockName
<1> QED BY <1>1, <1>3, <1>4

LEMMA HndFront ==
  ASSUME Types, Single, NEW s \in Session, NEW n, OnHnd(s, n)
  PROVE  LET h == HC(n, HndCall(s)) IN
         /\ HndCall(s) \in Call /\ Head(hndQ[s]) = h
         /\ Range(hndQ[s]) = {h} \cup Range(Tail(hndQ[s])) /\ Tail(hndQ[s]) \in Seq(HndH)
         /\ Once(Tail(hndQ[s]), HndTurn)
         /\ h \in HndTurn => h \notin Range(Tail(hndQ[s]))
<1>1. /\ hndQ[s] \in Seq(HndH) /\ hndQ[s] # <<>> /\ HndCall(s) \in Call
      /\ Head(hndQ[s]) = HC(n, HndCall(s)) /\ Tail(hndQ[s]) \in Seq(HndH)
  BY Fronts
<1>2. Once(hndQ[s], HndTurn)
  BY DEF Single
<1> QED BY <1>1, <1>2, TailOnce

\* Handlers that are no turn of a call, in session s, leave At as it is.
LEMMA SockSame ==
  ASSUME Types, NEW s \in Session, NEW q, sockQ' = Set(sockQ, s, q), hndQ' = hndQ,
         \A n \in SockName, c \in Call : HC(n, c) \in Range(q) <=> HC(n, c) \in Range(sockQ[s])
  PROVE  \A n \in Name, x \in Session : At(n, x)' = At(n, x)
<1>1. \A x \in Session : sockQ'[x] = IF x = s THEN q ELSE sockQ[x]
  BY DEF Set, Types, SessionTypes
<1>2. ASSUME NEW n \in SockName, NEW x \in Session PROVE At(n, x)' = At(n, x)
  BY <1>1, <1>2 DEF At
<1>3. ASSUME NEW n \in Name \ SockName, NEW x \in Session PROVE At(n, x)' = At(n, x)
  BY <1>3 DEF At
<1> QED BY <1>2, <1>3

Unmoved == \A n \in Name, x \in Session : At(n, x)' = At(n, x)

\* Call c of session s gives up its handler n, and takes its next one m.
Passes(c, s, n, m) ==
  /\ c \in At(n, s)
  /\ \A k \in Name, x \in Session :
       At(k, x)' = IF x = s /\ k = n THEN At(k, x) \ {c}
                   ELSE IF x = s /\ k = m THEN At(k, x) \cup {c} ELSE At(k, x)

Takes(c, s, m) ==
  \A k \in Name, x \in Session :
    At(k, x)' = IF x = s /\ k = m THEN At(k, x) \cup {c} ELSE At(k, x)

Quits(c, s, n) ==
  /\ c \in At(n, s)
  /\ \A k \in Name, x \in Session : At(k, x)' = IF x = s /\ k = n THEN At(k, x) \ {c} ELSE At(k, x)

LEMMA SocketStepMoves ==
  ASSUME Types, Single, NEW s \in Session,
         StartConnect(s) \/ Connected(s) \/ ConnectFailed(s) \/ SendWrite(s) \/ SendWait(s)
         \/ SendHeartBeat(s) \/ SendExit(s) \/ RecvExit(s) \/ SockStop(s)
  PROVE  Unmoved
<1> USE DEF queues
<1>1. PICK n \in {"con", "snd", "rcv", "stop"} :
        /\ OnSock(s, n) /\ hndQ' = hndQ
        /\ \/ sockQ' = Set(sockQ, s, Rest(s))
           \/ sockQ' = Set(sockQ, s, Rest(s) \o <<H("snd"), H("rcv")>>)
  <2>1. CASE StartConnect(s) \/ Connected(s) \/ ConnectFailed(s)
    BY <2>1 DEF StartConnect, Connected, ConnectFailed
  <2>2. CASE SendWrite(s) \/ SendWait(s) \/ SendHeartBeat(s) \/ SendExit(s)
    BY <2>2 DEF SendWrite, SendWait, SendHeartBeat, SendExit
  <2>3. CASE RecvExit(s) \/ SockStop(s)
    BY <2>3 DEF RecvExit, SockStop
  <2> QED BY <2>1, <2>2, <2>3
<1>2. /\ Rest(s) \in Seq(SockH) /\ Range(sockQ[s]) = {H(n)} \cup Range(Rest(s))
  BY <1>1, SockFront
<1>3. Range(Rest(s) \o <<H("snd"), H("rcv")>>) = Range(Rest(s)) \cup {H("snd"), H("rcv")}
  <2> DEFINE t == <<H("snd"), H("rcv")>>
  <2>1. t \in Seq(SockH) /\ DOMAIN t = {1, 2} /\ t[1] = H("snd") /\ t[2] = H("rcv")
    BY Names
  <2> HIDE DEF t
  <2>2. Range(t) = {H("snd"), H("rcv")}
    BY <2>1 DEF Range
  <2>3. Range(Rest(s) \o t) = Range(Rest(s)) \cup {H("snd"), H("rcv")}
    BY <1>2, <2>1, <2>2, ConcatOnce
  <2> QED BY <2>3 DEF t
<1>4. PICK q : /\ sockQ' = Set(sockQ, s, q)
               /\ Range(q) \in {Range(Rest(s)), Range(Rest(s)) \cup {H("snd"), H("rcv")}}
  BY <1>1, <1>3
<1>5. \A m \in SockName, c \in Call : HC(m, c) \in Range(q) <=> HC(m, c) \in Range(sockQ[s])
  BY <1>2, <1>4, TurnNames
<1> QED BY <1>1, <1>4, <1>5, SockSame DEF Unmoved

LEMMA MergeMoves ==
  ASSUME Types, Single, NEW s \in Session, Merge(s)
  PROVE  LET c == Head(sockQ[s]).call IN c \in Call /\ Passes(c, s, "merge", "merged")
<1> DEFINE c == Head(sockQ[s]).call
           q == Append(Rest(s), HC("merged", c))
<1>1. /\ c \in Call /\ Rest(s) \in Seq(SockH)
      /\ Range(sockQ[s]) = {HC("merge", c)} \cup Range(Rest(s))
      /\ HC("merge", c) \notin Range(Rest(s))
  <2>1. OnSock(s, "merge")
    BY DEF Merge
  <2> QED BY <2>1, SockFront, TurnNames DEF SockName
<1>2. Range(q) = Range(Rest(s)) \cup {HC("merged", c)}
  BY <1>1, TurnNames, AppendOnce DEF SockName
<1>3. hndQ' = hndQ /\ \A x \in Session : sockQ'[x] = IF x = s THEN q ELSE sockQ[x]
  BY DEF Merge, Set, Types, SessionTypes
<1> HIDE DEF c, q
<1>4. c \in At("merge", s)
  BY <1>1 DEF At, SockName
<1>5. ASSUME NEW k \in Name, NEW x \in Session
      PROVE  At(k, x)' = IF x = s /\ k = "merge" THEN At(k, x) \ {c}
                         ELSE IF x = s /\ k = "merged" THEN At(k, x) \cup {c} ELSE At(k, x)
  <2>1. CASE k \in SockName /\ x = s
    <3>1. At(k, x)' = {d \in Call : HC(k, d) \in Range(q)} /\ At(k, x) = {d \in Call : HC(k, d) \in Range(sockQ[s])}
      BY <1>3, <2>1 DEF At
    <3>2. \A d \in Call : HC(k, d) \in Range(q) <=>
             IF k = "merge" THEN HC(k, d) \in Range(sockQ[s]) /\ d # c ELSE HC(k, d) \in Range(sockQ[s]) \/ d = c
      BY <1>1, <1>2, <2>1, TurnNames DEF SockName
    <3>3. CASE k = "merge"
      BY <2>1, <3>1, <3>2, <3>3
    <3>4. CASE k = "merged"
      BY <1>1, <2>1, <3>1, <3>2, <3>4
    <3> QED BY <2>1, <3>3, <3>4 DEF SockName
  <2>2. CASE ~(k \in SockName /\ x = s)
    BY <1>3, <2>2 DEF At, SockName
  <2> QED BY <2>1, <2>2
<1> QED BY <1>1, <1>4, <1>5 DEF Passes, c

LEMMA MergedMoves ==
  ASSUME Types, Single, NEW s \in Session, Merged(s)
  PROVE  LET c == Head(sockQ[s]).call IN c \in Call /\ Passes(c, s, "merged", "sent")
<1> DEFINE c == Head(sockQ[s]).call
           q == Append(hndQ[s], HC("sent", c))
<1>1. /\ c \in Call /\ Rest(s) \in Seq(SockH)
      /\ Range(sockQ[s]) = {HC("merged", c)} \cup Range(Rest(s))
      /\ HC("merged", c) \notin Range(Rest(s))
  <2>1. OnSock(s, "merged")
    BY DEF Merged
  <2> QED BY <2>1, SockFront, TurnNames DEF SockName
<1>2. Range(q) = Range(hndQ[s]) \cup {HC("sent", c)}
  BY <1>1, Names, AppendOnce DEF Types, SessionTypes
<1>3. /\ \A x \in Session : sockQ'[x] = IF x = s THEN Rest(s) ELSE sockQ[x]
      /\ \A x \in Session : hndQ'[x] = IF x = s THEN q ELSE hndQ[x]
  BY DEF Merged, Set, Types, SessionTypes
<1> HIDE DEF c, q
<1>4. c \in At("merged", s)
  BY <1>1 DEF At, SockName
<1>5. ASSUME NEW k \in Name, NEW x \in Session
      PROVE  At(k, x)' = IF x = s /\ k = "merged" THEN At(k, x) \ {c}
                         ELSE IF x = s /\ k = "sent" THEN At(k, x) \cup {c} ELSE At(k, x)
  <2>1. CASE k \in SockName /\ x = s
    <3>1. At(k, x)' = {d \in Call : HC(k, d) \in Range(Rest(s))} /\ At(k, x) = {d \in Call : HC(k, d) \in Range(sockQ[s])}
      BY <1>3, <2>1 DEF At
    <3>2. \A d \in Call : HC(k, d) \in Range(Rest(s)) <=>
             HC(k, d) \in Range(sockQ[s]) /\ (k = "merged" => d # c)
      BY <1>1, <2>1, TurnNames DEF SockName
    <3> QED BY <2>1, <3>1, <3>2 DEF SockName
  <2>2. CASE k \notin SockName /\ x = s
    <3>1. At(k, x)' = {d \in Call : HC(k, d) \in Range(q)} /\ At(k, x) = {d \in Call : HC(k, d) \in Range(hndQ[s])}
      BY <1>3, <2>2 DEF At
    <3>2. \A d \in Call : HC(k, d) \in Range(q) <=>
             HC(k, d) \in Range(hndQ[s]) \/ (k = "sent" /\ d = c)
      BY <1>2, TurnNames
    <3> QED BY <1>1, <2>2, <3>1, <3>2 DEF SockName
  <2>3. CASE x # s
    BY <1>3, <2>3 DEF At
  <2> QED BY <2>1, <2>2, <2>3
<1> QED BY <1>1, <1>4, <1>5 DEF Passes, c

LEMMA RecvMoves ==
  ASSUME Types, Single, NEW s \in Session, RecvReplies(s)
  PROVE  \A k \in Name, x \in Session :
           At(k, x)' = IF x = s /\ k = "reply" THEN At(k, x) \cup Range(batch[s]) ELSE At(k, x)
<1> DEFINE r == [i \in DOMAIN batch[s] |-> HC("reply", batch[s][i])]
           q == hndQ[s] \o r
<1>1. Range(sockQ[s]) = {H("rcv")} \cup Range(Rest(s))
  BY SockFront DEF RecvReplies
<1>2. batch[s] \in Seq(Call) /\ hndQ[s] \in Seq(HndH) /\ Range(batch[s]) \subseteq Call
  BY DEF Types, SessionTypes, DataTypes, Range
<1>3. r \in Seq(HndH) /\ Range(r) = {HC("reply", c) : c \in Range(batch[s])}
  BY <1>2, RepliesPosted
<1>4. \A x \in Session : hndQ'[x] = IF x = s THEN q ELSE hndQ[x]
  BY DEF RecvReplies, Types, SessionTypes
<1> HIDE DEF r
<1>5. Range(q) = Range(hndQ[s]) \cup {HC("reply", c) : c \in Range(batch[s])}
  BY <1>2, <1>3, ConcatOnce
<1>6. \A x \in Session : sockQ'[x] = IF x = s THEN Rest(s) ELSE sockQ[x]
  BY DEF RecvReplies, Set, Types, SessionTypes
<1> HIDE DEF q
<1>7. ASSUME NEW k \in Name, NEW x \in Session
      PROVE  At(k, x)' = IF x = s /\ k = "reply" THEN At(k, x) \cup Range(batch[s]) ELSE At(k, x)
  <2>1. CASE k \in SockName /\ x = s
    <3>1. At(k, x)' = {d \in Call : HC(k, d) \in Range(Rest(s))} /\ At(k, x) = {d \in Call : HC(k, d) \in Range(sockQ[s])}
      BY <1>6, <2>1 DEF At
    <3>2. \A d \in Call : HC(k, d) \in Range(Rest(s)) <=> HC(k, d) \in Range(sockQ[s])
      BY <1>1, <2>1, TurnNames
    <3> QED BY <2>1, <3>1, <3>2 DEF SockName
  <2>2. CASE k \notin SockName /\ x = s
    <3>1. At(k, x)' = {d \in Call : HC(k, d) \in Range(q)} /\ At(k, x) = {d \in Call : HC(k, d) \in Range(hndQ[s])}
      BY <1>4, <2>2 DEF At
    <3>2. \A d \in Call : HC(k, d) \in Range(q) <=>
             HC(k, d) \in Range(hndQ[s]) \/ (k = "reply" /\ d \in Range(batch[s]))
      BY <1>5, TurnNames
    <3> QED BY <1>2, <2>2, <3>1, <3>2
  <2>3. CASE x # s
    BY <1>4, <1>6, <2>3 DEF At
  <2> QED BY <2>1, <2>2, <2>3
<1> QED BY <1>7

\* A handler of the handle strand leaves it; nothing or a handler that is no
\* turn comes to the socket strand.
LEMMA HndPop ==
  ASSUME Types, Single, NEW s \in Session, NEW n \in {"sent", "over", "reply"}, OnHnd(s, n),
         PopHnd(s), sockQ' = sockQ
  PROVE  /\ HndCall(s) \in At(n, s)
         /\ n # "reply" => Quits(HndCall(s), s, n)
         /\ \A k \in Name \ {n}, x \in Session : At(k, x)' = At(k, x)
         /\ \A x \in Session : At(n, x)' \subseteq At(n, x)
<1> DEFINE c == HndCall(s)
           q == Tail(hndQ[s])
<1>1. /\ c \in Call /\ Range(hndQ[s]) = {HC(n, c)} \cup Range(q)
      /\ n # "reply" => HC(n, c) \notin Range(q)
  BY HndFront, TurnNames
<1>2. \A x \in Session : hndQ'[x] = IF x = s THEN q ELSE hndQ[x]
  BY DEF PopHnd, Set, Types, SessionTypes
<1> HIDE DEF c, q
<1>3. c \in At(n, s)
  BY <1>1 DEF At, SockName
<1>4. n \in Name \ SockName
  BY DEF Name, SockName
<1>5. /\ \A m \in Name \ SockName : At(m, s)' = {d \in Call : HC(m, d) \in Range(q)}
      /\ \A m \in Name \ SockName : At(m, s) = {d \in Call : HC(m, d) \in Range(hndQ[s])}
  BY <1>2 DEF At
<1>6. \A m, d : HC(m, d) \in Range(hndQ[s]) <=> (m = n /\ d = c) \/ HC(m, d) \in Range(q)
  BY <1>1, TurnNames
<1>7. n # "reply" => At(n, s)' = At(n, s) \ {c}
  BY <1>1, <1>4, <1>5, <1>6
<1>8. ASSUME NEW k \in Name, NEW x \in Session
      PROVE  /\ k # n \/ x # s => At(k, x)' = At(k, x)
             /\ At(k, x)' \subseteq At(k, x)
  <2>1. CASE x # s \/ k \in SockName
    <3>1. At(k, x)' = At(k, x)
      BY <1>2, <2>1 DEF At
    <3> QED BY <3>1
  <2>2. CASE x = s /\ k \in Name \ SockName
    <3>1. At(k, s)' \subseteq At(k, s)
      BY <1>5, <1>6, <2>2
    <3>2. k # n => At(k, s)' = At(k, s)
      BY <1>5, <1>6, <2>2
    <3> QED BY <2>2, <3>1, <3>2
  <2> QED BY <2>1, <2>2, <1>8
<1> QED BY <1>3, <1>4, <1>7, <1>8 DEF Quits, c

LEMMA BeginMoves ==
  ASSUME Types, Single, NEW s \in Session, BeginCall(s)
  PROVE  HndCall(s) \in Call /\ Passes(HndCall(s), s, "begin", "merge")
<1> DEFINE c == HndCall(s)
           q == Append(sockQ[s], HC("merge", c))
<1>1. /\ c \in Call /\ Range(hndQ[s]) = {HC("begin", c)} \cup Range(Tail(hndQ[s]))
      /\ HC("begin", c) \notin Range(Tail(hndQ[s]))
  BY HndFront, TurnNames DEF BeginCall
<1>2. Range(q) = Range(sockQ[s]) \cup {HC("merge", c)}
  BY <1>1, Names, AppendOnce DEF Types, SessionTypes
<1>3. /\ \A x \in Session : hndQ'[x] = IF x = s THEN Tail(hndQ[s]) ELSE hndQ[x]
      /\ \A x \in Session : sockQ'[x] = IF x = s THEN q ELSE sockQ[x]
  BY DEF BeginCall, PopHnd, Set, Types, SessionTypes
<1> HIDE DEF c, q
<1>4. c \in At("begin", s)
  BY <1>1 DEF At, SockName
<1>5. ASSUME NEW k \in Name, NEW x \in Session
      PROVE  At(k, x)' = IF x = s /\ k = "begin" THEN At(k, x) \ {c}
                         ELSE IF x = s /\ k = "merge" THEN At(k, x) \cup {c} ELSE At(k, x)
  <2>1. CASE k \in SockName /\ x = s
    <3>1. At(k, x)' = {d \in Call : HC(k, d) \in Range(q)} /\ At(k, x) = {d \in Call : HC(k, d) \in Range(sockQ[s])}
      BY <1>3, <2>1 DEF At
    <3>2. \A d \in Call : HC(k, d) \in Range(q) <=>
             HC(k, d) \in Range(sockQ[s]) \/ (k = "merge" /\ d = c)
      BY <1>2, TurnNames
    <3> QED BY <1>1, <2>1, <3>1, <3>2 DEF SockName
  <2>2. CASE k \notin SockName /\ x = s
    <3>1. At(k, x)' = {d \in Call : HC(k, d) \in Range(Tail(hndQ[s]))} /\ At(k, x) = {d \in Call : HC(k, d) \in Range(hndQ[s])}
      BY <1>3, <2>2 DEF At
    <3>2. \A d \in Call : HC(k, d) \in Range(Tail(hndQ[s])) <=>
             HC(k, d) \in Range(hndQ[s]) /\ ~(k = "begin" /\ d = c)
      BY <1>1, TurnNames
    <3> QED BY <2>2, <3>1, <3>2 DEF SockName
  <2>3. CASE x # s
    BY <1>3, <2>3 DEF At
  <2> QED BY <2>1, <2>2, <2>3
<1> QED BY <1>1, <1>4, <1>5 DEF Passes, c

\* A handler n of call c comes to the handle strand of session s.
LEMMA HndAppend ==
  ASSUME Types, NEW s \in Session, NEW c \in Call, NEW n \in {"begin", "over"},
         hndQ' = [hndQ EXCEPT ![s] = Append(@, HC(n, c))], sockQ' = sockQ
  PROVE  Takes(c, s, n)
<1> DEFINE q == Append(hndQ[s], HC(n, c))
<1>1. Range(q) = Range(hndQ[s]) \cup {HC(n, c)}
  BY Names, AppendOnce DEF Types, SessionTypes
<1>2. \A x \in Session : hndQ'[x] = IF x = s THEN q ELSE hndQ[x]
  BY DEF Types, SessionTypes
<1> HIDE DEF q
<1>3. ASSUME NEW k \in Name, NEW x \in Session
      PROVE  At(k, x)' = IF x = s /\ k = n THEN At(k, x) \cup {c} ELSE At(k, x)
  <2>1. CASE k \in SockName \/ x # s
    BY <1>2, <2>1 DEF At, SockName
  <2>2. CASE k \notin SockName /\ x = s
    <3>1. At(k, x)' = {d \in Call : HC(k, d) \in Range(q)} /\ At(k, x) = {d \in Call : HC(k, d) \in Range(hndQ[s])}
      BY <1>2, <2>2 DEF At
    <3>2. \A d \in Call : HC(k, d) \in Range(q) <=> HC(k, d) \in Range(hndQ[s]) \/ (k = n /\ d = c)
      BY <1>1, TurnNames
    <3> QED BY <2>2, <3>1, <3>2
  <2> QED BY <2>1, <2>2
<1> QED BY <1>3 DEF Takes

\* A handler that is no turn is appended to a socket strand.
LEMMA SockAppend ==
  ASSUME Types, NEW s \in Session, NEW n \in {"con", "snd", "rcv", "stop"},
         sockQ' = [sockQ EXCEPT ![s] = Append(@, H(n))], hndQ' = hndQ
  PROVE  Unmoved
<1> DEFINE q == Append(sockQ[s], H(n))
<1>1. Range(q) = Range(sockQ[s]) \cup {H(n)}
  BY Names, AppendOnce DEF Types, SessionTypes
<1>2. sockQ' = Set(sockQ, s, q)
  BY DEF Set
<1> HIDE DEF q
<1>3. \A m \in SockName, c \in Call : HC(m, c) \in Range(q) <=> HC(m, c) \in Range(sockQ[s])
  BY <1>1, TurnNames
<1> QED BY <1>2, <1>3, SockSame DEF Unmoved

\* A session is made with an empty strand: no call was in it.
LEMMA CreateMoves ==
  ASSUME Types, Turns, Fresh, Create
  PROVE  Unmoved
<1> USE DEF queues, client, calls, coros, data, net
<1>1. CASE ~MustCreate
  <2>1. sockQ' = sockQ /\ hndQ' = hndQ
    BY <1>1 DEF Create
  <2> QED BY <2>1 DEF Unmoved, At
<1>2. CASE MustCreate
  <2> DEFINE s == made + 1
             q == <<H("con")>>
  <2>1. s \in Session /\ sockQ' = Set(sockQ, s, q) /\ hndQ' = hndQ
    BY <1>2 DEF Create
  <2>2. Range(q) = {H("con")}
    BY DEF Range
  <2>3. ASSUME NEW m \in SockName, NEW c \in Call, HC(m, c) \in Range(sockQ[s]) PROVE FALSE
    <3>1. c \in At(m, s) /\ m \in Turn
      BY <2>3 DEF At, Turn, SockName
    <3>2. on[c] = s /\ on[c] <= made /\ made \in Nat
      BY <2>1, <3>1 DEF Turns, Fresh, Types, SessionTypes
    <3> QED BY <3>2
  <2> HIDE DEF s, q
  <2>4. \A m \in SockName, c \in Call : HC(m, c) \in Range(q) <=> HC(m, c) \in Range(sockQ[s])
    BY <2>2, <2>3, TurnNames
  <2> QED BY <2>1, <2>4, SockSame DEF Unmoved
<1> QED BY <1>1, <1>2

\* The steps that no call's coroutine takes part in.
Elsewhere ==
  \/ \E c \in Call : Invoke(c) \/ TryStopped(c) \/ TryCreate(c) \/ SpawnCreate(c)
                     \/ WaitTimesOut(c) \/ DeadlinePasses(c)
  \/ \E x \in UserDone : Done(x)
  \/ Create \/ Stop \/ ClientStop
  \/ \E s \in Session \cup {NoSession} : DispatchStop(s)
  \/ \E s \in Session :
       \/ StartConnect(s) \/ Connected(s) \/ ConnectFailed(s) \/ SendWrite(s) \/ SendWait(s)
       \/ SendHeartBeat(s) \/ SendExit(s) \/ RecvExit(s) \/ SockStop(s)
       \/ ConnectDone(s) \/ WriteDone(s) \/ ReadDone(s) \/ DeliverSock(s)
       \/ HeartBeatDue(s) \/ ConnectBreaks(s) \/ WriteBreaks(s) \/ ReadBreaks(s)
       \/ \E c \in Call : \E code \in ReplyCode[c] : ServerAnswers(s, c, code)
  \/ UNCHANGED vars

LEMMA NextCases ==
  [Next]_vars => \/ Elsewhere
                 \/ \E c \in Call : TrySession(c) \/ DeliverOver(c)
                 \/ \E s \in Session : \/ RecvReplies(s) \/ Merge(s) \/ Merged(s)
                                       \/ BeginCall(s) \/ AwaitReply(s) \/ HandleReply(s) \/ EndCall(s)
<1>1. ASSUME NEW c \in Call, Invoke(c) \/ CallStep(c) \/ DeadlinePasses(c)
      PROVE  Elsewhere \/ TrySession(c) \/ DeliverOver(c)
  BY <1>1 DEF CallStep, Elsewhere
<1>2. ASSUME NEW s \in Session, SockStrand(s)
      PROVE  Elsewhere \/ RecvReplies(s) \/ Merge(s) \/ Merged(s)
  BY <1>2 DEF SockStrand, Elsewhere
<1>3. ASSUME NEW s \in Session, HndStrand(s)
      PROVE  BeginCall(s) \/ AwaitReply(s) \/ HandleReply(s) \/ EndCall(s)
  BY <1>3 DEF HndStrand
<1>4. ASSUME NEW s \in Session,
             \/ ConnectDone(s) \/ WriteDone(s) \/ ReadDone(s) \/ DeliverSock(s) \/ HeartBeatDue(s)
             \/ ConnectBreaks(s) \/ WriteBreaks(s) \/ ReadBreaks(s)
             \/ \E c \in Call : \E code \in ReplyCode[c] : ServerAnswers(s, c, code)
      PROVE  Elsewhere
  BY <1>4 DEF Elsewhere
<1>5. (\E x \in UserDone : Done(x)) \/ Create \/ Stop \/ ClientStop
      \/ (\E s \in Session \cup {NoSession} : DispatchStop(s)) \/ UNCHANGED vars
        => Elsewhere
  BY DEF Elsewhere
<1> QED BY <1>1, <1>2, <1>3, <1>4, <1>5 DEF Next, SessionStep

LEMMA ElsewhereMoves ==
  ASSUME Types, Single, Turns, Fresh, Elsewhere
  PROVE  Unmoved
<1> USE DEF queues, client, calls, coros, data, net
<1>1. ASSUME sockQ' = sockQ, hndQ' = hndQ PROVE Unmoved
  BY <1>1 DEF Unmoved, At
<1>2. ASSUME NEW c \in Call, Invoke(c) \/ TryStopped(c) \/ TryCreate(c) \/ SpawnCreate(c)
                             \/ WaitTimesOut(c) \/ DeadlinePasses(c)
      PROVE  Unmoved
  BY <1>1, <1>2 DEF Invoke, TryStopped, TryCreate, SpawnCreate, WaitTimesOut, DeadlinePasses
<1>3. (\E x \in UserDone : Done(x)) \/ Stop \/ ClientStop \/ UNCHANGED vars => Unmoved
  BY <1>1 DEF Done, Stop, ClientStop, vars
<1>4. ASSUME NEW s \in Session \cup {NoSession}, DispatchStop(s) PROVE Unmoved
  <2>1. CASE s = NoSession
    BY <1>1, <1>4, <2>1 DEF DispatchStop
  <2>2. CASE s # NoSession
    BY <1>4, <2>2, SockAppend DEF DispatchStop
  <2> QED BY <2>1, <2>2
<1>5. ASSUME NEW s \in Session,
             \/ ConnectDone(s) \/ WriteDone(s) \/ ReadDone(s) \/ HeartBeatDue(s)
             \/ ConnectBreaks(s) \/ WriteBreaks(s) \/ ReadBreaks(s)
             \/ \E c \in Call : \E code \in ReplyCode[c] : ServerAnswers(s, c, code)
      PROVE  Unmoved
  BY <1>1, <1>5 DEF ConnectDone, WriteDone, ReadDone, HeartBeatDue, ConnectBreaks, WriteBreaks,
                    ReadBreaks, ServerAnswers
<1>6. ASSUME NEW s \in Session, DeliverSock(s) PROVE Unmoved
  <2>1. PICK x \in {<<"con", con[s]>>, <<"snd", snd[s]>>, <<"rcv", rcv[s]>>} :
          sockQ' = [sockQ EXCEPT ![s] = Append(@, H(x[1]))]
    BY <1>6 DEF DeliverSock
  <2>2. x[1] \in {"con", "snd", "rcv"}
    BY <2>1
  <2>3. hndQ' = hndQ
    BY <1>6 DEF DeliverSock
  <2> QED BY <2>1, <2>2, <2>3, SockAppend
<1>7. ASSUME NEW s \in Session,
             StartConnect(s) \/ Connected(s) \/ ConnectFailed(s) \/ SendWrite(s) \/ SendWait(s)
             \/ SendHeartBeat(s) \/ SendExit(s) \/ RecvExit(s) \/ SockStop(s)
      PROVE  Unmoved
  BY <1>7, SocketStepMoves
<1> QED BY <1>2, <1>3, <1>4, <1>5, <1>6, <1>7, CreateMoves DEF Elsewhere

-----------------------------------------------------------------------------
(***************************************************************************)
(* Fresh.                                                                  *)
(***************************************************************************)
\* Session s after a step that did not end its connect coroutine.
LEMMA BegunKept ==
  ASSUME NEW s \in Session, Begun(s), made' = made,
         con'[s].at = con[s].at,
         snd'[s] = snd[s] \/ (snd[s].at # "end" /\ snd'[s].at = snd[s].at /\ snd'[s].op # "ok"),
         rcv'[s] = rcv[s] \/ rcv'[s] = Ended \/ rcv[s] # Ended,
         writing'[s] = writing[s],
         con'[s] = con[s] \/ con[s].at # "end"
  PROVE  Begun(s)'
<1>1. con'[s].at # "end" => snd'[s] = Ended /\ rcv'[s] = Ended /\ writing'[s] = <<>>
  BY CoroNames DEF Begun
<1>2. writing'[s] # <<>> => snd'[s].at \in {"write", "end"} /\ snd'[s].op # "ok"
  BY DEF Begun
<1>3. s > made' => con'[s] = Ended /\ snd'[s] = Ended /\ rcv'[s] = Ended /\ writing'[s] = <<>>
  BY CoroNames DEF Begun
<1> QED BY <1>1, <1>2, <1>3 DEF Begun

\* The coroutines of session s whose sender is asleep, at its loop, or closed.
LEMMA BegunClosed ==
  ASSUME Types, NEW s \in Session, Begun(s), made' = made, writing' = writing,
         NEW k \in {con[s], Ended}, NEW d \in {snd[s], Ended}, NEW r \in {rcv[s], Ended},
         CloseSocket(s, k, d, r) \/ LeaveAndStop(s, k, d, r)
  PROVE  Begun(s)'
<1>1. k \in ConT /\ d \in SndT /\ r \in RcvT
  BY CoroNames DEF Types, SessionTypes
<1>2. /\ con'[s] = k \/ (Awaits(k, "connect") /\ con'[s] = Coro("connect", "error"))
      /\ \/ snd'[s] = d
         \/ /\ d.at \in {"wait", "write", "beat"} /\ d.op = "none" /\ snd'[s].at = d.at
            /\ snd'[s].op \in {"cancel", "error"}
      /\ rcv'[s] = r \/ (Awaits(r, "read") /\ rcv'[s] = Coro("read", "error"))
  BY <1>1, CloseEffect
<1>3. con'[s].at # "end" => con[s].at # "end"
  BY <1>2, CoroNames DEF Awaits
<1>4. /\ snd[s] = Ended => snd'[s] = Ended
      /\ rcv[s] = Ended => rcv'[s] = Ended
      /\ con[s] = Ended => con'[s] = Ended
  <2>1. ~Awaits(Ended, "connect") /\ ~Awaits(Ended, "read") /\ Ended.at \notin {"wait", "write", "beat"}
    BY CoroNames DEF Awaits
  <2> QED BY <1>2, <2>1
<1>5. writing[s] # <<>> /\ snd[s].at \in {"write", "end"} /\ snd[s].op # "ok"
        => snd'[s].at \in {"write", "end"} /\ snd'[s].op # "ok"
  BY <1>2, CoroNames
<1> QED BY <1>3, <1>4, <1>5 DEF Begun

LEMMA SenderBegun ==
  ASSUME Types, NEW s \in Session, Begun(s), made' = made, con'[s] = con[s], rcv'[s] = rcv[s],
         SendLooks(s) \/ snd[s] = Coro("wait", "fired"),
         \/ snd'[s] = Coro("write", "none")
         \/ snd'[s] \in {Coro("wait", "none"), Coro("beat", "none")} /\ writing'[s] = writing[s]
  PROVE  Begun(s)'
<1>1. /\ snd[s] # Ended
      /\ snd[s].op = "ok" \/ snd[s].at \notin {"write", "end"}
  BY CoroNames DEF SendLooks
<1>2. writing[s] = <<>> /\ con[s].at = "end" /\ ~(s > made)
  BY <1>1 DEF Begun
<1>3. CASE snd'[s] = Coro("write", "none")
  BY <1>2, <1>3, CoroNames DEF Begun
<1>4. CASE snd'[s] \in {Coro("wait", "none"), Coro("beat", "none")} /\ writing'[s] = writing[s]
  BY <1>2, <1>4 DEF Begun
<1> QED BY <1>3, <1>4

LEMMA FreshStep == Types /\ Single /\ ReadsAlone /\ Fresh /\ [Next]_vars => Fresh'
<1> SUFFICES ASSUME Types, Single, ReadsAlone, Fresh, [Next]_vars PROVE Fresh'
  OBVIOUS
<1> USE DEF client, calls, queues, coros, data, net
<1>a. ASSUME NEW x \in Session, made' = made, con'[x] = con[x], snd'[x] = snd[x], rcv'[x] = rcv[x],
             writing'[x] = writing[x]
      PROVE  Begun(x)'
  BY <1>a DEF Fresh, Begun
<1>b. ASSUME cur' = cur, made' = made, on' = on, \A x \in Session : Begun(x)' PROVE Fresh'
  BY <1>b DEF Fresh
<1>c. \A s \in Session : Begun(s) /\ con[s] \in ConT /\ snd[s] \in SndT /\ rcv[s] \in RcvT
  BY DEF Fresh, Types, SessionTypes
<1>d. ASSUME cur' = cur, made' = made, on' = on, con' = con, snd' = snd, rcv' = rcv, writing' = writing
      PROVE  Fresh'
  BY <1>a, <1>b, <1>d
<1>1. ASSUME NEW c \in Call, Invoke(c) \/ CallStep(c) \/ DeadlinePasses(c) PROVE Fresh'
  <2>1. CASE TrySession(c)
    <3>1. \A d \in Call : on'[d] = on[d] \/ on'[d] = cur
      BY <2>1 DEF TrySession, Set, Types, CallTypes
    <3>2. cur' = cur /\ made' = made /\ \A x \in Session : Begun(x)'
      BY <1>a, <2>1 DEF TrySession
    <3> QED BY <3>1, <3>2 DEF Fresh
  <2>2. CASE ~TrySession(c)
    BY <1>1, <1>d, <2>2 DEF Invoke, CallStep, TryStopped, TryCreate, SpawnCreate, WaitTimesOut,
                            DeliverOver, DeadlinePasses
  <2> QED BY <2>1, <2>2
<1>2. CASE Create
  <2>1. CASE ~MustCreate
    BY <1>2, <1>d, <2>1 DEF Create
  <2>2. CASE MustCreate
    <3>1. PICK s \in Session :
            /\ s = made + 1 /\ made' = s /\ cur' = s /\ con' = Set(con, s, Coro("start", "ok"))
            /\ snd' = snd /\ rcv' = rcv /\ writing' = writing /\ on' = on
      BY <1>2, <2>2 DEF Create
    <3>2. made \in Nat /\ \A c \in Call : on[c] \in Nat
      BY DEF Types, SessionTypes, CallTypes, Session, NoSession
    <3>3. ASSUME NEW x \in Session, x # s PROVE Begun(x)'
      <4>1. con'[x] = con[x] /\ (x > made' => x > made)
        BY <3>1, <3>2, <3>3 DEF Set, Types, SessionTypes, Session
      <4> QED BY <1>c, <3>1, <4>1 DEF Begun
    <3>4. Begun(s)'
      <4>1. s > made /\ ~(s > made')
        BY <3>1, <3>2
      <4>2. snd[s] = Ended /\ rcv[s] = Ended /\ writing[s] = <<>>
        BY <1>c, <3>1, <4>1 DEF Begun
      <4> QED BY <3>1, <4>1, <4>2 DEF Begun
    <3>5. cur' <= made' /\ \A c \in Call : on'[c] <= made'
      BY <3>1, <3>2 DEF Fresh
    <3> QED BY <3>3, <3>4, <3>5 DEF Fresh
  <2> QED BY <2>1, <2>2
<1>3. CASE Stop \/ ClientStop \/ (\E s \in Session \cup {NoSession} : DispatchStop(s))
           \/ \E x \in UserDone : Done(x)
  BY <1>3, <1>d DEF Stop, ClientStop, DispatchStop, Done
<1>4. ASSUME NEW s \in Session, SockStrand(s) PROVE Fresh'
  <2>1. cur' = cur /\ made' = made /\ on' = on
    BY <1>4 DEF SockStrand, StartConnect, Connected, ConnectFailed, SendWrite, SendWait, SendHeartBeat,
                SendExit, RecvReplies, RecvExit, Merge, Merged, SockStop
  <2>2. CASE StartConnect(s)
    <3>1. /\ con' = Set(con, s, Coro("connect", "none")) /\ con[s].at = "start"
          /\ snd' = snd /\ rcv' = rcv /\ writing' = writing
      BY <2>2 DEF StartConnect
    <3>2. Begun(s)'
      <4>1. con[s] # Ended /\ con[s].at # "end"
        BY <3>1, CoroNames
      <4> QED BY <1>c, <2>1, <3>1, <4>1 DEF Begun
    <3>3. \A x \in Session \ {s} : con'[x] = con[x]
      BY <3>1 DEF Set, Types, SessionTypes
    <3> QED BY <1>a, <1>b, <2>1, <3>1, <3>2, <3>3
  <2>3. CASE Connected(s)
    <3>1. /\ con' = Set(con, s, Ended) /\ con[s] = Coro("connect", "ok")
          /\ snd' = Set(snd, s, Coro("start", "ok")) /\ rcv' = Set(rcv, s, Coro("start", "ok"))
          /\ writing' = writing
      BY <2>3 DEF Connected
    <3>2. Begun(s)'
      <4>1. con[s] # Ended /\ con[s].at # "end"
        BY <3>1, CoroNames
      <4>2. con'[s] = Ended /\ writing[s] = <<>> /\ ~(s > made)
        BY <1>c, <3>1, <4>1 DEF Begun, Set, Types, SessionTypes
      <4> QED BY <2>1, <3>1, <4>2, CoroNames DEF Begun
    <3>3. \A x \in Session \ {s} : con'[x] = con[x] /\ snd'[x] = snd[x] /\ rcv'[x] = rcv[x]
      BY <3>1 DEF Set, Types, SessionTypes
    <3> QED BY <1>a, <1>b, <2>1, <3>1, <3>2, <3>3
  <2>4. CASE ConnectFailed(s) \/ SendExit(s) \/ RecvExit(s) \/ SockStop(s)
    <3>1. PICK k \in {con[s], Ended}, d \in {snd[s], Ended}, r \in {rcv[s], Ended} :
            CloseSocket(s, k, d, r) \/ LeaveAndStop(s, k, d, r)
      BY <2>4 DEF ConnectFailed, SendExit, RecvExit, SockStop
    <3>2. writing' = writing
      BY <2>4 DEF ConnectFailed, SendExit, RecvExit, SockStop
    <3>3. Begun(s)'
      BY <1>c, <2>1, <3>1, <3>2, BegunClosed
    <3>4. k \in ConT /\ d \in SndT /\ r \in RcvT
      BY <1>c, CoroNames
    <3>5. \A x \in Session \ {s} : con'[x] = con[x] /\ snd'[x] = snd[x] /\ rcv'[x] = rcv[x]
      BY <3>1, <3>4, CloseEffect
    <3> QED BY <1>a, <1>b, <2>1, <3>2, <3>3, <3>5
  <2>5. CASE SendWrite(s) \/ SendWait(s) \/ SendHeartBeat(s)
    <3>1. /\ con' = con /\ rcv' = rcv
          /\ SendLooks(s) \/ snd[s] = Coro("wait", "fired")
          /\ \/ snd' = Set(snd, s, Coro("write", "none")) /\ writing' = Set(writing, s, buf[s])
             \/ snd' = Set(snd, s, Coro("wait", "none")) /\ writing' = writing
             \/ snd' = Set(snd, s, Coro("beat", "none")) /\ writing' = writing
      BY <2>5 DEF SendWrite, SendWait, SendHeartBeat
    <3>2. /\ \A x \in Session \ {s} : snd'[x] = snd[x] /\ writing'[x] = writing[x]
          /\ \/ snd'[s] = Coro("write", "none")
             \/ snd'[s] \in {Coro("wait", "none"), Coro("beat", "none")} /\ writing'[s] = writing[s]
      BY <3>1 DEF Set, Types, SessionTypes, DataTypes
    <3>3. Begun(s)'
      BY <1>c, <2>1, <3>1, <3>2, SenderBegun
    <3> QED BY <1>a, <1>b, <2>1, <3>1, <3>2, <3>3
  <2>6. CASE RecvReplies(s)
    <3>1. /\ con' = con /\ snd' = snd /\ writing' = writing
          /\ \A x \in Session \ {s} : rcv'[x] = rcv[x]
      BY <2>6 DEF RecvReplies, Set, Types, SessionTypes
    <3>2. rcv[s] # Ended
      <4>1. H("rcv") \in Range(sockQ[s])
        BY <2>6, SockFront DEF RecvReplies
      <4> QED BY <4>1, CoroNames DEF ReadsAlone
    <3>3. Begun(s)'
      BY <1>c, <2>1, <3>1, <3>2, BegunKept
    <3> QED BY <1>a, <1>b, <2>1, <3>1, <3>3
  <2>7. CASE Merge(s)
    <3>1. con' = con /\ rcv' = rcv /\ writing' = writing /\ snd' = Set(snd, s, Woken(snd[s]))
      BY <2>7 DEF Merge
    <3>2. /\ \A x \in Session \ {s} : snd'[x] = snd[x]
          /\ snd'[s] = snd[s] \/ (snd[s] = Coro("wait", "none") /\ snd'[s] = Coro("wait", "cancel"))
      BY <3>1 DEF Woken, Awaits, Set, Types, SessionTypes
    <3>3. snd'[s] = snd[s] \/ (snd[s].at # "end" /\ snd'[s].at = snd[s].at /\ snd'[s].op # "ok")
      BY <3>2, CoroNames
    <3>4. Begun(s)'
      BY <1>c, <2>1, <3>1, <3>3, BegunKept
    <3> QED BY <1>a, <1>b, <2>1, <3>1, <3>2, <3>4
  <2>8. CASE Merged(s)
    BY <1>d, <2>1, <2>8 DEF Merged
  <2> QED BY <1>4, <2>2, <2>3, <2>4, <2>5, <2>6, <2>7, <2>8 DEF SockStrand
<1>5. ASSUME NEW s \in Session, HndStrand(s) PROVE Fresh'
  BY <1>5, <1>d DEF HndStrand, BeginCall, AwaitReply, HandleReply, EndCall
<1>6. ASSUME NEW s \in Session, ConnectDone(s) \/ ConnectBreaks(s) PROVE Fresh'
  <2>1. PICK o : con' = Set(con, s, Coro("connect", o))
    BY <1>6 DEF ConnectDone, ConnectBreaks
  <2>2. /\ con[s] = Coro("connect", "none") /\ cur' = cur /\ made' = made /\ on' = on
        /\ snd' = snd /\ rcv' = rcv /\ writing' = writing
    BY <1>6 DEF ConnectDone, ConnectBreaks, Awaits
  <2>3. con'[s] = Coro("connect", o) /\ \A x \in Session \ {s} : con'[x] = con[x]
    BY <2>1 DEF Set, Types, SessionTypes
  <2>4. Begun(s)'
    BY <1>c, <2>2, <2>3, BegunKept, CoroNames
  <2> QED BY <1>a, <1>b, <2>2, <2>3, <2>4
<1>7. ASSUME NEW s \in Session, WriteDone(s) \/ WriteBreaks(s) PROVE Fresh'
  <2>1. PICK o \in {"ok", "error"} : /\ snd' = Set(snd, s, Coro(snd[s].at, o))
                                     /\ \/ o = "ok" /\ writing' = Set(writing, s, <<>>)
                                        \/ o = "error" /\ writing' = writing
    BY <1>7 DEF WriteDone, WriteBreaks
  <2>2. /\ snd[s].at \in {"write", "beat"} /\ cur' = cur /\ made' = made /\ on' = on
        /\ con' = con /\ rcv' = rcv
    BY <1>7 DEF WriteDone, WriteBreaks
  <2>3. /\ snd'[s] = Coro(snd[s].at, o) /\ writing'[s] \in {writing[s], <<>>}
        /\ o = "error" => writing'[s] = writing[s]
        /\ o = "ok" => writing'[s] = <<>>
        /\ \A x \in Session \ {s} : snd'[x] = snd[x] /\ writing'[x] = writing[x]
    BY <2>1 DEF Set, Types, SessionTypes, DataTypes
  <2>4. Begun(s)'
    <3>1. snd'[s].at = snd[s].at /\ snd'[s].op = o /\ snd[s] # Ended
      BY <2>2, <2>3, CoroNames
    <3>2. con[s].at = "end" /\ ~(s > made)
      BY <1>c, <3>1 DEF Begun
    <3> QED BY <1>c, <2>2, <2>3, <3>1, <3>2 DEF Begun
  <2> QED BY <1>a, <1>b, <2>2, <2>3, <2>4
<1>8. ASSUME NEW s \in Session, HeartBeatDue(s) PROVE Fresh'
  <2>1. /\ snd' = Set(snd, s, Coro("wait", "fired")) /\ snd[s] = Coro("wait", "none")
        /\ cur' = cur /\ made' = made /\ on' = on /\ con' = con /\ rcv' = rcv /\ writing' = writing
    BY <1>8 DEF HeartBeatDue, Awaits
  <2>2. snd'[s] = Coro("wait", "fired") /\ \A x \in Session \ {s} : snd'[x] = snd[x]
    BY <2>1 DEF Set, Types, SessionTypes
  <2>3. Begun(s)'
    BY <1>c, <2>1, <2>2, BegunKept, CoroNames
  <2> QED BY <1>a, <1>b, <2>1, <2>2, <2>3
<1>9. ASSUME NEW s \in Session, ReadDone(s) \/ ReadBreaks(s) PROVE Fresh'
  <2>1. /\ Awaits(rcv[s], "read") /\ cur' = cur /\ made' = made /\ on' = on
        /\ con' = con /\ snd' = snd /\ writing' = writing
    BY <1>9 DEF ReadDone, ReadBreaks
  <2>2. \A x \in Session \ {s} : rcv'[x] = rcv[x]
    BY <1>9 DEF ReadDone, ReadBreaks, Set, Types, SessionTypes
  <2>3. rcv[s] # Ended
    BY <2>1, CoroNames DEF Awaits
  <2>4. Begun(s)'
    BY <1>c, <2>1, <2>3, BegunKept
  <2> QED BY <1>a, <1>b, <2>1, <2>2, <2>4
<1>10. ASSUME NEW s \in Session, DeliverSock(s) \/ \E c \in Call : \E code \in ReplyCode[c] : ServerAnswers(s, c, code)
       PROVE  Fresh'
  BY <1>10, <1>d DEF DeliverSock, ServerAnswers
<1>11. CASE UNCHANGED vars
  BY <1>11, <1>d DEF vars
<1> QED BY <1>1, <1>2, <1>3, <1>4, <1>5, <1>6, <1>7, <1>8, <1>9, <1>10, <1>11 DEF Next, SessionStep

-----------------------------------------------------------------------------
(***************************************************************************)
(* ReadsAlone and Created.                                                 *)
(***************************************************************************)
LEMMA ReadsAloneStep == Types /\ Single /\ Fresh /\ ReadsAlone /\ [Next]_vars => ReadsAlone'
<1> SUFFICES ASSUME Types, Single, Fresh, ReadsAlone, [Next]_vars PROVE ReadsAlone'
  OBVIOUS
<1> USE DEF client, calls, queues, coros, data, net
<1>a. ASSUME \A x \in Session : H("rcv") \in Range(sockQ'[x]) =>
               /\ H("rcv") \in Range(sockQ[x])
               /\ rcv'[x] = rcv[x] \/ rcv'[x].op # "none"
      PROVE  ReadsAlone'
  BY <1>a DEF ReadsAlone
<1>b. ASSUME sockQ' = sockQ, rcv' = rcv PROVE ReadsAlone'
  BY <1>b DEF ReadsAlone
<1>c. H("rcv") \notin {H("con"), H("snd"), H("stop")} /\ \A c \in Call, n \in SockName : HC(n, c) # H("rcv")
  <2>1. \A n \in {"con", "snd", "rcv", "stop"} : H(n).h = n
    BY Names
  <2> QED BY <2>1, TurnNames
\* The handler at the front of s is gone, and others x were added.
<1>d. ASSUME NEW s \in Session, NEW q, sockQ' = Set(sockQ, s, q),
             H("rcv") \in Range(q) => /\ H("rcv") \in Range(sockQ[s])
                                      /\ rcv'[s] = rcv[s] \/ rcv'[s].op # "none",
             \A x \in Session \ {s} : rcv'[x] = rcv[x]
      PROVE  ReadsAlone'
  <2>1. \A x \in Session : sockQ'[x] = IF x = s THEN q ELSE sockQ[x]
    BY <1>d DEF Set, Types, SessionTypes
  <2> QED BY <1>a, <1>d, <2>1
<1>1. ASSUME NEW c \in Call, Invoke(c) \/ CallStep(c) \/ DeadlinePasses(c) PROVE ReadsAlone'
  BY <1>1, <1>b DEF Invoke, CallStep, TrySession, TryStopped, TryCreate, SpawnCreate, WaitTimesOut,
                    DeliverOver, DeadlinePasses
<1>2. CASE Create
  <2>1. CASE ~MustCreate
    BY <1>2, <1>b, <2>1 DEF Create
  <2>2. CASE MustCreate
    <3>1. PICK s \in Session : sockQ' = Set(sockQ, s, <<H("con")>>) /\ rcv' = rcv
      BY <1>2, <2>2 DEF Create
    <3>2. H("rcv") \notin Range(<<H("con")>>)
      BY <1>c DEF Range
    <3> QED BY <1>d, <3>1, <3>2
  <2> QED BY <2>1, <2>2
<1>3. CASE (\E x \in UserDone : Done(x)) \/ Stop \/ ClientStop
  BY <1>3, <1>b DEF Done, Stop, ClientStop
<1>4. ASSUME NEW s \in Session \cup {NoSession}, DispatchStop(s) PROVE ReadsAlone'
  <2>1. CASE s = NoSession
    BY <1>4, <1>b, <2>1 DEF DispatchStop
  <2>2. CASE s # NoSession
    <3>1. s \in Session /\ sockQ' = Set(sockQ, s, Append(sockQ[s], H("stop"))) /\ rcv' = rcv
      BY <1>4, <2>2 DEF DispatchStop, Set
    <3>2. Range(Append(sockQ[s], H("stop"))) = Range(sockQ[s]) \cup {H("stop")}
      BY <3>1, Names, AppendOnce DEF Types, SessionTypes
    <3> QED BY <1>c, <1>d, <3>1, <3>2
  <2> QED BY <2>1, <2>2
<1>5. ASSUME NEW s \in Session, SockStrand(s) PROVE ReadsAlone'
  <2>a. \A n : OnSock(s, n) => /\ Rest(s) \in Seq(SockH) /\ Range(Rest(s)) \subseteq Range(sockQ[s])
                               /\ n = "rcv" => H("rcv") \notin Range(Rest(s))
    BY SockFront, TurnNames
  <2>1. CASE StartConnect(s) \/ SendWrite(s) \/ SendWait(s) \/ SendHeartBeat(s) \/ Merged(s)
    <3>1. \E n : OnSock(s, n) /\ sockQ' = Set(sockQ, s, Rest(s)) /\ rcv' = rcv
      BY <2>1 DEF StartConnect, SendWrite, SendWait, SendHeartBeat, Merged
    <3> QED BY <1>d, <2>a, <3>1
  <2>2. CASE Connected(s)
    <3>1. PICK q : sockQ' = Set(sockQ, s, q) /\ rcv' = Set(rcv, s, Coro("start", "ok"))
      BY <2>2 DEF Connected
    <3>2. rcv'[s].op # "none" /\ \A x \in Session \ {s} : rcv'[x] = rcv[x] /\ sockQ'[x] = sockQ[x]
      BY <3>1, CoroNames DEF Set, Types, SessionTypes
    <3> QED BY <3>2 DEF ReadsAlone
  <2>3. CASE ConnectFailed(s) \/ SendExit(s) \/ SockStop(s)
    <3>1. PICK n : OnSock(s, n) /\ sockQ' = Set(sockQ, s, Rest(s))
      BY <2>3 DEF ConnectFailed, SendExit, SockStop
    <3>2. PICK k \in {con[s], Ended}, d \in {snd[s], Ended} :
            CloseSocket(s, k, d, rcv[s]) \/ LeaveAndStop(s, k, d, rcv[s])
      BY <2>3 DEF ConnectFailed, SendExit, SockStop
    <3>3. k \in ConT /\ d \in SndT /\ rcv[s] \in RcvT
      BY CoroNames DEF Types, SessionTypes
    <3>4. /\ \A x \in Session \ {s} : rcv'[x] = rcv[x]
          /\ rcv'[s] = rcv[s] \/ rcv'[s].op # "none"
      BY <3>2, <3>3, CloseEffect, CoroNames
    <3> QED BY <1>d, <2>a, <3>1, <3>4
  <2>4. CASE RecvReplies(s) \/ RecvExit(s)
    <3>1. OnSock(s, "rcv") /\ sockQ' = Set(sockQ, s, Rest(s))
      BY <2>4 DEF RecvReplies, RecvExit
    <3>2. \A x \in Session \ {s} : rcv'[x] = rcv[x]
      <4>1. CASE RecvReplies(s)
        BY <4>1 DEF RecvReplies, Set, Types, SessionTypes
      <4>2. CASE RecvExit(s)
        <5>1. LeaveAndStop(s, con[s], snd[s], Ended) /\ con[s] \in ConT /\ snd[s] \in SndT /\ Ended \in RcvT
          BY <4>2, CoroNames DEF RecvExit, Types, SessionTypes
        <5> QED BY <5>1, CloseEffect
      <4> QED BY <2>4, <4>1, <4>2
    <3> QED BY <1>d, <2>a, <3>1, <3>2
  <2>5. CASE Merge(s)
    <3> DEFINE c == Head(sockQ[s]).call
    <3>1. sockQ' = Set(sockQ, s, Append(Rest(s), HC("merged", c))) /\ rcv' = rcv
      BY <2>5 DEF Merge
    <3>2. c \in Call /\ Rest(s) \in Seq(SockH) /\ Range(Rest(s)) \subseteq Range(sockQ[s])
      BY <2>5, SockFront DEF Merge, SockName
    <3>3. Range(Append(Rest(s), HC("merged", c))) = Range(Rest(s)) \cup {HC("merged", c)}
      BY <3>2, Names, AppendOnce
    <3>4. H("rcv") # HC("merged", c)
      BY <1>c, <3>2 DEF SockName
    <3> QED BY <1>d, <3>1, <3>2, <3>3, <3>4
  <2> QED BY <1>5, <2>1, <2>2, <2>3, <2>4, <2>5 DEF SockStrand
<1>6. ASSUME NEW s \in Session, HndStrand(s) PROVE ReadsAlone'
  <2>1. CASE BeginCall(s)
    <3> DEFINE c == HndCall(s)
    <3>1. sockQ' = Set(sockQ, s, Append(sockQ[s], HC("merge", c))) /\ rcv' = rcv
      BY <2>1 DEF BeginCall, Set
    <3>2. c \in Call
      BY <2>1, HndFront DEF BeginCall
    <3>3. Range(Append(sockQ[s], HC("merge", c))) = Range(sockQ[s]) \cup {HC("merge", c)}
      BY <3>2, Names, AppendOnce DEF Types, SessionTypes
    <3>4. H("rcv") # HC("merge", c)
      BY <1>c, <3>2 DEF SockName
    <3> QED BY <1>d, <3>1, <3>3, <3>4
  <2>2. CASE AwaitReply(s) \/ HandleReply(s) \/ EndCall(s)
    BY <1>b, <2>2 DEF AwaitReply, HandleReply, EndCall
  <2> QED BY <1>6, <2>1, <2>2 DEF HndStrand
<1>7. ASSUME NEW s \in Session, ReadDone(s) \/ ReadBreaks(s) PROVE ReadsAlone'
  <2>1. PICK o \in {"data", "error"} : rcv' = Set(rcv, s, Coro("read", o)) /\ sockQ' = sockQ
    BY <1>7 DEF ReadDone, ReadBreaks
  <2>2. rcv'[s].op # "none" /\ \A x \in Session \ {s} : rcv'[x] = rcv[x]
    BY <2>1, CoroNames DEF Set, Types, SessionTypes
  <2> QED BY <1>a, <2>1, <2>2
<1>8. ASSUME NEW s \in Session, DeliverSock(s) PROVE ReadsAlone'
  <2>1. PICK x \in {<<"con", con[s]>>, <<"snd", snd[s]>>, <<"rcv", rcv[s]>>} :
          sockQ' = Set(sockQ, s, Append(sockQ[s], H(x[1]))) /\ x[2].op # "none"
    BY <1>8 DEF DeliverSock, Set
  <2>2. x[1] \in {"con", "snd", "rcv"} /\ (x[1] = "rcv" => rcv[s].op # "none")
    BY <2>1
  <2>3. Range(Append(sockQ[s], H(x[1]))) = Range(sockQ[s]) \cup {H(x[1])}
    BY <2>2, Names, AppendOnce DEF Types, SessionTypes
  <2>4. rcv' = rcv
    BY <1>8 DEF DeliverSock
  <2>5. CASE x[1] = "rcv"
    <3>1. \A y \in Session \ {s} : sockQ'[y] = sockQ[y]
      BY <2>1 DEF Set, Types, SessionTypes
    <3> QED BY <2>2, <2>4, <2>5, <3>1 DEF ReadsAlone
  <2>6. CASE x[1] # "rcv"
    BY <1>c, <1>d, <2>1, <2>2, <2>3, <2>4, <2>6
  <2> QED BY <2>5, <2>6
<1>9. ASSUME NEW s \in Session,
             \/ ConnectDone(s) \/ WriteDone(s) \/ HeartBeatDue(s)
             \/ ConnectBreaks(s) \/ WriteBreaks(s)
             \/ \E c \in Call : \E code \in ReplyCode[c] : ServerAnswers(s, c, code)
      PROVE  ReadsAlone'
  BY <1>9, <1>b DEF ConnectDone, WriteDone, HeartBeatDue, ConnectBreaks, WriteBreaks, ServerAnswers
<1>10. CASE UNCHANGED vars
  BY <1>10, <1>b DEF vars
<1> QED BY <1>1, <1>2, <1>3, <1>4, <1>5, <1>6, <1>7, <1>8, <1>9, <1>10 DEF Next, SessionStep

\* A call in EndCall's handler is in its session (Turns says so of its wait).
LEMMA OverCalls ==
  ASSUME Types, Single, Turns, NEW s \in Session, EndCall(s)
  PROVE  /\ HndCall(s) \in Call /\ Quits(HndCall(s), s, "over")
         /\ pc[HndCall(s)] = "call" /\ on[HndCall(s)] = s
         /\ tm[HndCall(s)] \in {"fired", "cancel"}
<1>1. OnHnd(s, "over") /\ PopHnd(s) /\ sockQ' = sockQ
  BY DEF EndCall
<1>2. HndCall(s) \in Call /\ HndCall(s) \in At("over", s) /\ Quits(HndCall(s), s, "over")
  BY <1>1, HndFront, HndPop
<1> QED BY <1>2 DEF Turns

LEMMA CreatedStep == Types /\ Single /\ Turns /\ Created /\ [Next]_vars => Created'
<1> SUFFICES ASSUME Types, Single, Turns, Created, [Next]_vars PROVE Created'
  OBVIOUS
<1> USE DEF client, calls, queues, coros, data, net
<1>a. ASSUME mgrQ' = mgrQ, \A c \in Call : pc[c] = "create" => pc'[c] = "create" PROVE Created'
  BY <1>a DEF Created
<1>b. mgrQ \in Seq(MgrH) /\ Once(mgrQ, CreateH) /\ H("stop") \notin CreateH
      /\ \A c \in Call : HC("create", c) \in CreateH /\ HC("create", c) # H("stop")
  <2>1. H("stop") \notin CreateH
    <3>1. H("stop").h = "stop"
      BY Names
    <3> QED BY <3>1 DEF CreateH
  <2>2. \A c \in Call : HC("create", c) \in CreateH
    BY DEF CreateH, HC
  <2> QED BY <2>1, <2>2 DEF Created, Types, SessionTypes
<1>c. /\ \A x \in CreateH : x.call \in Call /\ x = HC("create", x.call)
      /\ \A x \in MgrH : x.h = "create" => x \in CreateH
      /\ \A c, d \in Call : HC("create", c) = HC("create", d) => c = d
  BY TurnNames DEF CreateH, HC, MgrH
<1>1. ASSUME NEW c \in Call, Invoke(c) \/ CallStep(c) \/ DeadlinePasses(c) PROVE Created'
  <2>1. CASE SpawnCreate(c)
    <3>1. mgrQ' = Append(mgrQ, HC("create", c)) /\ pc[c] = "spawn" /\ pc' = Set(pc, c, "create")
      BY <2>1 DEF SpawnCreate
    <3>2. HC("create", c) \notin Range(mgrQ)
      BY <3>1 DEF Created
    <3>3. Range(mgrQ') = Range(mgrQ) \cup {HC("create", c)} /\ Once(mgrQ', CreateH)
      BY <1>b, <3>1, <3>2, Names, AppendOnce
    <3>4. pc'[c] = "create" /\ \A d \in Call \ {c} : pc'[d] = pc[d]
      BY <3>1 DEF Set, Types, CallTypes
    <3>5. ASSUME NEW d \in Call, HC("create", d) \in Range(mgrQ') PROVE pc'[d] = "create"
      BY <1>c, <3>3, <3>4, <3>5 DEF Created
    <3> QED BY <3>3, <3>5 DEF Created
  <2>2. CASE Invoke(c) \/ TrySession(c) \/ TryStopped(c) \/ TryCreate(c)
    <3>1. pc[c] # "create" /\ mgrQ' = mgrQ
      BY <2>2 DEF Invoke, TrySession, TryStopped, TryCreate
    <3>2. \A d \in Call \ {c} : pc'[d] = pc[d]
      BY <2>2 DEF Invoke, TrySession, TryStopped, TryCreate, Return, Set, Types, CallTypes
    <3> QED BY <1>a, <3>1, <3>2
  <2>3. CASE WaitTimesOut(c) \/ DeliverOver(c) \/ DeadlinePasses(c)
    BY <1>a, <2>3 DEF WaitTimesOut, DeliverOver, DeadlinePasses
  <2> QED BY <1>1, <2>1, <2>2, <2>3 DEF CallStep
<1>2. CASE Create
  <2>1. /\ mgrQ # <<>> /\ mgrQ' = Tail(mgrQ) /\ pc' = Set(pc, Head(mgrQ).call, "try")
        /\ Head(mgrQ).h = "create"
    BY <1>2 DEF Create
  <2>2. /\ Head(mgrQ) \in MgrH /\ Once(mgrQ', CreateH) /\ Range(mgrQ) = {Head(mgrQ)} \cup Range(mgrQ')
        /\ Head(mgrQ) \in CreateH => Head(mgrQ) \notin Range(mgrQ')
    BY <1>b, <2>1, TailOnce
  <2>3. PICK c \in Call : Head(mgrQ) = HC("create", c) /\ c = Head(mgrQ).call
    BY <1>c, <2>1, <2>2
  <2>4. \A d \in Call \ {c} : pc'[d] = pc[d]
    BY <2>1, <2>3 DEF Set, Types, CallTypes
  <2>5. HC("create", c) \notin Range(mgrQ')
    BY <1>b, <2>2, <2>3
  <2> QED BY <2>2, <2>4, <2>5 DEF Created
<1>3. CASE ClientStop
  <2>1. mgrQ # <<>> /\ mgrQ' = Tail(mgrQ) /\ pc' = pc
    BY <1>3 DEF ClientStop
  <2>2. Once(mgrQ', CreateH) /\ Range(mgrQ') \subseteq Range(mgrQ)
    BY <1>b, <2>1, TailOnce
  <2> QED BY <2>1, <2>2 DEF Created
<1>4. ASSUME NEW s \in Session \cup {NoSession}, DispatchStop(s) PROVE Created'
  <2>1. CASE mgrQ' = mgrQ
    BY <1>4, <1>a, <2>1 DEF DispatchStop
  <2>2. CASE mgrQ' = Append(mgrQ, H("stop"))
    <3>1. Range(mgrQ') = Range(mgrQ) \cup {H("stop")} /\ Once(mgrQ', CreateH) /\ pc' = pc
      BY <1>4, <1>b, <2>2, Names, AppendOnce DEF DispatchStop
    <3> QED BY <1>b, <3>1 DEF Created
  <2> QED BY <1>4, <2>1, <2>2 DEF DispatchStop
<1>5. ASSUME NEW s \in Session, SockStrand(s) PROVE Created'
  BY <1>5, <1>a DEF SockStrand, StartConnect, Connected, ConnectFailed, SendWrite, SendWait,
                    SendHeartBeat, SendExit, RecvReplies, RecvExit, Merge, Merged, SockStop
<1>6. ASSUME NEW s \in Session, HndStrand(s) PROVE Created'
  <2>1. CASE EndCall(s)
    <3>1. mgrQ' = mgrQ /\ pc' = Set(pc, HndCall(s), "done") /\ pc[HndCall(s)] = "call"
      BY <2>1, OverCalls DEF EndCall, Return
    <3>2. \A d \in Call : pc[d] = "create" => pc'[d] = "create"
      BY <3>1 DEF Set, Types, CallTypes
    <3> QED BY <1>a, <3>1, <3>2
  <2>2. CASE BeginCall(s) \/ AwaitReply(s) \/ HandleReply(s)
    BY <1>a, <2>2 DEF BeginCall, AwaitReply, HandleReply
  <2> QED BY <1>6, <2>1, <2>2 DEF HndStrand
<1>7. ASSUME NEW s \in Session,
             \/ ConnectDone(s) \/ WriteDone(s) \/ ReadDone(s) \/ DeliverSock(s) \/ HeartBeatDue(s)
             \/ ConnectBreaks(s) \/ WriteBreaks(s) \/ ReadBreaks(s)
             \/ \E c \in Call : \E code \in ReplyCode[c] : ServerAnswers(s, c, code)
      PROVE  Created'
  BY <1>7, <1>a DEF ConnectDone, WriteDone, ReadDone, DeliverSock, HeartBeatDue, ConnectBreaks,
                    WriteBreaks, ReadBreaks, ServerAnswers
<1>8. CASE (\E x \in UserDone : Done(x)) \/ Stop \/ UNCHANGED vars
  BY <1>8, <1>a DEF Done, Stop, vars
<1> QED BY <1>1, <1>2, <1>3, <1>4, <1>5, <1>6, <1>7, <1>8 DEF Next, SessionStep

-----------------------------------------------------------------------------
(***************************************************************************)
(* Turns and Single.                                                       *)
(***************************************************************************)
LEMMA ElsewhereCalls ==
  ASSUME Types, Created, Elsewhere
  PROVE  /\ on' = on /\ got' = got
         /\ \A c \in Call :
              /\ pc'[c] = pc[c] \/ (pc[c] \notin {"call", "done"} /\ pc'[c] # "call")
              /\ \/ tm'[c] = tm[c]
                 \/ tm[c] = "armed" /\ tm'[c] = "fired" /\ c \in late
<1> USE DEF client, calls, queues, coros, data, net
<1>1. ASSUME NEW c \in Call, Invoke(c) \/ TryStopped(c) \/ TryCreate(c) \/ SpawnCreate(c)
      PROVE  /\ on' = on /\ got' = got /\ tm' = tm
             /\ \A d \in Call : pc'[d] = pc[d] \/ (pc[d] \notin {"call", "done"} /\ pc'[d] # "call")
  <2>1. on' = on /\ got' = got /\ tm' = tm
    BY <1>1 DEF Invoke, TryStopped, TryCreate, SpawnCreate
  <2>2. PICK v \in {"try", "spawn", "create", "done"} : pc' = Set(pc, c, v)
    BY <1>1 DEF Invoke, TryStopped, TryCreate, SpawnCreate, Return
  <2>3. pc[c] \notin {"call", "done"}
    BY <1>1 DEF Invoke, TryStopped, TryCreate, SpawnCreate
  <2> QED BY <2>1, <2>2, <2>3 DEF Set, Types, CallTypes
<1>2. ASSUME NEW c \in Call, WaitTimesOut(c) \/ DeadlinePasses(c)
      PROVE  /\ on' = on /\ got' = got /\ pc' = pc
             /\ \A d \in Call : \/ tm'[d] = tm[d]
                                \/ tm[d] = "armed" /\ tm'[d] = "fired" /\ d \in late
  <2>1. CASE WaitTimesOut(c)
    BY <2>1 DEF WaitTimesOut, Expired, Set, Types, CallTypes
  <2>2. CASE DeadlinePasses(c)
    BY <2>2 DEF DeadlinePasses
  <2> QED BY <1>2, <2>1, <2>2
<1>3. CASE Create
  <2>1. /\ mgrQ # <<>> /\ Head(mgrQ).h = "create" /\ pc' = Set(pc, Head(mgrQ).call, "try")
        /\ on' = on /\ got' = got /\ tm' = tm
    BY <1>3 DEF Create
  <2>2. mgrQ \in Seq(MgrH) /\ Head(mgrQ) \in MgrH /\ Head(mgrQ) \in Range(mgrQ)
    BY <2>1, TailOnce DEF Types, SessionTypes
  <2>3. PICK c \in Call : Head(mgrQ) = HC("create", c) /\ c = Head(mgrQ).call
    BY <2>1, <2>2 DEF MgrH, HC
  <2>4. pc[c] = "create"
    BY <2>2, <2>3 DEF Created
  <2> QED BY <2>1, <2>3, <2>4 DEF Set, Types, CallTypes
<1>4. ASSUME NEW s \in Session \cup {NoSession}, DispatchStop(s)
      PROVE  on' = on /\ got' = got /\ pc' = pc /\ tm' = tm
  BY <1>4 DEF DispatchStop
<1>5. (\E x \in UserDone : Done(x)) \/ Stop \/ ClientStop \/ UNCHANGED vars
      => on' = on /\ got' = got /\ pc' = pc /\ tm' = tm
  BY DEF Done, Stop, ClientStop, vars
<1>6. ASSUME NEW s \in Session,
             \/ StartConnect(s) \/ Connected(s) \/ ConnectFailed(s) \/ SendWrite(s) \/ SendWait(s)
             \/ SendHeartBeat(s) \/ SendExit(s) \/ RecvExit(s) \/ SockStop(s)
      PROVE  on' = on /\ got' = got /\ pc' = pc /\ tm' = tm
  BY <1>6 DEF StartConnect, Connected, ConnectFailed, SendWrite, SendWait, SendHeartBeat, SendExit,
              RecvExit, SockStop
<1>7. ASSUME NEW s \in Session,
             \/ ConnectDone(s) \/ WriteDone(s) \/ ReadDone(s) \/ DeliverSock(s)
             \/ HeartBeatDue(s) \/ ConnectBreaks(s) \/ WriteBreaks(s) \/ ReadBreaks(s)
             \/ \E c \in Call : \E code \in ReplyCode[c] : ServerAnswers(s, c, code)
      PROVE  on' = on /\ got' = got /\ pc' = pc /\ tm' = tm
  BY <1>7 DEF ConnectDone, WriteDone, ReadDone, DeliverSock, HeartBeatDue, ConnectBreaks, WriteBreaks,
              ReadBreaks, ServerAnswers
<1> QED BY <1>1, <1>2, <1>3, <1>4, <1>5, <1>6, <1>7 DEF Elsewhere

LEMMA TurnIsName == Turn \subseteq Name /\ "over" \in Name /\ "reply" \in Name
                    /\ "over" \notin Turn /\ "reply" \notin Turn /\ SockName \subseteq Turn
BY DEF Turn, Name, SockName

\* A step that passes the turn of one call on and does nothing else.
LEMMA TurnsPass ==
  ASSUME Types, Turns, NEW s \in Session, NEW c \in Call, NEW n \in Turn, NEW m \in Turn, n # m,
         Passes(c, s, n, m), pc' = pc, on' = on, tm' = tm
  PROVE  Turns'
<1>1. /\ c \in At(n, s) /\ pc[c] = "call" /\ on[c] = s /\ tm[c] = "new"
      /\ \A x \in Session, k \in Turn : c \in At(k, x) => k = n /\ x = s
  BY DEF Passes, Turns
<1>2. \A k \in Name, x \in Session, d \in Call :
        d \in At(k, x)' <=> IF d = c /\ x = s /\ k = n THEN FALSE
                            ELSE d \in At(k, x) \/ (d = c /\ x = s /\ k = m)
  BY DEF Passes
<1>3. \A k \in Name, x \in Session : At(k, x)' \subseteq Call
  BY DEF At
<1>4. ASSUME NEW d \in Call, pc'[d] = "call"
      PROVE  on'[d] \in Session /\ (tm'[d] # "new" \/ \E k \in Turn, x \in Session : d \in At(k, x)')
  <2>1. CASE d = c
    <3>1. c \in At(m, s)'
      BY <1>2, TurnIsName
    <3> QED BY <1>1, <2>1, <3>1
  <2>2. CASE d # c
    <3>1. on[d] \in Session /\ (tm[d] # "new" \/ \E k \in Turn, x \in Session : d \in At(k, x))
      BY <1>4 DEF Turns
    <3>2. \A k \in Turn, x \in Session : d \in At(k, x) => d \in At(k, x)'
      BY <1>2, <2>2, TurnIsName
    <3> QED BY <3>1, <3>2
  <2> QED BY <2>1, <2>2
<1>5. \A k \in Turn, x \in Session : \A d \in At(k, x)' : pc'[d] = "call" /\ on'[d] = x /\ tm'[d] = "new"
  BY <1>1, <1>2, <1>3, TurnIsName DEF Turns
<1>6. \A x \in Session, k, j \in Turn : k # j => At(k, x)' \cap At(j, x)' = {}
  BY <1>1, <1>2, <1>3, TurnIsName DEF Turns
<1>7. \A x \in Session : \A d \in At("over", x)' : tm'[d] \in {"fired", "cancel"} /\ on'[d] = x
  BY <1>2, <1>3, TurnIsName DEF Turns
<1>8. \A d \in Call : tm'[d] # "new" => pc'[d] = "call"
  BY DEF Turns
<1> QED BY <1>4, <1>5, <1>6, <1>7, <1>8 DEF Turns

LEMMA TurnsStep == Types /\ Single /\ Turns /\ Fresh /\ Created /\ [Next]_vars => Turns'
<1> SUFFICES ASSUME Types, Single, Turns, Fresh, Created, [Next]_vars PROVE Turns'
  OBVIOUS
<1> USE DEF client, calls, queues, coros, data, net
<1>a. \A k \in Name, x \in Session : At(k, x) \subseteq Call /\ At(k, x)' \subseteq Call
  BY DEF At
<1>b. \A c \in Call : tm[c] \in {"new", "armed", "fired", "cancel"}
  BY DEF Types, CallTypes
<1>1. CASE Elsewhere
  <2>1. Unmoved
    BY <1>1, ElsewhereMoves
  <2>2. /\ on' = on
        /\ \A c \in Call :
             /\ pc'[c] = pc[c] \/ (pc[c] \notin {"call", "done"} /\ pc'[c] # "call")
             /\ tm'[c] = tm[c] \/ (tm[c] = "armed" /\ tm'[c] = "fired")
    BY <1>1, ElsewhereCalls
  <2>3. \A k \in Name, x \in Session : At(k, x)' = At(k, x)
    BY <2>1 DEF Unmoved
  <2>4. ASSUME NEW c \in Call, pc'[c] = "call"
        PROVE  on'[c] \in Session /\ (tm'[c] # "new" \/ \E k \in Turn, x \in Session : c \in At(k, x)')
    <3>1. pc[c] = "call"
      BY <2>2, <2>4
    <3>2. on[c] \in Session /\ (tm[c] # "new" \/ \E k \in Turn, x \in Session : c \in At(k, x))
      BY <3>1 DEF Turns
    <3>3. tm[c] # "new" => tm'[c] # "new"
      BY <2>2
    <3> QED BY <2>2, <2>3, <3>2, <3>3, TurnIsName
  <2>5. \A k \in Turn, x \in Session : \A d \in At(k, x)' : pc'[d] = "call" /\ on'[d] = x /\ tm'[d] = "new"
    <3> SUFFICES ASSUME NEW k \in Turn, NEW x \in Session, NEW d \in At(k, x)
                 PROVE  pc'[d] = "call" /\ on'[d] = x /\ tm'[d] = "new"
      BY <2>3, TurnIsName
    <3>1. pc[d] = "call" /\ on[d] = x /\ tm[d] = "new" /\ d \in Call
      BY <1>a, TurnIsName DEF Turns
    <3> QED BY <2>2, <3>1
  <2>6. \A x \in Session, k, j \in Turn : k # j => At(k, x)' \cap At(j, x)' = {}
    BY <2>3, TurnIsName DEF Turns
  <2>7. \A x \in Session : \A d \in At("over", x)' : tm'[d] \in {"fired", "cancel"} /\ on'[d] = x
    <3> SUFFICES ASSUME NEW x \in Session, NEW d \in At("over", x)
                 PROVE  tm'[d] \in {"fired", "cancel"} /\ on'[d] = x
      BY <2>3, TurnIsName
    <3>1. tm[d] \in {"fired", "cancel"} /\ on[d] = x /\ d \in Call
      BY <1>a, TurnIsName DEF Turns
    <3> QED BY <2>2, <3>1
  <2>8. \A d \in Call : tm'[d] # "new" => pc'[d] = "call"
    <3> SUFFICES ASSUME NEW d \in Call, tm'[d] # "new" PROVE pc'[d] = "call"
      OBVIOUS
    <3>1. tm[d] # "new"
      BY <2>2
    <3>2. pc[d] = "call"
      BY <3>1 DEF Turns
    <3> QED BY <2>2, <3>2
  <2> QED BY <2>4, <2>5, <2>6, <2>7, <2>8 DEF Turns
<1>2. ASSUME NEW c \in Call, TrySession(c) PROVE Turns'
  <2>0. PICK s \in Session : s = cur
    BY <1>2 DEF TrySession, Usable, Types, SessionTypes
  <2>1. /\ pc[c] = "try" /\ tm' = tm
        /\ on' = Set(on, c, s) /\ pc' = Set(pc, c, "call")
        /\ hndQ' = [hndQ EXCEPT ![s] = Append(@, HC("begin", c))] /\ sockQ' = sockQ
    BY <1>2, <2>0 DEF TrySession
  <2>2. Takes(c, s, "begin")
    BY <2>1, HndAppend
  <2>3. /\ on'[c] = s /\ pc'[c] = "call" /\ \A d \in Call \ {c} : on'[d] = on[d] /\ pc'[d] = pc[d]
    BY <2>1 DEF Set, Types, CallTypes
  <2>4. /\ tm[c] = "new" /\ \A k \in Turn, x \in Session : c \notin At(k, x)
        /\ \A x \in Session : c \notin At("over", x)
    BY <1>b, <2>1 DEF Turns
  <2>5. \A k \in Name, x \in Session, d \in Call :
          d \in At(k, x)' <=> d \in At(k, x) \/ (d = c /\ x = s /\ k = "begin")
    BY <2>2 DEF Takes
  <2>6. ASSUME NEW d \in Call, pc'[d] = "call"
        PROVE  on'[d] \in Session /\ (tm'[d] # "new" \/ \E k \in Turn, x \in Session : d \in At(k, x)')
    <3>1. CASE d = c
      <4>1. c \in At("begin", s)' /\ "begin" \in Turn
        BY <2>5 DEF Turn, Name
      <4> QED BY <2>1, <2>3, <3>1, <4>1
    <3>2. CASE d # c
      <4>1. on[d] \in Session /\ (tm[d] # "new" \/ \E k \in Turn, x \in Session : d \in At(k, x))
        BY <2>3, <2>6, <3>2 DEF Turns
      <4>2. \A k \in Turn, x \in Session : d \in At(k, x) => d \in At(k, x)'
        BY <2>5, TurnIsName
      <4> QED BY <2>1, <2>3, <3>2, <4>1, <4>2
    <3> QED BY <3>1, <3>2
  <2>7. \A k \in Turn, x \in Session : \A d \in At(k, x)' : pc'[d] = "call" /\ on'[d] = x /\ tm'[d] = "new"
    <3> SUFFICES ASSUME NEW k \in Turn, NEW x \in Session, NEW d \in Call, d \in At(k, x)'
                 PROVE  pc'[d] = "call" /\ on'[d] = x /\ tm'[d] = "new"
      BY <1>a, TurnIsName
    <3>1. CASE d = c
      BY <2>1, <2>3, <2>4, <2>5, <3>1, TurnIsName
    <3>2. CASE d # c
      <4>1. d \in At(k, x)
        BY <2>5, <3>2, TurnIsName
      <4>2. pc[d] = "call" /\ on[d] = x /\ tm[d] = "new"
        BY <4>1 DEF Turns
      <4> QED BY <2>1, <2>3, <3>2, <4>2
    <3> QED BY <3>1, <3>2
  <2>8. \A x \in Session, k, j \in Turn : k # j => At(k, x)' \cap At(j, x)' = {}
    <3> SUFFICES ASSUME NEW x \in Session, NEW k \in Turn, NEW j \in Turn, k # j,
                        NEW d \in Call, d \in At(k, x)', d \in At(j, x)'
                 PROVE  FALSE
      BY <1>a, TurnIsName
    <3>1. CASE d = c
      BY <2>4, <2>5, <3>1, TurnIsName
    <3>2. CASE d # c
      <4>1. d \in At(k, x) /\ d \in At(j, x)
        BY <2>5, <3>2, TurnIsName
      <4> QED BY <4>1 DEF Turns
    <3> QED BY <3>1, <3>2
  <2>9. \A x \in Session : \A d \in At("over", x)' : tm'[d] \in {"fired", "cancel"} /\ on'[d] = x
    <3> SUFFICES ASSUME NEW x \in Session, NEW d \in Call, d \in At("over", x)'
                 PROVE  tm'[d] \in {"fired", "cancel"} /\ on'[d] = x
      BY <1>a, TurnIsName
    <3>1. d \in At("over", x)
      BY <2>5, TurnIsName
    <3>2. d # c /\ tm[d] \in {"fired", "cancel"} /\ on[d] = x
      BY <2>4, <3>1 DEF Turns
    <3> QED BY <2>1, <2>3, <3>2
  <2>10. \A d \in Call : tm'[d] # "new" => pc'[d] = "call"
    <3> SUFFICES ASSUME NEW d \in Call, tm'[d] # "new" PROVE pc'[d] = "call"
      OBVIOUS
    <3>1. tm[d] # "new" => pc[d] = "call"
      BY DEF Turns
    <3> QED BY <2>1, <2>3, <3>1
  <2> QED BY <2>6, <2>7, <2>8, <2>9, <2>10 DEF Turns
<1>3. ASSUME NEW c \in Call, DeliverOver(c) PROVE Turns'
  <2>1. /\ tm[c] \in {"fired", "cancel"} /\ pc' = pc /\ on' = on /\ tm' = tm /\ sockQ' = sockQ
        /\ hndQ' = [hndQ EXCEPT ![on[c]] = Append(@, HC("over", c))]
    BY <1>3 DEF DeliverOver
  <2>2. pc[c] = "call"
    BY <2>1 DEF Turns
  <2>3. on[c] \in Session
    BY <2>2 DEF Turns
  <2>4. Takes(c, on[c], "over")
    BY <2>1, <2>3, HndAppend
  <2>5. /\ \A k \in Turn, x \in Session : At(k, x)' = At(k, x)
        /\ \A x \in Session : At("over", x)' = IF x = on[c] THEN At("over", x) \cup {c} ELSE At("over", x)
    BY <2>4, TurnIsName DEF Takes
  <2> QED BY <2>1, <2>5 DEF Turns
<1>4. ASSUME NEW s \in Session, Merge(s) \/ Merged(s) \/ BeginCall(s) PROVE Turns'
  <2>1. pc' = pc /\ on' = on /\ tm' = tm
    BY <1>4 DEF Merge, Merged, BeginCall
  <2>2. \E c \in Call : \/ Passes(c, s, "merge", "merged")
                        \/ Passes(c, s, "merged", "sent")
                        \/ Passes(c, s, "begin", "merge")
    BY <1>4, MergeMoves, MergedMoves, BeginMoves
  <2> QED BY <2>1, <2>2, TurnsPass DEF Turn
<1>5. ASSUME NEW s \in Session, AwaitReply(s) PROVE Turns'
  <2> DEFINE c == HndCall(s)
  <2>1. /\ OnHnd(s, "sent") /\ PopHnd(s) /\ sockQ' = sockQ /\ pc' = pc /\ on' = on
        /\ tm' = Set(tm, c, "armed")
    BY <1>5 DEF AwaitReply
  <2>2. c \in Call /\ Quits(c, s, "sent")
    BY <2>1, HndFront, HndPop
  <2>3. tm'[c] = "armed" /\ \A d \in Call \ {c} : tm'[d] = tm[d]
    BY <2>1, <2>2 DEF Set, Types, CallTypes
  <2> HIDE DEF c
  <2>4. "sent" \in Turn
    BY DEF Turn
  <2>5. /\ pc[c] = "call" /\ on[c] = s /\ tm[c] = "new" /\ c \in At("sent", s)
    BY <2>2, <2>4 DEF Quits, Turns
  <2>6. /\ \A k \in Turn, x \in Session : c \in At(k, x) => k = "sent" /\ x = s
        /\ \A x \in Session : c \notin At("over", x)
    BY <2>4, <2>5 DEF Turns
  <2>7. \A k \in Name, x \in Session, d \in Call :
          d \in At(k, x)' <=> d \in At(k, x) /\ ~(d = c /\ x = s /\ k = "sent")
    BY <2>2 DEF Quits
  <2>8. ASSUME NEW d \in Call, pc'[d] = "call"
        PROVE  on'[d] \in Session /\ (tm'[d] # "new" \/ \E k \in Turn, x \in Session : d \in At(k, x)')
    <3>1. on[d] \in Session /\ (tm[d] # "new" \/ \E k \in Turn, x \in Session : d \in At(k, x))
      BY <2>1, <2>8 DEF Turns
    <3>2. CASE d = c
      BY <2>1, <2>3, <3>1, <3>2
    <3>3. CASE d # c
      <4>1. \A k \in Turn, x \in Session : d \in At(k, x) => d \in At(k, x)'
        BY <2>7, <3>3, TurnIsName
      <4> QED BY <2>1, <2>3, <3>1, <3>3, <4>1
    <3> QED BY <3>2, <3>3
  <2>9. \A k \in Turn, x \in Session : \A d \in At(k, x)' : pc'[d] = "call" /\ on'[d] = x /\ tm'[d] = "new"
    <3> SUFFICES ASSUME NEW k \in Turn, NEW x \in Session, NEW d \in Call, d \in At(k, x)'
                 PROVE  pc'[d] = "call" /\ on'[d] = x /\ tm'[d] = "new"
      BY <1>a, TurnIsName
    <3>1. d \in At(k, x) /\ ~(d = c /\ x = s /\ k = "sent")
      BY <2>7, TurnIsName
    <3>2. d # c
      BY <2>6, <3>1
    <3>3. pc[d] = "call" /\ on[d] = x /\ tm[d] = "new"
      BY <3>1 DEF Turns
    <3> QED BY <2>1, <2>3, <3>2, <3>3
  <2>10. \A x \in Session, k, j \in Turn : k # j => At(k, x)' \cap At(j, x)' = {}
    <3>1. \A k \in Turn, x \in Session : At(k, x)' \subseteq At(k, x)
      BY <1>a, <2>7, TurnIsName
    <3> QED BY <3>1 DEF Turns
  <2>11. \A x \in Session : \A d \in At("over", x)' : tm'[d] \in {"fired", "cancel"} /\ on'[d] = x
    <3> SUFFICES ASSUME NEW x \in Session, NEW d \in Call, d \in At("over", x)'
                 PROVE  tm'[d] \in {"fired", "cancel"} /\ on'[d] = x
      BY <1>a, TurnIsName
    <3>1. d \in At("over", x)
      BY <2>7, TurnIsName
    <3>2. d # c /\ tm[d] \in {"fired", "cancel"} /\ on[d] = x
      BY <2>6, <3>1 DEF Turns
    <3> QED BY <2>1, <2>3, <3>2
  <2>12. \A d \in Call : tm'[d] # "new" => pc'[d] = "call"
    <3> SUFFICES ASSUME NEW d \in Call, tm'[d] # "new" PROVE pc'[d] = "call"
      OBVIOUS
    <3>1. tm[d] # "new" => pc[d] = "call"
      BY DEF Turns
    <3> QED BY <2>1, <2>3, <2>5, <3>1
  <2> QED BY <2>8, <2>9, <2>10, <2>11, <2>12 DEF Turns
<1>6. ASSUME NEW s \in Session, RecvReplies(s) PROVE Turns'
  <2>1. pc' = pc /\ on' = on /\ tm' = tm
    BY <1>6 DEF RecvReplies
  <2>2. \A k \in Turn \cup {"over"}, x \in Session : At(k, x)' = At(k, x)
    BY <1>6, RecvMoves, TurnIsName
  <2> QED BY <2>1, <2>2 DEF Turns
<1>7. ASSUME NEW s \in Session, HandleReply(s) PROVE Turns'
  <2>1. OnHnd(s, "reply") /\ PopHnd(s) /\ sockQ' = sockQ /\ pc' = pc /\ on' = on
    BY <1>7 DEF HandleReply
  <2>2. \A k \in Turn \cup {"over"}, x \in Session : At(k, x)' = At(k, x)
    BY <2>1, HndPop, TurnIsName
  <2>3. \A d \in Call : tm'[d] = tm[d] \/ (tm[d] = "armed" /\ tm'[d] = "cancel")
    BY <1>7 DEF HandleReply, Set, Types, CallTypes
  <2>4. ASSUME NEW d \in Call, pc'[d] = "call"
        PROVE  on'[d] \in Session /\ (tm'[d] # "new" \/ \E k \in Turn, x \in Session : d \in At(k, x)')
    <3>1. on[d] \in Session /\ (tm[d] # "new" \/ \E k \in Turn, x \in Session : d \in At(k, x))
      BY <2>1, <2>4 DEF Turns
    <3>2. tm[d] # "new" => tm'[d] # "new"
      BY <2>3
    <3> QED BY <2>1, <2>2, <3>1, <3>2
  <2>5. \A k \in Turn, x \in Session : \A d \in At(k, x)' : pc'[d] = "call" /\ on'[d] = x /\ tm'[d] = "new"
    <3> SUFFICES ASSUME NEW k \in Turn, NEW x \in Session, NEW d \in Call, d \in At(k, x)
                 PROVE  pc'[d] = "call" /\ on'[d] = x /\ tm'[d] = "new"
      BY <1>a, <2>2, TurnIsName
    <3>1. pc[d] = "call" /\ on[d] = x /\ tm[d] = "new"
      BY DEF Turns
    <3> QED BY <2>1, <2>3, <3>1
  <2>6. \A x \in Session, k, j \in Turn : k # j => At(k, x)' \cap At(j, x)' = {}
    BY <2>2 DEF Turns
  <2>7. \A x \in Session : \A d \in At("over", x)' : tm'[d] \in {"fired", "cancel"} /\ on'[d] = x
    <3> SUFFICES ASSUME NEW x \in Session, NEW d \in Call, d \in At("over", x)
                 PROVE  tm'[d] \in {"fired", "cancel"} /\ on'[d] = x
      BY <1>a, <2>2, TurnIsName
    <3>1. tm[d] \in {"fired", "cancel"} /\ on[d] = x
      BY DEF Turns
    <3> QED BY <2>1, <2>3, <3>1
  <2>8. \A d \in Call : tm'[d] # "new" => pc'[d] = "call"
    <3> SUFFICES ASSUME NEW d \in Call, tm'[d] # "new" PROVE pc'[d] = "call"
      OBVIOUS
    <3>1. tm[d] # "new"
      BY <2>3
    <3> QED BY <2>1, <3>1 DEF Turns
  <2> QED BY <2>4, <2>5, <2>6, <2>7, <2>8 DEF Turns
<1>8. ASSUME NEW s \in Session, EndCall(s) PROVE Turns'
  <2> DEFINE c == HndCall(s)
  <2>1. on' = on /\ tm' = Set(tm, c, "new") /\ pc' = Set(pc, c, "done")
    BY <1>8 DEF EndCall, Return
  <2>2. /\ c \in Call /\ Quits(c, s, "over") /\ pc[c] = "call" /\ on[c] = s
        /\ tm[c] \in {"fired", "cancel"}
    BY <1>8, OverCalls
  <2>3. /\ tm'[c] = "new" /\ pc'[c] = "done"
        /\ \A d \in Call \ {c} : tm'[d] = tm[d] /\ pc'[d] = pc[d]
    BY <2>1, <2>2 DEF Set, Types, CallTypes
  <2> HIDE DEF c
  <2>4. /\ \A k \in Turn, x \in Session : At(k, x)' = At(k, x)
        /\ \A x \in Session : At("over", x)' = IF x = s THEN At("over", x) \ {c} ELSE At("over", x)
    BY <2>2, TurnIsName DEF Quits
  <2>5. ASSUME NEW d \in Call, pc'[d] = "call"
        PROVE  on'[d] \in Session /\ (tm'[d] # "new" \/ \E k \in Turn, x \in Session : d \in At(k, x)')
    <3>1. d # c
      BY <2>3, <2>5
    <3>2. pc[d] = "call" /\ tm'[d] = tm[d]
      BY <2>3, <2>5, <3>1
    <3>3. on[d] \in Session /\ (tm[d] # "new" \/ \E k \in Turn, x \in Session : d \in At(k, x))
      BY <3>2 DEF Turns
    <3> QED BY <2>1, <2>4, <3>2, <3>3
  <2>6. \A k \in Turn, x \in Session : \A d \in At(k, x)' : pc'[d] = "call" /\ on'[d] = x /\ tm'[d] = "new"
    <3> SUFFICES ASSUME NEW k \in Turn, NEW x \in Session, NEW d \in Call, d \in At(k, x)
                 PROVE  pc'[d] = "call" /\ on'[d] = x /\ tm'[d] = "new"
      BY <1>a, <2>4, TurnIsName
    <3>1. pc[d] = "call" /\ on[d] = x /\ tm[d] = "new"
      BY DEF Turns
    <3>2. d # c
      BY <2>2, <3>1
    <3> QED BY <2>1, <2>3, <3>1, <3>2
  <2>7. \A x \in Session, k, j \in Turn : k # j => At(k, x)' \cap At(j, x)' = {}
    BY <2>4 DEF Turns
  <2>8. \A x \in Session : \A d \in At("over", x)' : tm'[d] \in {"fired", "cancel"} /\ on'[d] = x
    <3> SUFFICES ASSUME NEW x \in Session, NEW d \in Call, d \in At("over", x)'
                 PROVE  tm'[d] \in {"fired", "cancel"} /\ on'[d] = x
      BY <1>a, TurnIsName
    <3>1. d \in At("over", x) /\ ~(d = c /\ x = s)
      BY <2>4
    <3>2. tm[d] \in {"fired", "cancel"} /\ on[d] = x
      BY <3>1 DEF Turns
    <3>3. d # c
      BY <2>2, <3>1, <3>2
    <3> QED BY <2>1, <2>3, <3>2, <3>3
  <2>9. \A d \in Call : tm'[d] # "new" => pc'[d] = "call"
    <3> SUFFICES ASSUME NEW d \in Call, tm'[d] # "new" PROVE pc'[d] = "call"
      OBVIOUS
    <3>1. d # c /\ tm[d] # "new"
      BY <2>3
    <3>2. pc[d] = "call"
      BY <3>1 DEF Turns
    <3> QED BY <2>3, <3>1, <3>2
  <2> QED BY <2>5, <2>6, <2>7, <2>8, <2>9 DEF Turns
<1> QED BY <1>1, <1>2, <1>3, <1>4, <1>5, <1>6, <1>7, <1>8, NextCases

LEMMA SingleSock ==
  ASSUME Types, Single, NEW s \in Session, NEW q, Once(q, SockTurn), hndQ' = hndQ,
         sockQ' = Set(sockQ, s, q) \/ sockQ' = [sockQ EXCEPT ![s] = q]
  PROVE  Single'
<1>1. \A x \in Session : sockQ'[x] = IF x = s THEN q ELSE sockQ[x]
  BY DEF Set, Types, SessionTypes
<1> QED BY <1>1 DEF Single

LEMMA SingleHnd ==
  ASSUME Types, Single, NEW s \in Session, NEW q, Once(q, HndTurn), sockQ' = sockQ,
         hndQ' = Set(hndQ, s, q) \/ hndQ' = [hndQ EXCEPT ![s] = q]
  PROVE  Single'
<1>1. \A x \in Session : hndQ'[x] = IF x = s THEN q ELSE hndQ[x]
  BY DEF Set, Types, SessionTypes
<1> QED BY <1>1 DEF Single

LEMMA SingleBoth ==
  ASSUME Types, Single, NEW s \in Session, NEW p, Once(p, SockTurn), NEW q, Once(q, HndTurn),
         sockQ' = Set(sockQ, s, p) \/ sockQ' = [sockQ EXCEPT ![s] = p],
         hndQ' = Set(hndQ, s, q) \/ hndQ' = [hndQ EXCEPT ![s] = q]
  PROVE  Single'
<1>1. /\ \A x \in Session : hndQ'[x] = IF x = s THEN q ELSE hndQ[x]
      /\ \A x \in Session : sockQ'[x] = IF x = s THEN p ELSE sockQ[x]
  BY DEF Set, Types, SessionTypes
<1> QED BY <1>1 DEF Single

LEMMA SingleStep == Types /\ Single /\ Turns /\ Fresh /\ ReadsAlone /\ [Next]_vars => Single'
<1> SUFFICES ASSUME Types, Single, Turns, Fresh, ReadsAlone, [Next]_vars PROVE Single'
  OBVIOUS
<1> USE DEF queues
<1>q. \A s \in Session : /\ sockQ[s] \in Seq(SockH) /\ hndQ[s] \in Seq(HndH)
                         /\ Once(sockQ[s], SockTurn) /\ Once(hndQ[s], HndTurn)
  BY DEF Types, SessionTypes, Single
<1>0. CASE UNCHANGED queues
  BY <1>0 DEF Single
<1>1. ASSUME NEW s \in Session, NEW n, OnSock(s, n), sockQ' = Set(sockQ, s, Rest(s)), hndQ' = hndQ
      PROVE  Single'
  BY <1>1, SockFront, SingleSock
<1>2. ASSUME NEW s \in Session, Connected(s) PROVE Single'
  <2> DEFINE q == Rest(s) \o <<H("snd"), H("rcv")>>
  <2>1. OnSock(s, "con") /\ con[s].at = "connect" /\ hndQ' = hndQ /\ sockQ' = Set(sockQ, s, q)
    BY <1>2 DEF Connected, Coro
  <2>2. Begun(s)
    BY DEF Fresh
  <2>3. rcv[s].op = "none"
    BY <2>1, <2>2 DEF Begun, Ended, Coro
  <2>4. /\ Rest(s) \in Seq(SockH) /\ Once(Rest(s), SockTurn) /\ Range(Rest(s)) \subseteq Range(sockQ[s])
    BY <2>1, SockFront
  <2>5. H("rcv") \notin Range(Rest(s))
    BY <2>3, <2>4 DEF ReadsAlone
  <2>6. H("snd") # H("rcv") /\ H("snd") \in SockH /\ H("rcv") \in SockH /\ H("snd") \notin SockTurn
    BY Names, TurnNames
  <2>7. Once(q, SockTurn)
    <3> DEFINE t == Append(Rest(s), H("snd"))
    <3>1. /\ t \in Seq(SockH) /\ Once(t, SockTurn) /\ Range(t) = Range(Rest(s)) \cup {H("snd")}
      BY <2>4, <2>6, AppendOnce
    <3>2. q = Append(t, H("rcv"))
      BY <2>4, <2>6
    <3> HIDE DEF t, q
    <3> QED BY <2>5, <2>6, <3>1, <3>2, AppendOnce
  <2> QED BY <2>1, <2>7, SingleSock
<1>3. ASSUME NEW s \in Session, ConnectFailed(s) \/ StartConnect(s) PROVE Single'
  BY <1>1, <1>3 DEF ConnectFailed, StartConnect
<1>4. ASSUME NEW s \in Session, SendWrite(s) \/ SendWait(s) \/ SendHeartBeat(s) \/ SendExit(s) PROVE Single'
  BY <1>1, <1>4 DEF SendWrite, SendWait, SendHeartBeat, SendExit
<1>5. ASSUME NEW s \in Session, RecvExit(s) \/ SockStop(s) PROVE Single'
  BY <1>1, <1>5 DEF RecvExit, SockStop
<1>6. ASSUME NEW s \in Session, RecvReplies(s) PROVE Single'
  <2> DEFINE r == [i \in DOMAIN batch[s] |-> HC("reply", batch[s][i])]
  <2>1. OnSock(s, "rcv") /\ sockQ' = Set(sockQ, s, Rest(s)) /\ hndQ' = [hndQ EXCEPT ![s] = @ \o r]
    BY <1>6 DEF RecvReplies
  <2>2. batch[s] \in Seq(Call) /\ Range(batch[s]) \subseteq Call
    BY DEF Types, DataTypes, Range
  <2>3. r \in Seq(HndH) /\ Range(r) = {HC("reply", c) : c \in Range(batch[s])}
    BY <2>2, RepliesPosted
  <2> HIDE DEF r
  <2>4. \A h \in Range(r) : h \notin HndTurn
    BY <2>2, <2>3, TurnNames
  <2>5. Once(r, HndTurn)
    BY <2>4 DEF Once, Range
  <2>6. Range(hndQ[s]) \cap Range(r) \cap HndTurn = {}
    BY <2>4
  <2>7. Once(hndQ[s] \o r, HndTurn)
    BY <1>q, <2>3, <2>5, <2>6, ConcatOnce
  <2>8. Once(Rest(s), SockTurn)
    BY <2>1, SockFront
  <2>9. hndQ' = [hndQ EXCEPT ![s] = hndQ[s] \o r]
    BY <2>1
  <2> QED BY <2>1, <2>7, <2>8, <2>9, SingleBoth
<1>7. ASSUME NEW s \in Session, Merge(s) PROVE Single'
  <2> DEFINE c == Head(sockQ[s]).call
  <2>1. OnSock(s, "merge") /\ sockQ' = Set(sockQ, s, Append(Rest(s), HC("merged", c))) /\ hndQ' = hndQ
    BY <1>7 DEF Merge
  <2>2. c \in Call /\ c \in At("merge", s)
    BY <1>7, MergeMoves DEF Passes
  <2> HIDE DEF c
  <2>3. c \notin At("merged", s)
    BY <2>2 DEF Turns, Turn
  <2>4. Rest(s) \in Seq(SockH) /\ Once(Rest(s), SockTurn) /\ Range(Rest(s)) \subseteq Range(sockQ[s])
    BY <2>1, SockFront
  <2>5. HC("merged", c) \in SockH /\ HC("merged", c) \notin Range(Rest(s))
    BY <2>2, <2>3, <2>4, TurnNames DEF At, SockName
  <2>6. Once(Append(Rest(s), HC("merged", c)), SockTurn)
    BY <2>4, <2>5, AppendOnce
  <2> QED BY <2>1, <2>6, SingleSock
<1>8. ASSUME NEW s \in Session, Merged(s) PROVE Single'
  <2> DEFINE c == Head(sockQ[s]).call
  <2>1. /\ OnSock(s, "merged") /\ sockQ' = Set(sockQ, s, Rest(s))
        /\ hndQ' = [hndQ EXCEPT ![s] = Append(@, HC("sent", c))]
    BY <1>8 DEF Merged
  <2>2. c \in Call /\ c \in At("merged", s)
    BY <1>8, MergedMoves DEF Passes
  <2> HIDE DEF c
  <2>3. c \notin At("sent", s)
    BY <2>2 DEF Turns, Turn
  <2>4. Once(Rest(s), SockTurn)
    BY <2>1, SockFront
  <2>5. HC("sent", c) \in HndH /\ HC("sent", c) \notin Range(hndQ[s])
    BY <2>2, <2>3, Names DEF At, SockName
  <2>6. Once(Append(hndQ[s], HC("sent", c)), HndTurn)
    BY <1>q, <2>5, AppendOnce
  <2>7. hndQ' = [hndQ EXCEPT ![s] = Append(hndQ[s], HC("sent", c))]
    BY <2>1
  <2> QED BY <2>1, <2>4, <2>6, <2>7, SingleBoth
<1>9. ASSUME NEW s \in Session, BeginCall(s) PROVE Single'
  <2> DEFINE c == HndCall(s)
  <2>1. /\ OnHnd(s, "begin") /\ hndQ' = Set(hndQ, s, Tail(hndQ[s]))
        /\ sockQ' = [sockQ EXCEPT ![s] = Append(@, HC("merge", c))]
    BY <1>9 DEF BeginCall, PopHnd
  <2>2. c \in Call /\ c \in At("begin", s)
    BY <1>9, BeginMoves DEF Passes
  <2> HIDE DEF c
  <2>3. c \notin At("merge", s)
    BY <2>2 DEF Turns, Turn
  <2>4. Once(Tail(hndQ[s]), HndTurn)
    BY <2>1, HndFront
  <2>5. HC("merge", c) \in SockH /\ HC("merge", c) \notin Range(sockQ[s])
    BY <2>2, <2>3, TurnNames DEF At, SockName
  <2>6. Once(Append(sockQ[s], HC("merge", c)), SockTurn)
    BY <1>q, <2>5, AppendOnce
  <2>7. sockQ' = [sockQ EXCEPT ![s] = Append(sockQ[s], HC("merge", c))]
    BY <2>1
  <2> QED BY <2>1, <2>4, <2>6, <2>7, SingleBoth
<1>10. ASSUME NEW s \in Session, AwaitReply(s) \/ HandleReply(s) \/ EndCall(s) PROVE Single'
  <2>1. PICK n : OnHnd(s, n) /\ hndQ' = Set(hndQ, s, Tail(hndQ[s])) /\ sockQ' = sockQ
    BY <1>10 DEF AwaitReply, HandleReply, EndCall, PopHnd
  <2>2. Once(Tail(hndQ[s]), HndTurn)
    BY <2>1, HndFront
  <2> QED BY <2>1, <2>2, SingleHnd
<1>11. ASSUME NEW c \in Call, TrySession(c) PROVE Single'
  <2>1. PICK s \in Session : s = cur
    BY <1>11 DEF TrySession, Usable, Types, SessionTypes
  <2>2. pc[c] = "try" /\ hndQ' = [hndQ EXCEPT ![s] = Append(hndQ[s], HC("begin", c))] /\ sockQ' = sockQ
    BY <1>11, <2>1 DEF TrySession
  <2>3. c \notin At("begin", s)
    BY <2>2 DEF Turns, Turn
  <2>4. HC("begin", c) \in HndH /\ HC("begin", c) \notin Range(hndQ[s])
    BY <2>3, Names DEF At, SockName
  <2>5. Once(Append(hndQ[s], HC("begin", c)), HndTurn)
    BY <1>q, <2>4, AppendOnce
  <2> QED BY <2>2, <2>5, SingleHnd
<1>12. ASSUME NEW c \in Call, DeliverOver(c) PROVE Single'
  <2>1. tm[c] \in {"fired", "cancel"} /\ ~Queued(hndQ[on[c]], HC("over", c))
    BY <1>12 DEF DeliverOver
  <2>2. pc[c] = "call"
    BY <2>1 DEF Turns
  <2>3. PICK s \in Session : s = on[c]
    BY <2>2 DEF Turns
  <2>4. hndQ' = [hndQ EXCEPT ![s] = Append(hndQ[s], HC("over", c))] /\ sockQ' = sockQ
    BY <1>12, <2>3 DEF DeliverOver
  <2>5. HC("over", c) \in HndH /\ HC("over", c) \notin Range(hndQ[s])
    BY <2>1, <2>3, Names DEF Queued, Range
  <2>6. Once(Append(hndQ[s], HC("over", c)), HndTurn)
    BY <1>q, <2>5, AppendOnce
  <2> QED BY <2>4, <2>6, SingleHnd
<1>13. ASSUME NEW s \in Session, DeliverSock(s) PROVE Single'
  <2>1. PICK n \in {"con", "snd", "rcv"} :
           ~Queued(sockQ[s], H(n)) /\ sockQ' = [sockQ EXCEPT ![s] = Append(sockQ[s], H(n))] /\ hndQ' = hndQ
    <3>1. PICK x \in {<<"con", con[s]>>, <<"snd", snd[s]>>, <<"rcv", rcv[s]>>} :
             ~Queued(sockQ[s], H(x[1])) /\ sockQ' = [sockQ EXCEPT ![s] = Append(@, H(x[1]))]
      BY <1>13 DEF DeliverSock
    <3>2. x[1] \in {"con", "snd", "rcv"} /\ hndQ' = hndQ
      BY <1>13 DEF DeliverSock
    <3> QED BY <3>1, <3>2
  <2>2. H(n) \in SockH /\ H(n) \notin Range(sockQ[s])
    BY <2>1, Names DEF Queued, Range
  <2>3. Once(Append(sockQ[s], H(n)), SockTurn)
    BY <1>q, <2>2, AppendOnce
  <2> QED BY <2>1, <2>3, SingleSock
<1>14. ASSUME NEW s \in Session \cup {NoSession}, DispatchStop(s) PROVE Single'
  <2>1. CASE s = NoSession
    BY <1>0, <1>14, <2>1 DEF DispatchStop
  <2>2. CASE s # NoSession
    <3>1. s \in Session /\ sockQ' = [sockQ EXCEPT ![s] = Append(sockQ[s], H("stop"))] /\ hndQ' = hndQ
      BY <1>14, <2>2 DEF DispatchStop
    <3>2. H("stop") \in SockH /\ H("stop") \notin SockTurn
      BY Names, TurnNames
    <3>3. Once(Append(sockQ[s], H("stop")), SockTurn)
      BY <1>q, <3>1, <3>2, AppendOnce
    <3> QED BY <3>1, <3>3, SingleSock
  <2> QED BY <2>1, <2>2
<1>15. CASE Create
  <2>1. hndQ' = hndQ
    BY <1>15 DEF Create
  <2>2. CASE MustCreate
    <3>1. PICK s \in Session : sockQ' = Set(sockQ, s, <<H("con")>>)
      BY <1>15, <2>2 DEF Create
    <3>2. Once(<<H("con")>>, SockTurn)
      BY DEF Once
    <3> QED BY <2>1, <3>1, <3>2, SingleSock
  <2>3. CASE ~MustCreate
    BY <1>0, <1>15, <2>1, <2>3 DEF Create
  <2> QED BY <2>2, <2>3
<1>16. ASSUME NEW c \in Call, Invoke(c) \/ TryStopped(c) \/ TryCreate(c) \/ SpawnCreate(c)
                              \/ WaitTimesOut(c) \/ DeadlinePasses(c)
       PROVE  Single'
  BY <1>0, <1>16 DEF Invoke, TryStopped, TryCreate, SpawnCreate, WaitTimesOut, DeadlinePasses
<1>17. CASE (\E x \in UserDone : Done(x)) \/ Stop \/ ClientStop \/ UNCHANGED vars
  BY <1>0, <1>17 DEF Done, Stop, ClientStop, vars
<1>18. ASSUME NEW s \in Session,
              \/ ConnectDone(s) \/ WriteDone(s) \/ ReadDone(s) \/ HeartBeatDue(s) \/ ConnectBreaks(s)
              \/ WriteBreaks(s) \/ ReadBreaks(s)
              \/ \E c \in Call : \E code \in ReplyCode[c] : ServerAnswers(s, c, code)
       PROVE  Single'
  BY <1>0, <1>18 DEF ConnectDone, WriteDone, ReadDone, HeartBeatDue, ConnectBreaks, WriteBreaks,
                     ReadBreaks, ServerAnswers
<1>19. ASSUME NEW s \in Session, SessionStep(s) PROVE Single'
  BY <1>19, <1>2, <1>3, <1>4, <1>5, <1>6, <1>7, <1>8, <1>9, <1>10, <1>13, <1>18
     DEF SessionStep, SockStrand, HndStrand
<1>20. ASSUME NEW c \in Call, CallStep(c) PROVE Single'
  BY <1>20, <1>11, <1>12, <1>16 DEF CallStep
<1> QED BY <1>14, <1>15, <1>16, <1>17, <1>18, <1>19, <1>20 DEF Next

-----------------------------------------------------------------------------
(***************************************************************************)
(* Places.                                                                 *)
(***************************************************************************)
\* The steps that move no request.
Quiet ==
  /\ buf' = buf /\ writing' = writing /\ sent' = sent /\ answered' = answered
  /\ \A x \in Session : snd'[x] = Coro("write", "none") => snd[x] = Coro("write", "none")

LEMMA DataCases ==
  ASSUME Types, [Next]_vars
  PROVE  \/ Quiet
         \/ \E s \in Session : \/ SendWrite(s) \/ Merge(s) \/ (WriteDone(s) /\ sock[s])
                               \/ \E c \in Call : \E code \in ReplyCode[c] : ServerAnswers(s, c, code)
<1> USE DEF client, calls, queues, coros, data, net
<1>1. ASSUME snd' = snd, UNCHANGED <<data, sent, answered>> PROVE Quiet
  BY <1>1 DEF Quiet
<1>2. ASSUME NEW s \in Session, StartConnect(s) \/ RecvReplies(s) \/ Merged(s) PROVE Quiet
  BY <1>1, <1>2 DEF StartConnect, RecvReplies, Merged
<1>3. ASSUME NEW s \in Session, NEW d \in SndT, d # Coro("write", "none"), snd' = Set(snd, s, d),
             UNCHANGED <<data, sent, answered>>
      PROVE  Quiet
  BY <1>3 DEF Quiet, Set, Types, SessionTypes
<1>4. ASSUME NEW s \in Session, Connected(s) \/ SendWait(s) \/ SendHeartBeat(s) PROVE Quiet
  BY <1>3, <1>4, CoroNames DEF Connected, SendWait, SendHeartBeat
<1>5. ASSUME NEW s \in Session, WriteBreaks(s) \/ HeartBeatDue(s) PROVE Quiet
  <2>1. CASE WriteBreaks(s)
    <3>1. snd' = Set(snd, s, Coro(snd[s].at, "error")) /\ snd[s].at \in {"write", "beat"}
      BY <2>1 DEF WriteBreaks
    <3>2. Coro(snd[s].at, "error") \in SndT /\ Coro(snd[s].at, "error") # Coro("write", "none")
      BY <3>1, CoroNames
    <3> QED BY <1>3, <2>1, <3>1, <3>2 DEF WriteBreaks
  <2>2. CASE HeartBeatDue(s)
    BY <1>3, <2>2, CoroNames DEF HeartBeatDue
  <2> QED BY <1>5, <2>1, <2>2
<1>6. ASSUME NEW s \in Session, WriteDone(s), ~sock[s] PROVE Quiet
  <2>1. snd' = Set(snd, s, Coro(snd[s].at, "error")) /\ snd[s].at \in {"write", "beat"}
    BY <1>6 DEF WriteDone
  <2>2. Coro(snd[s].at, "error") \in SndT /\ Coro(snd[s].at, "error") # Coro("write", "none")
    BY <2>1, CoroNames
  <2> QED BY <1>3, <1>6, <2>1, <2>2 DEF WriteDone
<1>7. ASSUME NEW s \in Session, ConnectFailed(s) \/ SendExit(s) \/ RecvExit(s) \/ SockStop(s) PROVE Quiet
  <2>1. con[s] \in ConT /\ snd[s] \in SndT /\ rcv[s] \in RcvT
    BY DEF Types, SessionTypes
  <2>2. PICK k \in ConT, d \in SndT, r \in RcvT :
          /\ CloseSocket(s, k, d, r) \/ LeaveAndStop(s, k, d, r)
          /\ d = snd[s] \/ d = Ended
    BY <1>7, <2>1, CoroNames DEF ConnectFailed, SendExit, RecvExit, SockStop
  <2>3. /\ \A x \in Session \ {s} : snd'[x] = snd[x]
        /\ snd'[s] = d \/ snd'[s].op \in {"cancel", "error"}
    BY <2>2, CloseEffect
  <2>4. snd'[s] = Coro("write", "none") => snd[s] = Coro("write", "none")
    BY <2>2, <2>3, CoroNames
  <2>5. UNCHANGED <<data, sent, answered>>
    BY <1>7 DEF ConnectFailed, SendExit, RecvExit, SockStop
  <2> QED BY <2>3, <2>4, <2>5 DEF Quiet
<1>8. ASSUME NEW c \in Call, Invoke(c) \/ TrySession(c) \/ TryStopped(c) \/ TryCreate(c) \/ SpawnCreate(c)
      PROVE  Quiet
  BY <1>1, <1>8 DEF Invoke, TrySession, TryStopped, TryCreate, SpawnCreate
<1>9. ASSUME NEW c \in Call, WaitTimesOut(c) \/ DeliverOver(c) \/ DeadlinePasses(c) PROVE Quiet
  BY <1>1, <1>9 DEF WaitTimesOut, DeliverOver, DeadlinePasses
<1>10. Create \/ Stop \/ ClientStop \/ (\E s \in Session \cup {NoSession} : DispatchStop(s))
         \/ (\E x \in UserDone : Done(x)) \/ UNCHANGED vars => Quiet
  BY <1>1 DEF Create, Stop, ClientStop, DispatchStop, Done, vars
<1>11. ASSUME NEW s \in Session, BeginCall(s) \/ EndCall(s) \/ AwaitReply(s) \/ HandleReply(s) PROVE Quiet
  <2>1. snd' = snd /\ buf' = buf /\ writing' = writing /\ sent' = sent /\ answered' = answered
    BY <1>11 DEF BeginCall, EndCall, AwaitReply, HandleReply
  <2> QED BY <2>1 DEF Quiet
<1>12. ASSUME NEW s \in Session, ConnectDone(s) \/ ConnectBreaks(s) \/ ReadDone(s) \/ ReadBreaks(s) \/ DeliverSock(s)
       PROVE  Quiet
  BY <1>1, <1>12 DEF ConnectDone, ConnectBreaks, ReadDone, ReadBreaks, DeliverSock
<1>13. ASSUME NEW s \in Session, SockStrand(s) PROVE Quiet \/ SendWrite(s) \/ Merge(s)
  BY <1>2, <1>4, <1>7, <1>13 DEF SockStrand
<1>14. ASSUME NEW s \in Session, SessionStep(s)
       PROVE  Quiet \/ SendWrite(s) \/ Merge(s) \/ (WriteDone(s) /\ sock[s])
  BY <1>6, <1>11, <1>12, <1>13, <1>14 DEF SessionStep, HndStrand
<1>15. ASSUME NEW c \in Call, Invoke(c) \/ CallStep(c) \/ DeadlinePasses(c) PROVE Quiet
  BY <1>8, <1>9, <1>15 DEF CallStep
<1> QED BY <1>5, <1>10, <1>12, <1>14, <1>15 DEF Next

\* A call in a session, or back from it, keeps its session.
LEMMA CallsStay ==
  ASSUME Types, Single, Turns, Created, [Next]_vars
  PROVE  \A c \in Call : pc[c] \in {"call", "done"} =>
           pc'[c] \in {"call", "done"} /\ (pc[c] = "done" => pc'[c] = "done") /\ on'[c] = on[c]
<1> USE DEF client, calls, queues, coros, data, net
<1>1. CASE Elsewhere
  BY <1>1, ElsewhereCalls
<1>2. ASSUME NEW c \in Call, TrySession(c) \/ DeliverOver(c)
      PROVE  \A d \in Call : pc[d] \in {"call", "done"} => pc'[d] = pc[d] /\ on'[d] = on[d]
  <2>1. CASE DeliverOver(c)
    BY <2>1 DEF DeliverOver
  <2>2. CASE TrySession(c)
    <3>1. pc[c] = "try" /\ pc' = Set(pc, c, "call") /\ on' = Set(on, c, cur)
      BY <2>2 DEF TrySession
    <3> QED BY <3>1 DEF Set, Types, CallTypes
  <2> QED BY <1>2, <2>1, <2>2
<1>3. ASSUME NEW s \in Session, RecvReplies(s) \/ Merge(s) \/ Merged(s) \/ BeginCall(s)
      PROVE  pc' = pc /\ on' = on
  BY <1>3 DEF RecvReplies, Merge, Merged, BeginCall
<1>4. ASSUME NEW s \in Session, AwaitReply(s) \/ HandleReply(s) PROVE pc' = pc /\ on' = on
  BY <1>4 DEF AwaitReply, HandleReply
<1>5. ASSUME NEW s \in Session, EndCall(s)
      PROVE  /\ on' = on
             /\ \A d \in Call : pc[d] \in {"call", "done"} =>
                  pc'[d] \in {"call", "done"} /\ (pc[d] = "done" => pc'[d] = "done")
  <2>1. on' = on /\ pc' = Set(pc, HndCall(s), "done")
    BY <1>5 DEF EndCall, Return
  <2> QED BY <2>1 DEF Set, Types, CallTypes
<1> QED BY <1>1, <1>2, <1>3, <1>4, <1>5, NextCases

\* Only TrySession brings a call to the handlers before the merge.
LEMMA EarlyCases ==
  ASSUME Types, Single, Turns, Fresh, [Next]_vars
  PROVE  \/ \E c \in Call : TrySession(c)
         \/ \A x \in Session : Early(x)' \subseteq Early(x)
<1>0. /\ {"begin", "merge"} \subseteq Name
      /\ \A n \in {"merged", "sent", "over", "reply"} : n \in Name /\ n \notin {"begin", "merge"}
  BY DEF Name, SockName
<1>1. CASE Unmoved
  BY <1>0, <1>1 DEF Unmoved, Early
<1>2. ASSUME NEW c \in Call, DeliverOver(c) PROVE Unmoved \/ \A x \in Session : Early(x)' \subseteq Early(x)
  <2>1. tm[c] \in {"fired", "cancel"} /\ sockQ' = sockQ
    BY <1>2 DEF DeliverOver, queues
  <2>2. pc[c] = "call"
    BY <2>1 DEF Turns
  <2>3. PICK s \in Session : s = on[c]
    BY <2>2 DEF Turns
  <2>4. hndQ' = [hndQ EXCEPT ![s] = Append(@, HC("over", c))]
    BY <1>2, <2>3 DEF DeliverOver
  <2>5. Takes(c, s, "over")
    BY <2>1, <2>4, HndAppend
  <2> QED BY <1>0, <2>5 DEF Takes, Early
<1>3. ASSUME NEW s \in Session, RecvReplies(s) PROVE \A x \in Session : Early(x)' \subseteq Early(x)
  BY <1>0, <1>3, RecvMoves DEF Early
<1>4. ASSUME NEW s \in Session, NEW c, NEW n, NEW m,
             Passes(c, s, n, m), m \in {"merged", "sent"} \/ (n = "begin" /\ m = "merge")
      PROVE  \A x \in Session : Early(x)' \subseteq Early(x)
  <2>1. c \in At(n, s) /\ \A k \in Name, x \in Session :
           At(k, x)' \subseteq At(k, x) \cup (IF x = s /\ k = m THEN {c} ELSE {})
    BY <1>4 DEF Passes
  <2> QED BY <1>0, <1>4, <2>1 DEF Early
<1>5. ASSUME NEW s \in Session, Merge(s) \/ Merged(s) \/ BeginCall(s)
      PROVE  \A x \in Session : Early(x)' \subseteq Early(x)
  BY <1>4, <1>5, MergeMoves, MergedMoves, BeginMoves
<1>6. ASSUME NEW s \in Session, AwaitReply(s) \/ HandleReply(s) \/ EndCall(s)
      PROVE  \A x \in Session : Early(x)' \subseteq Early(x)
  <2>1. PICK n \in {"sent", "over", "reply"} : OnHnd(s, n) /\ PopHnd(s) /\ sockQ' = sockQ
    BY <1>6 DEF AwaitReply, HandleReply, EndCall
  <2>2. \A k \in {"begin", "merge"}, x \in Session : At(k, x)' = At(k, x)
    BY <1>0, <2>1, HndPop
  <2> QED BY <2>2 DEF Early
<1> QED BY <1>1, <1>2, <1>3, <1>5, <1>6, NextCases, ElsewhereMoves

\* The places of a session's requests, when no request enters one of them.
LEMMA PlacesKept ==
  ASSUME Types, Single, Turns, Created, [Next]_vars, Places, NEW s \in Session,
         Early(s)' \subseteq Early(s), Range(buf[s])' \subseteq Range(buf[s]),
         Flying(s)' \subseteq Flying(s), sent'[s] \subseteq sent[s], answered' = answered
  PROVE  /\ \A c \in Range(buf'[s]) \cup Flying(s)' \cup sent'[s] : on'[c] = s /\ pc'[c] \in {"call", "done"}
         /\ Early(s)' \cap (Range(buf'[s]) \cup Flying(s)' \cup sent'[s] \cup answered') = {}
         /\ Range(buf'[s]) \cap (Flying(s)' \cup sent'[s] \cup answered') = {}
         /\ Flying(s)' \cap (sent'[s] \cup answered') = {}
         /\ sent'[s] \cap answered' = {}
<1>1. Range(buf[s]) \cup Flying(s) \cup sent[s] \subseteq Call
  BY DEF Types, DataTypes, Flying, Range
<1>2. \A c \in Range(buf[s]) \cup Flying(s) \cup sent[s] : on'[c] = s /\ pc'[c] \in {"call", "done"}
  <2> SUFFICES ASSUME NEW c \in Range(buf[s]) \cup Flying(s) \cup sent[s]
               PROVE  on'[c] = s /\ pc'[c] \in {"call", "done"}
    OBVIOUS
  <2>1. c \in Call /\ on[c] = s /\ pc[c] \in {"call", "done"}
    BY <1>1 DEF Places
  <2> QED BY <2>1, CallsStay
<1>3. /\ Early(s) \cap (Range(buf[s]) \cup Flying(s) \cup sent[s] \cup answered) = {}
      /\ Range(buf[s]) \cap (Flying(s) \cup sent[s] \cup answered) = {}
      /\ Flying(s) \cap (sent[s] \cup answered) = {}
      /\ sent[s] \cap answered = {}
  BY DEF Places
<1>4. Range(buf'[s]) \subseteq Range(buf[s])
  OBVIOUS
<1> QED BY <1>2, <1>3, <1>4

\* The same when the calls of the session do not move either.
LEMMA AnsweredStay ==
  ASSUME Types, Single, Turns, Created, [Next]_vars, Places
  PROVE  \A c \in answered : c \in Call /\ pc'[c] \in {"call", "done"}
<1>1. \A c \in answered : c \in Call /\ pc[c] \in {"call", "done"}
  BY DEF Places, Types, DataTypes
<1> QED BY <1>1, CallsStay

LEMMA PlacesStep ==
  Types /\ Single /\ Turns /\ Fresh /\ Created /\ Places /\ [Next]_vars => Places'
<1> SUFFICES ASSUME Types, Single, Turns, Fresh, Created, Places, [Next]_vars PROVE Places'
  OBVIOUS
<1> USE DEF client, calls, queues, coros, data, net
<1>a. \A c \in answered : c \in Call /\ pc'[c] \in {"call", "done"}
  BY AnsweredStay
<1>b. \A s \in Session : /\ Early(s) \subseteq Call /\ Range(buf[s]) \subseteq Call
                         /\ Flying(s) \subseteq Call /\ sent[s] \subseteq Call
  BY DEF Types, DataTypes, Range, Early, At, Flying
<1>c. ASSUME NEW s \in Session
      PROVE  /\ \A c \in Early(s) : pc[c] = "call" /\ on[c] = s /\ tm[c] = "new"
             /\ At("begin", s) \cap At("merge", s) = {}
  BY DEF Early, Turns, Turn
<1>1. ASSUME Quiet, \A x \in Session : Early(x)' \subseteq Early(x) PROVE Places'
  <2>1. \A x \in Session : Flying(x)' \subseteq Flying(x)
    BY <1>1 DEF Quiet, Flying
  <2>2. buf' = buf /\ sent' = sent /\ answered' = answered
    BY <1>1 DEF Quiet
  <2> QED BY <1>a, <1>1, <2>1, <2>2, PlacesKept DEF Places
<1>2. ASSUME NEW c \in Call, TrySession(c) PROVE Places'
  <2>1. PICK s \in Session : s = cur
    BY <1>2 DEF TrySession, Usable, Types, SessionTypes
  <2>2. /\ pc[c] = "try" /\ on' = Set(on, c, s) /\ pc' = Set(pc, c, "call") /\ sockQ' = sockQ
        /\ hndQ' = [hndQ EXCEPT ![s] = Append(@, HC("begin", c))]
        /\ buf' = buf /\ writing' = writing /\ snd' = snd /\ sent' = sent /\ answered' = answered
    BY <1>2, <2>1 DEF TrySession
  <2>3. Takes(c, s, "begin")
    BY <2>2, HndAppend
  <2>4. \A x \in Session : /\ Early(x)' = IF x = s THEN Early(x) \cup {c} ELSE Early(x)
                           /\ Flying(x)' = Flying(x)
    BY <2>2, <2>3 DEF Takes, Early, Flying, Name, SockName
  <2>5. ASSUME NEW x \in Session
        PROVE  /\ c \notin answered /\ c \notin Range(buf[x]) \cup Flying(x) \cup sent[x]
    BY <2>2 DEF Places
  <2>6. ASSUME NEW x \in Session, NEW d \in Range(buf[x]) \cup Flying(x) \cup sent[x]
        PROVE  on'[d] = x /\ pc'[d] \in {"call", "done"}
    <3>1. d \in Call /\ on[d] = x /\ pc[d] \in {"call", "done"}
      BY <1>b DEF Places
    <3> QED BY <3>1, CallsStay
  <2>7. ASSUME NEW x \in Session
        PROVE  /\ Early(x) \cap (Range(buf[x]) \cup Flying(x) \cup sent[x] \cup answered) = {}
               /\ Range(buf[x]) \cap (Flying(x) \cup sent[x] \cup answered) = {}
               /\ Flying(x) \cap (sent[x] \cup answered) = {}
               /\ sent[x] \cap answered = {}
    BY DEF Places
  <2>8. ASSUME NEW x \in Session
        PROVE  Early(x)' \cap (Range(buf[x]) \cup Flying(x) \cup sent[x] \cup answered) = {}
    BY <2>4, <2>5, <2>7
  <2> QED BY <1>a, <2>2, <2>4, <2>6, <2>7, <2>8 DEF Places
<1>3. ASSUME NEW s \in Session, Merge(s) PROVE Places'
  <2>1. PICK c \in Call : /\ Passes(c, s, "merge", "merged")
                          /\ buf' = [buf EXCEPT ![s] = Append(@, c)] /\ snd' = Set(snd, s, Woken(snd[s]))
    BY <1>3, MergeMoves DEF Merge
  <2>2. writing' = writing /\ sent' = sent /\ answered' = answered /\ pc' = pc /\ on' = on
    BY <1>3 DEF Merge
  <2>3. \A x \in Session : /\ Early(x)' = IF x = s THEN Early(x) \ {c} ELSE Early(x)
                           /\ Flying(x)' = Flying(x)
    <3>1. \A x \in Session : Early(x)' = IF x = s THEN Early(x) \ {c} ELSE Early(x)
      <4>1. c \in At("merge", s) /\ c \notin At("begin", s)
        BY <1>c, <2>1 DEF Passes
      <4> QED BY <2>1, <4>1 DEF Passes, Early, Name, SockName
    <3>2. \A x \in Session : snd'[x] = Coro("write", "none") <=> snd[x] = Coro("write", "none")
      BY <2>1, CoroNames DEF Set, Woken, Awaits, Types, SessionTypes
    <3> QED BY <2>2, <3>1, <3>2 DEF Flying
  <2>4. \A x \in Session : Range(buf'[x]) = IF x = s THEN Range(buf[x]) \cup {c} ELSE Range(buf[x])
    BY <2>1, AppendOnce DEF Types, DataTypes
  <2>5. c \in Early(s) /\ pc[c] = "call" /\ on[c] = s
    BY <1>c, <2>1 DEF Passes, Early
  <2>6. ASSUME NEW x \in Session
        PROVE  /\ \A d \in Range(buf[x]) \cup Flying(x) \cup sent[x] : on[d] = x /\ pc[d] \in {"call", "done"}
               /\ Early(x) \cap (Range(buf[x]) \cup Flying(x) \cup sent[x] \cup answered) = {}
               /\ Range(buf[x]) \cap (Flying(x) \cup sent[x] \cup answered) = {}
               /\ Flying(x) \cap (sent[x] \cup answered) = {}
               /\ sent[x] \cap answered = {}
    BY DEF Places
  <2>7. ASSUME NEW x \in Session
        PROVE  /\ \A d \in Range(buf'[x]) \cup Flying(x) \cup sent[x] : on[d] = x /\ pc[d] \in {"call", "done"}
               /\ Early(x)' \cap (Range(buf'[x]) \cup Flying(x) \cup sent[x] \cup answered) = {}
               /\ Range(buf'[x]) \cap (Flying(x) \cup sent[x] \cup answered) = {}
    <3>1. CASE x = s
      <4>1. Early(x)' = Early(x) \ {c} /\ Range(buf'[x]) = Range(buf[x]) \cup {c} /\ c \in Early(x)
        BY <2>3, <2>4, <2>5, <3>1
      <4>2. c \notin Flying(x) \cup sent[x] \cup answered
        BY <2>6, <4>1
      <4>3. \A d \in Range(buf'[x]) \cup Flying(x) \cup sent[x] : on[d] = x /\ pc[d] \in {"call", "done"}
        BY <2>5, <2>6, <3>1, <4>1
      <4>4. /\ Early(x)' \cap (Range(buf'[x]) \cup Flying(x) \cup sent[x] \cup answered) = {}
            /\ Range(buf'[x]) \cap (Flying(x) \cup sent[x] \cup answered) = {}
        BY <2>6, <4>1, <4>2
      <4> QED BY <4>3, <4>4
    <3>2. CASE x # s
      BY <2>3, <2>4, <2>6, <3>2
    <3> QED BY <3>1, <3>2
  <2> QED BY <1>a, <2>2, <2>3, <2>6, <2>7 DEF Places
<1>4. ASSUME NEW s \in Session, SendWrite(s) PROVE Places'
  <2>1. /\ buf' = Set(buf, s, <<>>) /\ writing' = Set(writing, s, buf[s])
        /\ snd' = Set(snd, s, Coro("write", "none")) /\ sent' = sent /\ answered' = answered
        /\ pc' = pc /\ on' = on
    BY <1>4 DEF SendWrite
  <2>2. Elsewhere
    BY <1>4 DEF Elsewhere
  <2>3. \A x \in Session : Early(x)' = Early(x)
    BY <2>2, ElsewhereMoves DEF Unmoved, Early, Name, SockName
  <2>4. \A x \in Session : Range(buf'[x]) = IF x = s THEN {} ELSE Range(buf[x])
    BY <2>1, EmptyOnce DEF Set, Types, DataTypes
  <2>5. \A x \in Session : Flying(x)' = IF x = s THEN Range(buf[x]) ELSE Flying(x)
    BY <2>1 DEF Set, Flying, Types, SessionTypes, DataTypes
  <2>6. ASSUME NEW x \in Session
        PROVE  /\ \A d \in Range(buf[x]) \cup Flying(x) \cup sent[x] : on[d] = x /\ pc[d] \in {"call", "done"}
               /\ Early(x) \cap (Range(buf[x]) \cup Flying(x) \cup sent[x] \cup answered) = {}
               /\ Range(buf[x]) \cap (Flying(x) \cup sent[x] \cup answered) = {}
               /\ Flying(x) \cap (sent[x] \cup answered) = {}
               /\ sent[x] \cap answered = {}
    BY DEF Places
  <2>7. ASSUME NEW x \in Session
        PROVE  /\ \A d \in Range(buf'[x]) \cup Flying(x)' \cup sent[x] : on[d] = x /\ pc[d] \in {"call", "done"}
               /\ Early(x)' \cap (Range(buf'[x]) \cup Flying(x)' \cup sent[x] \cup answered) = {}
               /\ Range(buf'[x]) \cap (Flying(x)' \cup sent[x] \cup answered) = {}
               /\ Flying(x)' \cap (sent[x] \cup answered) = {}
    BY <2>3, <2>4, <2>5, <2>6
  <2> QED BY <1>a, <2>1, <2>6, <2>7 DEF Places
<1>5. ASSUME NEW s \in Session, WriteDone(s), sock[s] PROVE Places'
  <2>1. /\ snd[s].at \in {"write", "beat"} /\ snd[s].op = "none"
        /\ snd' = Set(snd, s, Coro(snd[s].at, "ok")) /\ writing' = Set(writing, s, <<>>)
        /\ sent' = [sent EXCEPT ![s] = @ \cup Range(writing[s])]
        /\ buf' = buf /\ answered' = answered /\ pc' = pc /\ on' = on
    BY <1>5 DEF WriteDone, Range
  <2>2. Elsewhere
    BY <1>5 DEF Elsewhere
  <2>3. \A x \in Session : Early(x)' = Early(x)
    BY <2>2, ElsewhereMoves DEF Unmoved, Early, Name, SockName
  <2>4. Range(writing[s]) = Flying(s)
    <3>1. CASE snd[s].at = "write"
      <4>1. snd[s] = Coro("write", "none")
        BY <2>1, <3>1, CoroNames DEF Coro, Ended, SndT, Types, SessionTypes
      <4> QED BY <4>1 DEF Flying
    <3>2. CASE snd[s].at = "beat"
      <4>1. writing[s] = <<>>
        BY <3>2 DEF Fresh, Begun
      <4> QED BY <3>2, <4>1, CoroNames, EmptyOnce DEF Flying
    <3> QED BY <2>1, <3>1, <3>2
  <2>5. \A x \in Session : /\ sent'[x] = IF x = s THEN sent[x] \cup Flying(x) ELSE sent[x]
                           /\ Flying(x)' = IF x = s THEN {} ELSE Flying(x)
    <3>1. \A x \in Session : sent'[x] = IF x = s THEN sent[x] \cup Flying(x) ELSE sent[x]
      BY <2>1, <2>4 DEF Types, DataTypes
    <3>2. snd'[s] # Coro("write", "none") /\ \A x \in Session \ {s} : snd'[x] = snd[x] /\ writing'[x] = writing[x]
      BY <2>1, CoroNames DEF Set, Types, SessionTypes, DataTypes
    <3> QED BY <3>1, <3>2 DEF Flying
  <2>6. ASSUME NEW x \in Session
        PROVE  /\ \A d \in Range(buf[x]) \cup Flying(x) \cup sent[x] : on[d] = x /\ pc[d] \in {"call", "done"}
               /\ Early(x) \cap (Range(buf[x]) \cup Flying(x) \cup sent[x] \cup answered) = {}
               /\ Range(buf[x]) \cap (Flying(x) \cup sent[x] \cup answered) = {}
               /\ Flying(x) \cap (sent[x] \cup answered) = {}
               /\ sent[x] \cap answered = {}
    BY DEF Places
  <2>7. ASSUME NEW x \in Session
        PROVE  /\ \A d \in Range(buf[x]) \cup Flying(x)' \cup sent'[x] : on[d] = x /\ pc[d] \in {"call", "done"}
               /\ Early(x)' \cap (Range(buf[x]) \cup Flying(x)' \cup sent'[x] \cup answered) = {}
               /\ Range(buf[x]) \cap (Flying(x)' \cup sent'[x] \cup answered) = {}
               /\ Flying(x)' \cap (sent'[x] \cup answered) = {}
               /\ sent'[x] \cap answered = {}
    <3>1. CASE x = s
      <4>1. sent'[x] = sent[x] \cup Flying(x) /\ Flying(x)' = {} /\ Early(x)' \subseteq Early(x)
        BY <2>3, <2>5, <3>1
      <4> QED BY <4>1, <2>6
    <3>2. CASE x # s
      <4>1. sent'[x] = sent[x] /\ Flying(x)' = Flying(x) /\ Early(x)' \subseteq Early(x)
        BY <2>3, <2>5, <3>2
      <4> QED BY <4>1, <2>6
    <3> QED BY <3>1, <3>2
  <2> QED BY <1>a, <2>1, <2>7 DEF Places
<1>6. ASSUME NEW s \in Session, NEW c \in Call, NEW code \in ReplyCode[c], ServerAnswers(s, c, code)
      PROVE  Places'
  <2>1. /\ c \in sent[s] /\ sent' = [sent EXCEPT ![s] = @ \ {c}] /\ answered' = answered \cup {c}
        /\ buf' = buf /\ pc' = pc /\ on' = on /\ snd' = snd /\ writing' = writing
    BY <1>6 DEF ServerAnswers
  <2>2. Elsewhere
    BY <1>6 DEF Elsewhere
  <2>3. \A x \in Session : Early(x)' = Early(x) /\ Flying(x)' = Flying(x)
    BY <2>1, <2>2, ElsewhereMoves DEF Unmoved, Early, Name, SockName, Flying
  <2>4. \A x \in Session : sent'[x] = IF x = s THEN sent[x] \ {c} ELSE sent[x]
    BY <2>1 DEF Types, DataTypes
  <2>5. ASSUME NEW x \in Session
        PROVE  /\ \A d \in Range(buf[x]) \cup Flying(x) \cup sent[x] : on[d] = x /\ pc[d] \in {"call", "done"}
               /\ Early(x) \cap (Range(buf[x]) \cup Flying(x) \cup sent[x] \cup answered) = {}
               /\ Range(buf[x]) \cap (Flying(x) \cup sent[x] \cup answered) = {}
               /\ Flying(x) \cap (sent[x] \cup answered) = {}
               /\ sent[x] \cap answered = {}
    BY DEF Places
  <2>6. on[c] = s /\ pc[c] \in {"call", "done"}
    BY <2>1, <2>5
  <2>7. ASSUME NEW x \in Session
        PROVE  c \notin Early(x) \cup Range(buf[x]) \cup Flying(x) /\ c \notin sent'[x]
    <3>1. CASE x = s
      BY <2>1, <2>4, <2>5, <3>1
    <3>2. CASE x # s
      <4>1. c \notin Early(x)
        BY <1>c, <2>6, <3>2
      <4> QED BY <2>4, <2>5, <2>6, <3>2, <4>1
    <3> QED BY <3>1, <3>2
  <2>8. ASSUME NEW x \in Session
        PROVE  /\ \A d \in Range(buf[x]) \cup Flying(x) \cup sent'[x] : on[d] = x /\ pc[d] \in {"call", "done"}
               /\ Early(x) \cap (Range(buf[x]) \cup Flying(x) \cup sent'[x] \cup answered') = {}
               /\ Range(buf[x]) \cap (Flying(x) \cup sent'[x] \cup answered') = {}
               /\ Flying(x) \cap (sent'[x] \cup answered') = {}
               /\ sent'[x] \cap answered' = {}
    BY <2>1, <2>4, <2>5, <2>7
  <2> QED BY <1>a, <2>1, <2>3, <2>6, <2>8 DEF Places
<1>7. ASSUME NEW s \in Session, SendWrite(s) \/ Merge(s) \/ (WriteDone(s) /\ sock[s])
                               \/ \E c \in Call : \E code \in ReplyCode[c] : ServerAnswers(s, c, code)
      PROVE  Places'
  BY <1>3, <1>4, <1>5, <1>6, <1>7
<1> QED BY <1>1, <1>2, <1>7, DataCases, EarlyCases

-----------------------------------------------------------------------------
(***************************************************************************)
(* Deserved.                                                               *)
(***************************************************************************)
LEMMA ElsewhereData ==
  ASSUME Types, Places, Elsewhere
  PROVE  /\ waiting' = waiting /\ late \subseteq late' /\ answered \subseteq answered'
         /\ \A c \in answered : answer'[c] = answer[c]
         /\ \A c \in Call : status'[c] = status[c] \/ pc'[c] = "done"
         /\ \A x \in Session :
              /\ Range(batch'[x]) \subseteq Range(batch[x]) \cup Range(replies[x])
              /\ Range(replies'[x]) \subseteq Range(replies[x]) \cup answered'
<1> USE DEF client, calls, queues, coros, data, net
<1> DEFINE Wire == batch' = batch /\ replies' = replies /\ answered' = answered /\ answer' = answer
           Calm == waiting' = waiting /\ late' = late /\ status' = status
<1>1. ASSUME NEW c \in Call, Invoke(c) \/ TryStopped(c)
      PROVE  /\ Wire /\ waiting' = waiting /\ late' = late
             /\ \A d \in Call : status'[d] = status[d] \/ pc'[d] = "done"
  <2>1. Wire /\ waiting' = waiting /\ late' = late
    BY <1>1 DEF Invoke, TryStopped
  <2>2. status' = status \/ \E v : pc' = Set(pc, c, "done") /\ status' = Set(status, c, v)
    BY <1>1 DEF Invoke, TryStopped, Return
  <2>3. \A d \in Call : status'[d] = status[d] \/ pc'[d] = "done"
    BY <2>2 DEF Set, Types, CallTypes
  <2> QED BY <2>1, <2>3
<1>2. ASSUME NEW c \in Call, TryCreate(c) \/ SpawnCreate(c) \/ WaitTimesOut(c) PROVE Wire /\ Calm
  BY <1>2 DEF TryCreate, SpawnCreate, WaitTimesOut
<1>3. ASSUME NEW c \in Call, DeadlinePasses(c)
      PROVE  Wire /\ waiting' = waiting /\ status' = status /\ late \subseteq late'
  BY <1>3 DEF DeadlinePasses
<1>4. (\E x \in UserDone : Done(x)) \/ Create \/ Stop \/ ClientStop \/ UNCHANGED vars => Wire /\ Calm
  BY DEF Done, Create, Stop, ClientStop, vars
<1>5. ASSUME NEW s \in Session \cup {NoSession}, DispatchStop(s) PROVE Wire /\ Calm
  BY <1>5 DEF DispatchStop
<1>6. ASSUME NEW s \in Session, StartConnect(s) \/ Connected(s) \/ ConnectFailed(s) PROVE Wire /\ Calm
  BY <1>6 DEF StartConnect, Connected, ConnectFailed
<1>7. ASSUME NEW s \in Session, SendWrite(s) \/ SendWait(s) \/ SendHeartBeat(s) \/ SendExit(s)
      PROVE  Wire /\ Calm
  BY <1>7 DEF SendWrite, SendWait, SendHeartBeat, SendExit
<1>8. ASSUME NEW s \in Session, RecvExit(s) \/ SockStop(s) \/ ConnectDone(s) \/ WriteDone(s)
      PROVE  Wire /\ Calm
  BY <1>8 DEF RecvExit, SockStop, ConnectDone, WriteDone
<1>9. ASSUME NEW s \in Session, DeliverSock(s) \/ HeartBeatDue(s) \/ ConnectBreaks(s)
                                \/ WriteBreaks(s) \/ ReadBreaks(s)
      PROVE  Wire /\ Calm
  BY <1>9 DEF DeliverSock, HeartBeatDue, ConnectBreaks, WriteBreaks, ReadBreaks
<1>10. ASSUME NEW s \in Session, ReadDone(s)
       PROVE  /\ Calm /\ answered' = answered /\ answer' = answer
              /\ \A x \in Session : /\ Range(batch'[x]) \subseteq Range(batch[x]) \cup Range(replies[x])
                                    /\ Range(replies'[x]) \subseteq Range(replies[x])
  <2>1. Calm /\ answered' = answered /\ answer' = answer
    BY <1>10 DEF ReadDone
  <2>2. \/ batch' = batch /\ replies' = replies
        \/ batch' = Set(batch, s, replies[s]) /\ replies' = Set(replies, s, <<>>)
    BY <1>10 DEF ReadDone
  <2> QED BY <2>1, <2>2, EmptyOnce DEF Set, Types, DataTypes
<1>11. ASSUME NEW s \in Session, NEW c \in Call, NEW code \in ReplyCode[c], ServerAnswers(s, c, code)
       PROVE  /\ Calm /\ batch' = batch /\ answered \subseteq answered'
              /\ \A d \in answered : answer'[d] = answer[d]
              /\ \A x \in Session : Range(replies'[x]) \subseteq Range(replies[x]) \cup answered'
  <2>1. /\ Calm /\ batch' = batch /\ answered' = answered \cup {c}
        /\ replies' = [replies EXCEPT ![s] = Append(@, c)]
    BY <1>11 DEF ServerAnswers
  <2>2. \A x \in Session : replies[x] \in Seq(Call)
    BY DEF Types, DataTypes
  <2>3. \A x \in Session : Range(replies'[x]) \subseteq Range(replies[x]) \cup {c}
    BY <2>1, <2>2, AppendOnce DEF Types, DataTypes
  <2>4. c \notin answered /\ answer' = Set(answer, c, code)
    BY <1>11 DEF ServerAnswers, Places
  <2>5. \A d \in answered : answer'[d] = answer[d]
    BY <2>4 DEF Set, Types, DataTypes
  <2> QED BY <2>1, <2>3, <2>5
<1> DEFINE All == /\ waiting' = waiting /\ late \subseteq late' /\ answered \subseteq answered'
                  /\ \A c \in answered : answer'[c] = answer[c]
                  /\ \A c \in Call : status'[c] = status[c] \/ pc'[c] = "done"
                  /\ \A x \in Session :
                       /\ Range(batch'[x]) \subseteq Range(batch[x]) \cup Range(replies[x])
                       /\ Range(replies'[x]) \subseteq Range(replies[x]) \cup answered'
<1>12. Wire /\ Calm => All
  OBVIOUS
<1>13. (\E c \in Call : Invoke(c) \/ TryStopped(c) \/ DeadlinePasses(c)) => All
  BY <1>1, <1>3
<1>14. (\E s \in Session : ReadDone(s) \/ \E c \in Call : \E code \in ReplyCode[c] : ServerAnswers(s, c, code))
       => All
  BY <1>10, <1>11
<1> HIDE DEF Wire, Calm, All
<1>15. All
  BY <1>2, <1>4, <1>5, <1>6, <1>7, <1>8, <1>9, <1>12, <1>13, <1>14 DEF Elsewhere
<1> QED BY <1>15 DEF All

LEMMA DeservedStep ==
  Types /\ Single /\ Turns /\ Fresh /\ Created /\ Places /\ Deserved /\ [Next]_vars => Deserved'
<1> SUFFICES ASSUME Types, Single, Turns, Fresh, Created, Places, Deserved, [Next]_vars PROVE Deserved'
  OBVIOUS
<1> USE DEF client, calls, queues, coros, data, net
<1>a. \A c \in Call : pc[c] \in {"call", "done"} =>
        pc'[c] \in {"call", "done"} /\ (pc[c] = "done" => pc'[c] = "done") /\ on'[c] = on[c]
  BY CallsStay
<1>b. ASSUME NEW c \in Call
      PROVE  /\ pc[c] # "done" => status[c] = Told(c)
             /\ tm[c] = "fired" => c \in late
             /\ tm[c] = "cancel" => got[c]
             /\ got[c] => pc[c] \in {"call", "done"} /\ c \in answered
  BY DEF Deserved
<1>c. ASSUME NEW s \in Session
      PROVE  /\ \A c \in waiting[s] : c \in Call /\ pc[c] = "call" /\ on[c] = s
             /\ At("reply", s) \subseteq answered /\ Range(batch[s]) \subseteq answered
             /\ Range(replies[s]) \subseteq answered
  BY DEF Deserved, Types, DataTypes
<1>1. CASE Elsewhere
  <2>1. /\ got' = got /\ on' = on
        /\ \A c \in Call : /\ pc'[c] = pc[c] \/ (pc[c] \notin {"call", "done"} /\ pc'[c] # "call")
                           /\ tm'[c] = tm[c] \/ (tm[c] = "armed" /\ tm'[c] = "fired" /\ c \in late)
    BY <1>1, ElsewhereCalls
  <2>2. /\ waiting' = waiting /\ late \subseteq late' /\ answered \subseteq answered'
        /\ \A c \in answered : answer'[c] = answer[c]
        /\ \A c \in Call : status'[c] = status[c] \/ pc'[c] = "done"
        /\ \A x \in Session :
             /\ Range(batch'[x]) \subseteq Range(batch[x]) \cup Range(replies[x])
             /\ Range(replies'[x]) \subseteq Range(replies[x]) \cup answered'
    BY <1>1, ElsewhereData
  <2>3. \A x \in Session : At("reply", x)' = At("reply", x)
    BY <1>1, ElsewhereMoves DEF Unmoved, Name
  <2>4. ASSUME NEW c \in Call
        PROVE  /\ pc'[c] # "done" => status'[c] = Told(c)'
               /\ tm'[c] = "fired" => c \in late'
               /\ tm'[c] = "cancel" => got'[c]
               /\ got'[c] => pc'[c] \in {"call", "done"} /\ c \in answered'
    BY <1>a, <1>b, <2>1, <2>2 DEF Told
  <2>5. ASSUME NEW x \in Session
        PROVE  /\ \A c \in waiting'[x] : pc'[c] = "call" /\ on'[c] = x
               /\ At("reply", x)' \cup Range(batch'[x]) \cup Range(replies'[x]) \subseteq answered'
    <3>1. \A c \in waiting'[x] : pc'[c] = "call" /\ on'[c] = x
      BY <1>c, <2>1, <2>2
    <3>2. At("reply", x)' \cup Range(batch'[x]) \cup Range(replies'[x]) \subseteq answered'
      BY <1>c, <2>2, <2>3
    <3> QED BY <3>1, <3>2
  <2> QED BY <2>4, <2>5 DEF Deserved
<1>2. ASSUME NEW c \in Call, TrySession(c) \/ DeliverOver(c) PROVE Deserved'
  <2>1. /\ got' = got /\ status' = status /\ tm' = tm /\ late' = late
        /\ answered' = answered /\ answer' = answer
        /\ waiting' = waiting /\ batch' = batch /\ replies' = replies
    BY <1>2 DEF TrySession, DeliverOver
  <2>2. \A d \in Call : pc[d] = "call" => pc'[d] = "call"
    <3>1. pc' = pc \/ pc' = Set(pc, c, "call")
      BY <1>2 DEF TrySession, DeliverOver
    <3> QED BY <3>1 DEF Set, Types, CallTypes
  <2>3. \A x \in Session : At("reply", x)' = At("reply", x)
    <3>1. CASE TrySession(c)
      <4>1. PICK s \in Session : s = cur
        BY <3>1 DEF TrySession, Usable, Types, SessionTypes
      <4>2. hndQ' = [hndQ EXCEPT ![s] = Append(@, HC("begin", c))] /\ sockQ' = sockQ
        BY <3>1, <4>1 DEF TrySession
      <4>3. Takes(c, s, "begin")
        BY <4>2, HndAppend
      <4> QED BY <4>3 DEF Takes, Name
    <3>2. CASE DeliverOver(c)
      <4>1. tm[c] \in {"fired", "cancel"} /\ sockQ' = sockQ
        BY <3>2 DEF DeliverOver
      <4>2. pc[c] = "call"
        BY <4>1 DEF Turns
      <4>3. PICK s \in Session : s = on[c]
        BY <4>2 DEF Turns
      <4>4. hndQ' = [hndQ EXCEPT ![s] = Append(@, HC("over", c))]
        BY <3>2, <4>3 DEF DeliverOver
      <4>5. Takes(c, s, "over")
        BY <4>1, <4>4, HndAppend
      <4> QED BY <4>5 DEF Takes, Name
    <3> QED BY <1>2, <3>1, <3>2
  <2>4. ASSUME NEW d \in Call
        PROVE  /\ pc'[d] # "done" => status'[d] = Told(d)'
               /\ tm'[d] = "fired" => d \in late'
               /\ tm'[d] = "cancel" => got'[d]
               /\ got'[d] => pc'[d] \in {"call", "done"} /\ d \in answered'
    BY <1>a, <1>b, <2>1 DEF Told
  <2>5. \A x \in Session : \A d \in waiting[x] : pc'[d] = "call" /\ on'[d] = x
    BY <1>a, <1>c, <2>2
  <2> QED BY <1>c, <2>1, <2>3, <2>4, <2>5 DEF Deserved
<1>3. ASSUME NEW s \in Session, RecvReplies(s) PROVE Deserved'
  <2>1. /\ got' = got /\ status' = status /\ tm' = tm /\ late' = late
        /\ answered' = answered /\ answer' = answer
        /\ waiting' = waiting /\ batch' = Set(batch, s, <<>>) /\ replies' = replies /\ pc' = pc /\ on' = on
    BY <1>3 DEF RecvReplies
  <2>2. \A x \in Session : /\ At("reply", x)' \subseteq At("reply", x) \cup Range(batch[x])
                           /\ Range(batch'[x]) \subseteq Range(batch[x])
    <3>1. \A x \in Session : At("reply", x)' \subseteq At("reply", x) \cup Range(batch[x])
      BY <1>3, RecvMoves DEF Name
    <3>2. \A x \in Session : Range(batch'[x]) \subseteq Range(batch[x])
      BY <2>1, EmptyOnce DEF Set, Types, DataTypes
    <3> QED BY <3>1, <3>2
  <2>3. \A x \in Session : At("reply", x)' \cup Range(batch'[x]) \cup Range(replies'[x]) \subseteq answered'
    BY <1>c, <2>1, <2>2
  <2> QED BY <1>b, <1>c, <2>1, <2>3 DEF Deserved, Told
<1>4. ASSUME NEW s \in Session, Merge(s) \/ Merged(s) \/ BeginCall(s) PROVE Deserved'
  <2>1. /\ got' = got /\ status' = status /\ tm' = tm /\ late' = late
        /\ answered' = answered /\ answer' = answer
        /\ batch' = batch /\ replies' = replies /\ pc' = pc /\ on' = on
    BY <1>4 DEF Merge, Merged, BeginCall
  <2>2. \A x \in Session : At("reply", x)' = At("reply", x)
    <3>1. \E c \in Call : \/ Passes(c, s, "merge", "merged")
                          \/ Passes(c, s, "merged", "sent")
                          \/ Passes(c, s, "begin", "merge")
      BY <1>4, MergeMoves, MergedMoves, BeginMoves
    <3> QED BY <3>1 DEF Passes, Name
  <2>3. \A x \in Session : \A d \in waiting'[x] : pc[d] = "call" /\ on[d] = x
    <3>1. CASE waiting' = waiting
      BY <1>c, <3>1
    <3>2. CASE BeginCall(s)
      <4>1. HndCall(s) \in Call /\ HndCall(s) \in At("begin", s)
        BY <3>2, BeginMoves DEF Passes
      <4>2. pc[HndCall(s)] = "call" /\ on[HndCall(s)] = s
        BY <4>1 DEF Turns, Turn
      <4>3. \A x \in Session : waiting'[x] \subseteq waiting[x] \cup (IF x = s THEN {HndCall(s)} ELSE {})
        BY <3>2 DEF BeginCall, Types, DataTypes
      <4> QED BY <1>c, <4>2, <4>3
    <3> QED BY <1>4, <3>1, <3>2 DEF Merge, Merged
  <2> QED BY <1>b, <1>c, <2>1, <2>2, <2>3 DEF Deserved, Told
<1>5. ASSUME NEW s \in Session, AwaitReply(s) PROVE Deserved'
  <2>1. /\ got' = got /\ status' = status /\ late' = late /\ answered' = answered /\ answer' = answer
        /\ sockQ' = sockQ
        /\ waiting' = waiting /\ batch' = batch /\ replies' = replies /\ pc' = pc /\ on' = on
        /\ tm' = Set(tm, HndCall(s), "armed") /\ OnHnd(s, "sent") /\ PopHnd(s)
    BY <1>5 DEF AwaitReply
  <2>2. \A x \in Session : At("reply", x)' = At("reply", x)
    BY <2>1, HndPop DEF Name
  <2>3. \A d \in Call : tm'[d] = tm[d] \/ tm'[d] = "armed"
    BY <2>1 DEF Set, Types, CallTypes
  <2> QED BY <1>b, <1>c, <2>1, <2>2, <2>3 DEF Deserved, Told
<1>6. ASSUME NEW s \in Session, HandleReply(s) PROVE Deserved'
  <2>1. /\ late' = late /\ answered' = answered /\ answer' = answer
        /\ sockQ' = sockQ /\ waiting' = waiting /\ batch' = batch
        /\ replies' = replies /\ pc' = pc /\ on' = on /\ OnHnd(s, "reply") /\ PopHnd(s)
    BY <1>6 DEF HandleReply
  <2>2. /\ HndCall(s) \in At("reply", s) /\ \A x \in Session : At("reply", x)' \subseteq At("reply", x)
    BY <2>1, HndPop
  <2>3. PICK c \in Call : c = HndCall(s)
    BY <2>1, HndFront
  <2>4. \A d \in Call :
          \/ status'[d] = status[d] /\ tm'[d] = tm[d] /\ got'[d] = got[d]
          \/ /\ d = c /\ c \in waiting[s] /\ got'[d] = TRUE /\ status'[d] = answer[d]
             /\ tm'[d] \in {tm[d], "cancel"}
    <3>1. CASE c \in waiting[s]
      <4>1. /\ got' = Set(got, c, TRUE) /\ status' = Set(status, c, answer[c])
            /\ (tm' = Set(tm, c, "cancel") \/ tm' = tm)
        BY <1>6, <2>3, <3>1 DEF HandleReply
      <4> QED BY <3>1, <4>1 DEF Set, Types, CallTypes
    <3>2. CASE c \notin waiting[s]
      BY <1>6, <2>3, <3>2 DEF HandleReply
    <3> QED BY <3>1, <3>2
  <2>5. c \in answered
    BY <1>c, <2>2, <2>3
  <2>6. c \in waiting[s] => pc[c] = "call"
    BY <1>c
  <2>7. ASSUME NEW d \in Call
        PROVE  /\ pc'[d] # "done" => status'[d] = Told(d)'
               /\ tm'[d] = "fired" => d \in late'
               /\ tm'[d] = "cancel" => got'[d]
               /\ got'[d] => pc'[d] \in {"call", "done"} /\ d \in answered'
    BY <1>b, <2>1, <2>4, <2>5, <2>6 DEF Told
  <2>8. \A x \in Session : At("reply", x)' \cup Range(batch'[x]) \cup Range(replies'[x]) \subseteq answered'
    BY <1>c, <2>1, <2>2
  <2> QED BY <1>c, <2>1, <2>7, <2>8 DEF Deserved
<1>7. ASSUME NEW s \in Session, EndCall(s) PROVE Deserved'
  <2>1. PICK c \in Call : c = HndCall(s) /\ Quits(c, s, "over") /\ on[c] = s
    BY <1>7, OverCalls
  <2>2. /\ late' = late /\ answered' = answered /\ answer' = answer
        /\ sockQ' = sockQ /\ batch' = batch
        /\ replies' = replies /\ on' = on /\ got' = got
        /\ waiting' = [waiting EXCEPT ![s] = @ \ {c}] /\ tm' = Set(tm, c, "new")
        /\ pc' = Set(pc, c, "done") /\ \E code : status' = Set(status, c, code)
    BY <1>7, <2>1 DEF EndCall, Return
  <2>3. /\ pc'[c] = "done" /\ tm'[c] = "new"
        /\ \A d \in Call \ {c} : pc'[d] = pc[d] /\ tm'[d] = tm[d] /\ status'[d] = status[d]
    BY <2>2 DEF Set, Types, CallTypes
  <2>4. \A x \in Session : waiting'[x] = IF x = s THEN waiting[x] \ {c} ELSE waiting[x]
    BY <2>2 DEF Types, DataTypes
  <2>5. \A x \in Session : At("reply", x)' = At("reply", x)
    BY <2>1 DEF Quits, Name
  <2>6. ASSUME NEW d \in Call
        PROVE  /\ pc'[d] # "done" => status'[d] = Told(d)'
               /\ tm'[d] = "fired" => d \in late'
               /\ tm'[d] = "cancel" => got'[d]
               /\ got'[d] => pc'[d] \in {"call", "done"} /\ d \in answered'
    BY <1>b, <2>2, <2>3 DEF Told
  <2>7. \A x \in Session : \A d \in waiting'[x] : pc'[d] = "call" /\ on'[d] = x
    <3> SUFFICES ASSUME NEW x \in Session, NEW d \in waiting'[x] PROVE pc'[d] = "call" /\ on'[d] = x
      OBVIOUS
    <3>1. d \in waiting[x] /\ d \in Call /\ pc[d] = "call" /\ on[d] = x
      BY <1>c, <2>4
    <3>2. d # c
      BY <2>1, <2>4, <3>1
    <3> QED BY <2>2, <2>3, <3>1, <3>2
  <2>8. \A x \in Session : At("reply", x)' \cup Range(batch'[x]) \cup Range(replies'[x]) \subseteq answered'
    BY <1>c, <2>2, <2>5
  <2> QED BY <2>6, <2>7, <2>8 DEF Deserved
<1> QED BY <1>1, <1>2, <1>3, <1>4, <1>5, <1>6, <1>7, NextCases

-----------------------------------------------------------------------------
(***************************************************************************)
(* RepliesFollow.                                                          *)
(***************************************************************************)
\* What a step can do to the socket strand of session s.
LEMMA SockCases ==
  ASSUME Types, [Next]_vars, NEW s \in Session
  PROVE  \/ sockQ'[s] = sockQ[s]
         \/ \E n : OnSock(s, n) /\ sockQ'[s] = Rest(s)
         \/ \E n \in {"con", "snd", "rcv", "stop"} : sockQ'[s] = Append(sockQ[s], H(n))
         \/ Connected(s) /\ sockQ'[s] = Rest(s) \o <<H("snd"), H("rcv")>>
         \/ Merge(s) /\ sockQ'[s] = Append(Rest(s), HC("merged", Head(sockQ[s]).call))
         \/ BeginCall(s) /\ sockQ'[s] = Append(sockQ[s], HC("merge", HndCall(s)))
         \/ sockQ'[s] = <<H("con")>>
<1> USE DEF client, calls, queues, coros, data, net
<1> DEFINE Popped == \E n : OnSock(s, n) /\ sockQ'[s] = Rest(s)
<1>a. \A x \in Session : \A q : sockQ' = Set(sockQ, x, q) \/ sockQ' = [sockQ EXCEPT ![x] = q]
         => sockQ'[s] = IF x = s THEN q ELSE sockQ[s]
  BY DEF Set, Types, SessionTypes
<1>0. ASSUME NEW x \in Session, NEW n, OnSock(x, n), sockQ' = Set(sockQ, x, Rest(x))
      PROVE  sockQ'[s] = sockQ[s] \/ Popped
  BY <1>0, <1>a
<1> HIDE DEF Popped
<1>1. ASSUME NEW x \in Session, StartConnect(x) \/ ConnectFailed(x) \/ SendWrite(x) \/ SendWait(x)
      PROVE  sockQ'[s] = sockQ[s] \/ Popped
  BY <1>0, <1>1 DEF StartConnect, ConnectFailed, SendWrite, SendWait
<1>2. ASSUME NEW x \in Session, SendHeartBeat(x) \/ SendExit(x) \/ RecvReplies(x) \/ RecvExit(x)
      PROVE  sockQ'[s] = sockQ[s] \/ Popped
  BY <1>0, <1>2 DEF SendHeartBeat, SendExit, RecvReplies, RecvExit
<1>3. ASSUME NEW x \in Session, Merged(x) \/ SockStop(x)
      PROVE  sockQ'[s] = sockQ[s] \/ Popped
  BY <1>0, <1>3 DEF Merged, SockStop
<1>4. ASSUME NEW x \in Session, Connected(x)
      PROVE  sockQ'[s] = sockQ[s] \/ (Connected(s) /\ sockQ'[s] = Rest(s) \o <<H("snd"), H("rcv")>>)
  BY <1>4, <1>a DEF Connected
<1>5. ASSUME NEW x \in Session, Merge(x)
      PROVE  sockQ'[s] = sockQ[s]
             \/ (Merge(s) /\ sockQ'[s] = Append(Rest(s), HC("merged", Head(sockQ[s]).call)))
  BY <1>5, <1>a DEF Merge
<1>6. ASSUME NEW x \in Session, BeginCall(x)
      PROVE  sockQ'[s] = sockQ[s] \/ (BeginCall(s) /\ sockQ'[s] = Append(sockQ[s], HC("merge", HndCall(s))))
  <2>1. sockQ' = [sockQ EXCEPT ![x] = Append(sockQ[x], HC("merge", HndCall(x)))]
    BY <1>6 DEF BeginCall
  <2> QED BY <1>6, <1>a, <2>1
<1>7. ASSUME NEW x \in Session, AwaitReply(x) \/ HandleReply(x) \/ EndCall(x) PROVE sockQ'[s] = sockQ[s]
  BY <1>7 DEF AwaitReply, HandleReply, EndCall
<1>8. ASSUME NEW x \in Session, ConnectDone(x) \/ WriteDone(x) \/ ReadDone(x) \/ HeartBeatDue(x)
      PROVE  sockQ'[s] = sockQ[s]
  BY <1>8 DEF ConnectDone, WriteDone, ReadDone, HeartBeatDue
<1>9. ASSUME NEW x \in Session, \/ ConnectBreaks(x) \/ WriteBreaks(x) \/ ReadBreaks(x)
                                \/ \E c \in Call : \E code \in ReplyCode[c] : ServerAnswers(x, c, code)
      PROVE  sockQ'[s] = sockQ[s]
  BY <1>9 DEF ConnectBreaks, WriteBreaks, ReadBreaks, ServerAnswers
<1>10. ASSUME NEW x \in Session, DeliverSock(x)
       PROVE  sockQ'[s] = sockQ[s]
              \/ \E n \in {"con", "snd", "rcv", "stop"} : sockQ'[s] = Append(sockQ[s], H(n))
  <2>1. PICK y \in {<<"con", con[x]>>, <<"snd", snd[x]>>, <<"rcv", rcv[x]>>} :
           sockQ' = [sockQ EXCEPT ![x] = Append(sockQ[x], H(y[1]))]
    BY <1>10 DEF DeliverSock
  <2>2. y[1] \in {"con", "snd", "rcv", "stop"}
    BY <2>1
  <2> QED BY <1>a, <2>1, <2>2
<1>11. ASSUME NEW x \in Session \cup {NoSession}, DispatchStop(x)
       PROVE  sockQ'[s] = sockQ[s]
              \/ \E n \in {"con", "snd", "rcv", "stop"} : sockQ'[s] = Append(sockQ[s], H(n))
  <2>1. CASE x = NoSession
    BY <1>11, <2>1 DEF DispatchStop
  <2>2. CASE x # NoSession
    <3>1. x \in Session /\ sockQ' = [sockQ EXCEPT ![x] = Append(sockQ[x], H("stop"))]
      BY <1>11, <2>2 DEF DispatchStop
    <3> QED BY <1>a, <3>1
  <2> QED BY <2>1, <2>2
<1>12. ASSUME Create PROVE sockQ'[s] = sockQ[s] \/ sockQ'[s] = <<H("con")>>
  <2>1. CASE MustCreate
    <3>1. PICK x \in Session : sockQ' = Set(sockQ, x, <<H("con")>>)
      BY <1>12, <2>1 DEF Create
    <3> QED BY <1>a, <3>1
  <2>2. CASE ~MustCreate
    BY <1>12, <2>2 DEF Create
  <2> QED BY <2>1, <2>2
<1>13. ASSUME NEW c \in Call, Invoke(c) \/ CallStep(c) \/ DeadlinePasses(c) PROVE sockQ'[s] = sockQ[s]
  <2>1. CASE Invoke(c) \/ TrySession(c) \/ TryStopped(c) \/ TryCreate(c) \/ SpawnCreate(c)
    BY <2>1 DEF Invoke, TrySession, TryStopped, TryCreate, SpawnCreate
  <2>2. CASE WaitTimesOut(c) \/ DeliverOver(c) \/ DeadlinePasses(c)
    BY <2>2 DEF WaitTimesOut, DeliverOver, DeadlinePasses
  <2> QED BY <1>13, <2>1, <2>2 DEF CallStep
<1>14. (\E x \in UserDone : Done(x)) \/ Stop \/ ClientStop \/ UNCHANGED vars => sockQ'[s] = sockQ[s]
  BY DEF Done, Stop, ClientStop, vars
<1> DEFINE Goal == \/ sockQ'[s] = sockQ[s]
                   \/ Popped
                   \/ \E n \in {"con", "snd", "rcv", "stop"} : sockQ'[s] = Append(sockQ[s], H(n))
                   \/ Connected(s) /\ sockQ'[s] = Rest(s) \o <<H("snd"), H("rcv")>>
                   \/ Merge(s) /\ sockQ'[s] = Append(Rest(s), HC("merged", Head(sockQ[s]).call))
                   \/ BeginCall(s) /\ sockQ'[s] = Append(sockQ[s], HC("merge", HndCall(s)))
                   \/ sockQ'[s] = <<H("con")>>
<1>15. ASSUME NEW x \in Session PROVE Connected(x) \/ Merge(x) \/ BeginCall(x) \/ DeliverSock(x) => Goal
  BY <1>4, <1>5, <1>6, <1>10
<1>16. ASSUME NEW x \in Session \cup {NoSession} PROVE DispatchStop(x) => Goal
  BY <1>11
<1>17. sockQ'[s] = sockQ[s] \/ Popped \/ sockQ'[s] = <<H("con")>> => Goal
  OBVIOUS
<1> HIDE DEF Goal
<1>18. ASSUME NEW x \in Session, SockStrand(x) PROVE Goal
  BY <1>1, <1>2, <1>3, <1>15, <1>17, <1>18 DEF SockStrand
<1>19. ASSUME NEW x \in Session, SessionStep(x) PROVE Goal
  BY <1>7, <1>8, <1>15, <1>17, <1>18, <1>19 DEF SessionStep, HndStrand
<1>20. Goal
  BY <1>8, <1>9, <1>12, <1>13, <1>14, <1>16, <1>17, <1>19 DEF Next
<1> QED BY <1>20 DEF Popped, Goal

\* What a step can do to the handle strand of session s.
LEMMA HndCases ==
  ASSUME Types, Turns, [Next]_vars, NEW s \in Session
  PROVE  \/ hndQ'[s] = hndQ[s]
         \/ \E n : OnHnd(s, n) /\ hndQ'[s] = Tail(hndQ[s])
         \/ \E n \in {"begin", "over"}, c \in Call : hndQ'[s] = Append(hndQ[s], HC(n, c))
         \/ Merged(s) /\ hndQ'[s] = Append(hndQ[s], HC("sent", Head(sockQ[s]).call))
         \/ /\ RecvReplies(s)
            /\ hndQ'[s] = hndQ[s] \o [i \in DOMAIN batch[s] |-> HC("reply", batch[s][i])]
<1> USE DEF client, calls, queues, coros, data, net
<1>a. \A x \in Session : \A q : hndQ' = Set(hndQ, x, q) \/ hndQ' = [hndQ EXCEPT ![x] = q]
         => hndQ'[s] = IF x = s THEN q ELSE hndQ[s]
  BY DEF Set, Types, SessionTypes
<1>1. CASE Elsewhere
  <2>1. ASSUME NEW c \in Call, Invoke(c) \/ TryStopped(c) \/ TryCreate(c) \/ SpawnCreate(c)
                               \/ WaitTimesOut(c) \/ DeadlinePasses(c)
        PROVE  hndQ' = hndQ
    BY <2>1 DEF Invoke, TryStopped, TryCreate, SpawnCreate, WaitTimesOut, DeadlinePasses
  <2>2. (\E x \in UserDone : Done(x)) \/ Create \/ Stop \/ ClientStop \/ UNCHANGED vars => hndQ' = hndQ
    BY DEF Done, Create, Stop, ClientStop, vars
  <2>3. ASSUME NEW x \in Session \cup {NoSession}, DispatchStop(x) PROVE hndQ' = hndQ
    BY <2>3 DEF DispatchStop
  <2>4. ASSUME NEW x \in Session, \/ StartConnect(x) \/ Connected(x) \/ ConnectFailed(x) \/ SendWrite(x)
                                  \/ SendWait(x) \/ SendHeartBeat(x) \/ SendExit(x) \/ RecvExit(x)
        PROVE  hndQ' = hndQ
    BY <2>4 DEF StartConnect, Connected, ConnectFailed, SendWrite, SendWait, SendHeartBeat, SendExit, RecvExit
  <2>5. ASSUME NEW x \in Session, \/ SockStop(x) \/ ConnectDone(x) \/ WriteDone(x) \/ ReadDone(x)
                                  \/ DeliverSock(x) \/ HeartBeatDue(x) \/ ConnectBreaks(x)
                                  \/ WriteBreaks(x) \/ ReadBreaks(x)
                                  \/ \E c \in Call : \E code \in ReplyCode[c] : ServerAnswers(x, c, code)
        PROVE  hndQ' = hndQ
    BY <2>5 DEF SockStop, ConnectDone, WriteDone, ReadDone, DeliverSock, HeartBeatDue, ConnectBreaks,
                WriteBreaks, ReadBreaks, ServerAnswers
  <2>6. hndQ' = hndQ
    BY <1>1, <2>1, <2>2, <2>3, <2>4, <2>5 DEF Elsewhere
  <2> QED BY <2>6
<1>2. ASSUME NEW c \in Call, TrySession(c) \/ DeliverOver(c)
      PROVE  hndQ'[s] = hndQ[s] \/ \E n \in {"begin", "over"} : hndQ'[s] = Append(hndQ[s], HC(n, c))
  <2>1. CASE TrySession(c)
    <3>1. cur \in Session /\ hndQ' = [hndQ EXCEPT ![cur] = Append(hndQ[cur], HC("begin", c))]
      BY <2>1 DEF TrySession, Usable, Types, SessionTypes
    <3> QED BY <1>a, <3>1
  <2>2. CASE DeliverOver(c)
    <3>1. tm[c] \in {"fired", "cancel"} /\ hndQ' = [hndQ EXCEPT ![on[c]] = Append(hndQ[on[c]], HC("over", c))]
      BY <2>2 DEF DeliverOver
    <3>2. pc[c] = "call"
      BY <3>1 DEF Turns
    <3>3. on[c] \in Session
      BY <3>2 DEF Turns
    <3> QED BY <1>a, <3>1, <3>3
  <2> QED BY <1>2, <2>1, <2>2
<1>3. ASSUME NEW x \in Session, BeginCall(x) \/ AwaitReply(x) \/ HandleReply(x) \/ EndCall(x)
      PROVE  hndQ'[s] = hndQ[s] \/ \E n : OnHnd(s, n) /\ hndQ'[s] = Tail(hndQ[s])
  <2>1. \E n : OnHnd(x, n) /\ PopHnd(x)
    BY <1>3 DEF BeginCall, AwaitReply, HandleReply, EndCall
  <2> QED BY <1>a, <2>1 DEF PopHnd
<1>4. ASSUME NEW x \in Session, Merge(x) PROVE hndQ'[s] = hndQ[s]
  BY <1>4 DEF Merge
<1>5. ASSUME NEW x \in Session, Merged(x)
      PROVE  hndQ'[s] = hndQ[s] \/ (Merged(s) /\ hndQ'[s] = Append(hndQ[s], HC("sent", Head(sockQ[s]).call)))
  <2>1. hndQ' = [hndQ EXCEPT ![x] = Append(hndQ[x], HC("sent", Head(sockQ[x]).call))]
    BY <1>5 DEF Merged
  <2> QED BY <1>5, <1>a, <2>1
<1>6. ASSUME NEW x \in Session, RecvReplies(x)
      PROVE  hndQ'[s] = hndQ[s]
             \/ /\ RecvReplies(s)
                /\ hndQ'[s] = hndQ[s] \o [i \in DOMAIN batch[s] |-> HC("reply", batch[s][i])]
  <2>1. hndQ' = [hndQ EXCEPT ![x] = hndQ[x] \o [i \in DOMAIN batch[x] |-> HC("reply", batch[x][i])]]
    BY <1>6 DEF RecvReplies
  <2> QED BY <1>6, <1>a, <2>1
<1> QED BY <1>1, <1>2, <1>3, <1>4, <1>5, <1>6, NextCases

\* A read that ended gave the session its replies; a batch is handled whole.
LEMMA BatchCases ==
  ASSUME Types, [Next]_vars, NEW s \in Session
  PROVE  batch'[s] = batch[s] \/ ReadDone(s) \/ batch'[s] = <<>>
<1> USE DEF client, calls, queues, coros, data, net
<1>1. ASSUME NEW x \in Session, RecvReplies(x) PROVE batch'[s] = batch[s] \/ batch'[s] = <<>>
  BY <1>1 DEF RecvReplies, Set, Types, DataTypes
<1>2. ASSUME NEW x \in Session, ReadDone(x) PROVE batch'[s] = batch[s] \/ ReadDone(s)
  <2>1. batch' = batch \/ batch' = Set(batch, x, replies[x])
    BY <1>2 DEF ReadDone
  <2> QED BY <1>2, <2>1 DEF Set, Types, DataTypes
<1>3. ASSUME NEW x \in Session, \/ StartConnect(x) \/ Connected(x) \/ ConnectFailed(x) \/ SendWrite(x)
                                \/ SendWait(x) \/ SendHeartBeat(x) \/ SendExit(x) \/ RecvExit(x)
      PROVE  batch' = batch
  BY <1>3 DEF StartConnect, Connected, ConnectFailed, SendWrite, SendWait, SendHeartBeat, SendExit, RecvExit
<1>4. ASSUME NEW x \in Session, Merge(x) \/ Merged(x) \/ SockStop(x) \/ HndStrand(x) PROVE batch' = batch
  BY <1>4 DEF Merge, Merged, SockStop, HndStrand, BeginCall, AwaitReply, HandleReply, EndCall
<1>5. ASSUME NEW x \in Session, \/ ConnectDone(x) \/ WriteDone(x) \/ DeliverSock(x) \/ HeartBeatDue(x)
                                \/ ConnectBreaks(x) \/ WriteBreaks(x) \/ ReadBreaks(x)
                                \/ \E c \in Call : \E code \in ReplyCode[c] : ServerAnswers(x, c, code)
      PROVE  batch' = batch
  BY <1>5 DEF ConnectDone, WriteDone, DeliverSock, HeartBeatDue, ConnectBreaks, WriteBreaks, ReadBreaks,
              ServerAnswers
<1>6. ASSUME NEW c \in Call, Invoke(c) \/ CallStep(c) \/ DeadlinePasses(c) PROVE batch' = batch
  BY <1>6 DEF Invoke, CallStep, TrySession, TryStopped, TryCreate, SpawnCreate, WaitTimesOut, DeliverOver,
              DeadlinePasses
<1>7. Create \/ Stop \/ ClientStop \/ (\E x \in Session \cup {NoSession} : DispatchStop(x))
        \/ (\E x \in UserDone : Done(x)) \/ UNCHANGED vars => batch' = batch
  BY DEF Create, Stop, ClientStop, DispatchStop, Done, vars
<1> QED BY <1>1, <1>2, <1>3, <1>4, <1>5, <1>6, <1>7 DEF Next, SessionStep, SockStrand

\* Neither the socket strand nor the next read puts a batch's reply ahead of
\* the handler that ends the call's inner coroutine.
LEMMA BatchStep ==
  ASSUME Types, Single, Turns, ReadsAlone, Places, Deserved, RepliesFollow, [Next]_vars,
         NEW s \in Session, NEW c \in Range(batch'[s])
  PROVE  Before(sockQ'[s], HC("merged", c), H("rcv"))
<1> DEFINE a == HC("merged", c)
           b == H("rcv")
<1>1. sockQ[s] \in Seq(SockH) /\ batch[s] \in Seq(Call) /\ replies[s] \in Seq(Call)
  BY DEF Types, SessionTypes, DataTypes
<1>2. CASE ReadDone(s)
  <2>1. Awaits(rcv[s], "read") /\ sockQ'[s] = sockQ[s]
    BY <1>2 DEF ReadDone, queues
  <2>2. rcv[s].op = "none"
    BY <2>1, CoroNames DEF Awaits
  <2>3. b \notin Range(sockQ[s])
    BY <2>2 DEF ReadsAlone
  <2> QED BY <2>1, <2>3 DEF Before, Range
<1>3. CASE batch'[s] = <<>>
  BY <1>3, EmptyOnce
<1>4. CASE batch'[s] = batch[s]
  <2>1. c \in Range(batch[s]) /\ c \in Call /\ c \in answered
    BY <1>1, <1>4 DEF Deserved, Range
  <2>2. Before(sockQ[s], a, b)
    BY <2>1 DEF RepliesFollow
  <2>3. /\ a # b /\ \A n \in {"con", "snd", "rcv", "stop"} : H(n) \in SockH /\ a # H(n)
        /\ \A d \in Call : /\ HC("merge", d) \in SockH /\ HC("merge", d) # a
                           /\ HC("merged", d) \in SockH /\ (HC("merged", d) = a => d = c)
    BY <2>1, Names, TurnNames DEF SockName
  <2> SUFFICES Before(sockQ'[s], a, b)
    OBVIOUS
  <2> HIDE DEF a, b
  <2>4. ASSUME NEW n, OnSock(s, n)
        PROVE  Rest(s) \in Seq(SockH) /\ Before(Rest(s), a, b)
    <3>1. sockQ[s] # <<>> /\ Rest(s) = Tail(sockQ[s]) /\ Rest(s) \in Seq(SockH)
      BY <2>4, Fronts
    <3> QED BY <1>1, <2>2, <3>1, TailBefore
  <2>5. ASSUME NEW q \in Seq(SockH), NEW x \in SockH, Before(q, a, b), x # a
        PROVE  Append(q, x) \in Seq(SockH) /\ Before(Append(q, x), a, b)
    BY <2>3, <2>5, AppendOnce, AppendBefore
  <2>6. CASE Connected(s) /\ sockQ'[s] = Rest(s) \o <<H("snd"), H("rcv")>>
    <3>1. Rest(s) \in Seq(SockH) /\ Before(Rest(s), a, b)
      BY <2>4, <2>6 DEF Connected
    <3>2. sockQ'[s] = Append(Append(Rest(s), H("snd")), H("rcv"))
      BY <2>3, <2>6, <3>1
    <3>3. /\ Append(Rest(s), H("snd")) \in Seq(SockH)
          /\ Before(Append(Rest(s), H("snd")), a, b)
      BY <2>3, <2>5, <3>1
    <3> QED BY <2>3, <2>5, <3>2, <3>3 DEF a
  <2>7. CASE Merge(s) /\ sockQ'[s] = Append(Rest(s), HC("merged", Head(sockQ[s]).call))
    <3>1. PICK d \in Call : d = Head(sockQ[s]).call /\ d \in At("merge", s)
      BY <2>7, MergeMoves DEF Passes
    <3>2. d \notin answered
      BY <3>1 DEF Places, Early
    <3>3. HC("merged", d) # a /\ HC("merged", d) \in SockH
      BY <2>1, <2>3, <3>2
    <3>4. Rest(s) \in Seq(SockH) /\ Before(Rest(s), a, b)
      BY <2>4, <2>7 DEF Merge
    <3> QED BY <2>5, <2>7, <3>1, <3>3, <3>4
  <2>8. CASE BeginCall(s) /\ sockQ'[s] = Append(sockQ[s], HC("merge", HndCall(s)))
    <3>1. HndCall(s) \in Call
      BY <2>8, BeginMoves
    <3> QED BY <1>1, <2>2, <2>3, <2>5, <2>8, <3>1
  <2>9. CASE sockQ'[s] = <<H("con")>>
    <3>1. \A i \in DOMAIN sockQ'[s] : sockQ'[s][i] = H("con")
      BY <2>9
    <3> QED BY <2>3, <3>1 DEF Before, a
  <2>10. CASE \E n \in {"con", "snd", "rcv", "stop"} : sockQ'[s] = Append(sockQ[s], H(n))
    BY <1>1, <2>2, <2>3, <2>5, <2>10
  <2>11. CASE \E n : OnSock(s, n) /\ sockQ'[s] = Rest(s)
    BY <2>4, <2>11
  <2>12. CASE sockQ'[s] = sockQ[s]
    BY <2>2, <2>12
  <2> QED BY <2>6, <2>7, <2>8, <2>9, <2>10, <2>11, <2>12, SockCases
<1> QED BY <1>2, <1>3, <1>4, BatchCases

\* A call whose inner coroutine has not been joined has no reply on the handle
\* strand.
LEMMA NoReplyYet ==
  ASSUME Types, Single, Turns, Fresh, Places, Deserved, RepliesFollow, [Next]_vars, NEW s \in Session
  PROVE  At("reply", s)' \cap At("merged", s)' = {}
<1>0. At("reply", s) \cap At("merged", s) = {} /\ "reply" \in Name /\ "merged" \in Name
  BY DEF RepliesFollow, Name, SockName
<1>1. CASE Elsewhere
  BY <1>0, <1>1, ElsewhereMoves DEF Unmoved
<1>2. ASSUME NEW c \in Call, TrySession(c) \/ DeliverOver(c)
      PROVE  At("reply", s)' = At("reply", s) /\ At("merged", s)' = At("merged", s)
  <2>1. \E x \in Session, n \in {"begin", "over"} : Takes(c, x, n)
    <3>1. sockQ' = sockQ
      BY <1>2 DEF TrySession, DeliverOver, queues
    <3>2. CASE TrySession(c)
      <4>1. cur \in Session /\ hndQ' = [hndQ EXCEPT ![cur] = Append(@, HC("begin", c))]
        BY <3>2 DEF TrySession, Usable, Types, SessionTypes
      <4>2. PICK x \in Session : x = cur
        BY <4>1
      <4>3. hndQ' = [hndQ EXCEPT ![x] = Append(@, HC("begin", c))]
        BY <4>1, <4>2
      <4> QED BY <3>1, <4>3, HndAppend
    <3>3. CASE DeliverOver(c)
      <4>1. tm[c] \in {"fired", "cancel"}
        BY <3>3 DEF DeliverOver
      <4>2. pc[c] = "call"
        BY <4>1 DEF Turns
      <4>3. PICK x \in Session : x = on[c]
        BY <4>2 DEF Turns
      <4>4. hndQ' = [hndQ EXCEPT ![x] = Append(@, HC("over", c))]
        BY <3>3, <4>3 DEF DeliverOver
      <4> QED BY <3>1, <4>4, HndAppend
    <3> QED BY <1>2, <3>2, <3>3
  <2> QED BY <1>0, <2>1 DEF Takes
<1>3. ASSUME NEW x \in Session, RecvReplies(x) PROVE At("reply", s)' \cap At("merged", s)' = {}
  <2>1. /\ At("merged", s)' = At("merged", s)
        /\ At("reply", s)' \subseteq At("reply", s) \cup (IF s = x THEN Range(batch[s]) ELSE {})
    BY <1>0, <1>3, RecvMoves
  <2>2. ASSUME s = x, NEW c \in Range(batch[s]) PROVE c \notin At("merged", s)
    <3>1. Before(sockQ[s], HC("merged", c), H("rcv")) /\ sockQ[s] \in Seq(SockH)
      BY <2>2 DEF RepliesFollow, Types, SessionTypes
    <3>2. OnSock(s, "rcv")
      BY <1>3, <2>2 DEF RecvReplies
    <3>3. sockQ[s] # <<>> /\ Head(sockQ[s]) = H("rcv")
      BY <3>2, SockFront DEF OnSock
    <3>4. HC("merged", c) \notin Range(sockQ[s])
      BY <3>1, <3>3, TailBefore
    <3> QED BY <3>4 DEF At, SockName
  <2> QED BY <1>0, <2>1, <2>2
<1>4. ASSUME NEW x \in Session, Merge(x) PROVE At("reply", s)' \cap At("merged", s)' = {}
  <2>1. PICK c \in Call : Passes(c, x, "merge", "merged")
    BY <1>4, MergeMoves
  <2>2. c \in Early(x)
    BY <2>1 DEF Passes, Early
  <2>3. c \notin answered
    BY <2>2 DEF Places
  <2>4. c \notin At("reply", s)
    BY <2>3 DEF Deserved
  <2>5. /\ At("reply", s)' = At("reply", s)
        /\ At("merged", s)' \subseteq At("merged", s) \cup {c}
    BY <1>0, <2>1 DEF Passes
  <2> QED BY <1>0, <2>4, <2>5
<1>5. ASSUME NEW x \in Session, Merged(x) \/ BeginCall(x)
      PROVE  At("reply", s)' = At("reply", s) /\ At("merged", s)' \subseteq At("merged", s)
  <2>1. \E c \in Call : Passes(c, x, "merged", "sent") \/ Passes(c, x, "begin", "merge")
    BY <1>5, MergedMoves, BeginMoves
  <2> QED BY <1>0, <2>1 DEF Passes
<1>6. ASSUME NEW x \in Session, AwaitReply(x) \/ HandleReply(x) \/ EndCall(x)
      PROVE  At("reply", s)' \subseteq At("reply", s) /\ At("merged", s)' = At("merged", s)
  <2>1. PICK n \in {"sent", "over", "reply"} : OnHnd(x, n) /\ PopHnd(x) /\ sockQ' = sockQ
    BY <1>6 DEF AwaitReply, HandleReply, EndCall, queues
  <2>2. \A k \in Name \ {n}, y \in Session : At(k, y)' = At(k, y)
    BY <2>1, HndPop
  <2>3. At(n, s)' \subseteq At(n, s)
    BY <2>1, HndPop
  <2>4. At("merged", s)' = At("merged", s)
    BY <1>0, <2>2
  <2>5. At("reply", s)' \subseteq At("reply", s)
    BY <1>0, <2>2, <2>3
  <2> QED BY <2>4, <2>5
<1> QED BY <1>0, <1>1, <1>2, <1>3, <1>4, <1>5, <1>6, NextCases

\* The handle strand begins the wait of a call before it handles its reply.
LEMMA SentBefore ==
  ASSUME Types, Single, Turns, RepliesFollow, [Next]_vars, NEW s \in Session, NEW c \in Call
  PROVE  Before(hndQ'[s], HC("sent", c), HC("reply", c))
<1> DEFINE a == HC("sent", c)
           b == HC("reply", c)
<1>1. hndQ[s] \in Seq(HndH) /\ Before(hndQ[s], a, b)
  BY DEF RepliesFollow, Types, SessionTypes
<1>2. /\ a # b
      /\ \A n \in {"begin", "sent", "reply", "over"}, d \in Call : HC(n, d) \in HndH
      /\ \A n, d : HC(n, d) = a <=> n = "sent" /\ d = c
  BY TurnNames, Names
<1>3. CASE \E n \in {"begin", "over"}, d \in Call : hndQ'[s] = Append(hndQ[s], HC(n, d))
  <2>1. PICK n \in {"begin", "over"}, d \in Call : hndQ'[s] = Append(hndQ[s], HC(n, d))
    BY <1>3
  <2>2. HC(n, d) \in HndH /\ HC(n, d) # a
    BY <1>2
  <2> HIDE DEF a, b
  <2>3. Before(hndQ'[s], a, b)
    BY <1>1, <1>2, <2>1, <2>2, AppendBefore
  <2> QED BY <2>3 DEF a, b
<1>4. CASE \E n : OnHnd(s, n) /\ hndQ'[s] = Tail(hndQ[s])
  <2>1. hndQ[s] # <<>>
    BY <1>4 DEF OnHnd
  <2> HIDE DEF a, b
  <2>2. Before(hndQ'[s], a, b)
    BY <1>1, <1>4, <2>1, TailBefore
  <2> QED BY <2>2 DEF a, b
<1>5. CASE Merged(s) /\ hndQ'[s] = Append(hndQ[s], HC("sent", Head(sockQ[s]).call))
  <2>1. PICK d \in Call : d = Head(sockQ[s]).call /\ d \in At("merged", s)
    BY <1>5, MergedMoves DEF Passes
  <2>2. d \notin At("reply", s)
    BY <2>1 DEF RepliesFollow
  <2>3. HC("reply", d) \notin Range(hndQ[s])
    BY <2>2 DEF At, SockName
  <2>4. HC("sent", d) \in HndH /\ (HC("sent", d) = a => b \notin Range(hndQ[s]))
    BY <1>2, <2>3
  <2> HIDE DEF a, b
  <2>5. Before(hndQ'[s], a, b)
    BY <1>1, <1>2, <1>5, <2>1, <2>4, AppendBefore
  <2> QED BY <2>5 DEF a, b
<1>6. CASE RecvReplies(s) /\ hndQ'[s] = hndQ[s] \o [i \in DOMAIN batch[s] |-> HC("reply", batch[s][i])]
  <2> DEFINE r == [i \in DOMAIN batch[s] |-> HC("reply", batch[s][i])]
  <2>1. batch[s] \in Seq(Call)
    BY DEF Types, DataTypes
  <2>2. r \in Seq(HndH) /\ Range(r) = {HC("reply", d) : d \in Range(batch[s])}
    BY <2>1, RepliesPosted
  <2>3. a \notin Range(r)
    BY <1>2, <2>2
  <2>4. hndQ'[s] = hndQ[s] \o r
    BY <1>6
  <2> HIDE DEF a, b, r
  <2>5. Before(hndQ'[s], a, b)
    BY <1>1, <2>2, <2>3, <2>4, ConcatBefore
  <2> QED BY <2>5 DEF a, b
<1>7. CASE hndQ'[s] = hndQ[s]
  BY <1>1, <1>7
<1> QED BY <1>3, <1>4, <1>5, <1>6, <1>7, HndCases

LEMMA RepliesFollowStep ==
  /\ Types /\ Single /\ Turns /\ Fresh /\ ReadsAlone /\ Places /\ Deserved /\ RepliesFollow
  /\ [Next]_vars
  => RepliesFollow'
BY BatchStep, NoReplyYet, SentBefore DEF RepliesFollow

-----------------------------------------------------------------------------
(***************************************************************************)
(* A reply finds its call waiting.                                         *)
(***************************************************************************)
LEMMA WaiterStep ==
  /\ Types /\ Single /\ Turns /\ Fresh /\ Created /\ Places /\ Deserved /\ RepliesFollow
  /\ ReplyFindsWaiter /\ [Next]_vars
  => ReplyFindsWaiter'
<1> SUFFICES ASSUME Types, Single, Turns, Fresh, Created, Places, Deserved, RepliesFollow,
                    ReplyFindsWaiter, [Next]_vars,
                    NEW d \in Call, got'[d], pc'[d] = "call"
             PROVE  tm'[d] # "new"
  BY DEF ReplyFindsWaiter
<1> USE DEF client, calls, queues, coros, data, net
<1>0. got[d] /\ pc[d] = "call" => tm[d] # "new"
  BY DEF ReplyFindsWaiter
<1>1. CASE Elsewhere
  BY <1>0, <1>1, ElsewhereCalls
<1>2. ASSUME NEW c \in Call, TrySession(c) PROVE tm'[d] # "new"
  <2>1. pc[c] = "try" /\ pc' = Set(pc, c, "call") /\ got' = got /\ tm' = tm
    BY <1>2 DEF TrySession
  <2>2. ~got[c]
    BY <2>1 DEF Deserved
  <2>3. d # c /\ pc[d] = "call"
    BY <2>1, <2>2 DEF Set, Types, CallTypes
  <2> QED BY <1>0, <2>1, <2>3
<1>3. ASSUME NEW c \in Call, DeliverOver(c) PROVE tm'[d] # "new"
  BY <1>0, <1>3 DEF DeliverOver
<1>4. ASSUME NEW s \in Session, RecvReplies(s) \/ Merge(s) \/ Merged(s) \/ BeginCall(s) PROVE tm'[d] # "new"
  BY <1>0, <1>4 DEF RecvReplies, Merge, Merged, BeginCall
<1>5. ASSUME NEW s \in Session, AwaitReply(s) PROVE tm'[d] # "new"
  <2>1. got' = got /\ pc' = pc /\ tm' = Set(tm, HndCall(s), "armed")
    BY <1>5 DEF AwaitReply
  <2> QED BY <1>0, <2>1 DEF Set, Types, CallTypes
<1>6. ASSUME NEW s \in Session, HandleReply(s) PROVE tm'[d] # "new"
  <2>1. OnHnd(s, "reply") /\ PopHnd(s) /\ sockQ' = sockQ /\ pc' = pc
    BY <1>6 DEF HandleReply
  <2>2. PICK c \in Call : c = HndCall(s) /\ Head(hndQ[s]) = HC("reply", c) /\ c \in At("reply", s)
    BY <2>1, HndFront, HndPop
  <2>3. CASE c \notin waiting[s]
    BY <1>0, <1>6, <2>1, <2>2, <2>3 DEF HandleReply
  <2>4. CASE c \in waiting[s]
    <3>1. got' = Set(got, c, TRUE) /\ tm' = IF tm[c] = "armed" THEN Set(tm, c, "cancel") ELSE tm
      BY <1>6, <2>2, <2>4 DEF HandleReply
    <3>2. pc[c] = "call" /\ on[c] = s /\ c \in answered
      BY <2>2, <2>4 DEF Deserved
    <3>3. \A n \in Turn, x \in Session : c \in At(n, x) => x = s
      BY <3>2 DEF Turns
    <3>4. c \notin At("begin", s) /\ c \notin At("merge", s)
      BY <3>2 DEF Places, Early
    <3>5. c \notin At("merged", s)
      BY <2>2 DEF RepliesFollow
    <3>6. c \notin At("sent", s)
      <4>1. hndQ[s] \in Seq(HndH) /\ hndQ[s] # <<>> /\ Before(hndQ[s], HC("sent", c), HC("reply", c))
        BY <2>1 DEF OnHnd, RepliesFollow, Types, SessionTypes
      <4>2. HC("sent", c) \notin Range(hndQ[s])
        BY <2>2, <4>1, TailBefore
      <4> QED BY <4>2 DEF At, SockName
    <3>7. tm[c] # "new"
      BY <3>2, <3>3, <3>4, <3>5, <3>6 DEF Turns, Turn
    <3>8. CASE d = c
      BY <3>1, <3>7, <3>8 DEF Set, Types, CallTypes
    <3>9. CASE d # c
      BY <1>0, <2>1, <3>1, <3>9 DEF Set, Types, CallTypes
    <3> QED BY <3>8, <3>9
  <2> QED BY <2>3, <2>4
<1>7. ASSUME NEW s \in Session, EndCall(s) PROVE tm'[d] # "new"
  <2>1. /\ got' = got /\ tm' = Set(tm, HndCall(s), "new") /\ pc' = Set(pc, HndCall(s), "done")
    BY <1>7 DEF EndCall, Return
  <2>2. d # HndCall(s) /\ pc[d] = "call"
    BY <2>1 DEF Set, Types, CallTypes
  <2> QED BY <1>0, <2>1, <2>2 DEF Set, Types, CallTypes
<1> QED BY <1>1, <1>2, <1>3, <1>4, <1>5, <1>6, <1>7, NextCases

-----------------------------------------------------------------------------
(***************************************************************************)
(* The inductive invariant.                                                *)
(***************************************************************************)
CallsInv ==
  /\ Types /\ Single /\ Turns /\ Fresh /\ ReadsAlone /\ Created
  /\ Places /\ Deserved /\ RepliesFollow

LEMMA CallsInit == Init => CallsInv
<1> SUFFICES ASSUME Init PROVE CallsInv
  OBVIOUS
<1>1. Types
  BY TypesInit
<1>2. \A s \in Session : sockQ[s] = <<>> /\ hndQ[s] = <<>>
  BY DEF Init
<1>3. \A n \in Name, s \in Session : At(n, s) = {}
  BY <1>2, EmptyOnce DEF At
<1>4. \A s \in Session : /\ Range(buf[s]) = {} /\ Range(batch[s]) = {} /\ Range(replies[s]) = {}
                         /\ sent[s] = {} /\ waiting[s] = {} /\ Early(s) = {}
                         /\ Flying(s) = {}
  <2>1. \A s \in Session : /\ Range(buf[s]) = {} /\ Range(batch[s]) = {} /\ Range(replies[s]) = {}
                           /\ sent[s] = {} /\ waiting[s] = {} /\ Range(writing[s]) = {}
    BY EmptyOnce DEF Init
  <2>2. \A s \in Session : Early(s) = {}
    BY <1>3 DEF Early, Name, SockName
  <2> QED BY <2>1, <2>2 DEF Flying
<1>5. Single
  BY <1>2, EmptyOnce DEF Single
<1>6. Turns
  <2>1. \A c \in Call : pc[c] = "idle" /\ tm[c] = "new"
    BY DEF Init
  <2> QED BY <1>3, <2>1, TurnIsName DEF Turns
<1>7. Fresh
  <2>1. /\ cur = 0 /\ made = 0 /\ \A c \in Call : on[c] = 0
    BY DEF Init, NoSession
  <2>2. \A s \in Session : con[s] = Ended /\ snd[s] = Ended /\ rcv[s] = Ended /\ writing[s] = <<>>
    BY DEF Init
  <2>3. \A s \in Session : Begun(s)
    BY <2>2 DEF Begun
  <2> QED BY <2>1, <2>3 DEF Fresh
<1>8. ReadsAlone
  BY <1>2, EmptyOnce DEF ReadsAlone
<1>9. Created
  <2>1. mgrQ = <<>>
    BY DEF Init
  <2> QED BY <2>1, EmptyOnce DEF Created
<1>10. Places
  <2>1. answered = {}
    BY DEF Init
  <2> QED BY <1>4, <2>1 DEF Places
<1>11. Deserved
  <2>1. \A c \in Call : /\ pc[c] = "idle" /\ tm[c] = "new" /\ got[c] = FALSE
                        /\ status[c] = "OK" /\ Told(c) = "OK"
    BY DEF Init, Told
  <2>2. \A s \in Session : At("reply", s) = {}
    BY <1>3 DEF Name
  <2> QED BY <1>4, <2>1, <2>2 DEF Deserved
<1>12. RepliesFollow
  <2>1. \A s \in Session : At("reply", s) = {}
    BY <1>3 DEF Name
  <2>2. \A s \in Session : \A x, y : Before(hndQ[s], x, y)
    BY <1>2 DEF Before
  <2> QED BY <1>4, <2>1, <2>2 DEF RepliesFollow
<1> QED BY <1>1, <1>5, <1>6, <1>7, <1>8, <1>9, <1>10, <1>11, <1>12 DEF CallsInv

LEMMA CallsStep == CallsInv /\ [Next]_vars => CallsInv'
BY TypesStep, SingleStep, TurnsStep, FreshStep, ReadsAloneStep, CreatedStep, PlacesStep, DeservedStep,
   RepliesFollowStep DEF CallsInv

(***************************************************************************)
(* Where a call, its request and its reply can be, at any time.            *)
(***************************************************************************)
THEOREM CallsKeepTheirPlaces == Spec => []CallsInv
<1> QED BY CallsInit, CallsStep, PTL DEF Spec

(***************************************************************************)
(* For every set of calls and every number of sessions, and although the   *)
(* request may be answered before the coroutine of its call looks: a reply *)
(* that is recorded for a call finds it waiting, so the call does not miss *)
(* the cancellation of its wait.                                           *)
(***************************************************************************)
THEOREM ReplyFindsItsCall == Spec => []ReplyFindsWaiter
<1>1. Init => ReplyFindsWaiter
  BY DEF Init, ReplyFindsWaiter
<1>2. CallsInv /\ ReplyFindsWaiter /\ [Next]_vars => ReplyFindsWaiter'
  BY WaiterStep DEF CallsInv
<1> QED BY <1>1, <1>2, CallsKeepTheirPlaces, PTL DEF Spec

-----------------------------------------------------------------------------
(***************************************************************************)
(* The refinement of RpcCalls.                                             *)
(***************************************************************************)
CallSeen(c) == CASE pc[c] = "idle" -> "idle"
                 [] pc[c] = "done" -> status[c]
                 [] OTHER -> "pending"
AbsCall == [c \in Call |-> CallSeen(c)]

LEMMA SeenCases ==
  \A c \in Call : /\ pc[c] = "idle" => AbsCall[c] = "idle"
                  /\ pc[c] = "done" => AbsCall[c] = status[c]
                  /\ pc[c] \notin {"idle", "done"} => AbsCall[c] = "pending"
BY DEF AbsCall, CallSeen

LEMMA SeenSame ==
  ASSUME \A c \in Call : \/ pc'[c] = pc[c] /\ (status'[c] = status[c] \/ pc[c] # "done")
                         \/ pc[c] \notin {"idle", "done"} /\ pc'[c] \notin {"idle", "done"}
  PROVE  AbsCall' = AbsCall
<1>1. \A c \in Call : CallSeen(c)' = CallSeen(c)
  BY DEF CallSeen
<1> QED BY <1>1 DEF AbsCall

LEMMA SeenOne ==
  ASSUME Types, NEW c \in Call, NEW p, NEW v, pc' = Set(pc, c, p),
         \/ status' = status /\ p \notin {"idle", "done"} /\ v = "pending"
         \/ status' = Set(status, c, v) /\ p = "done"
  PROVE  AbsCall' = [AbsCall EXCEPT ![c] = v]
<1>1. /\ pc'[c] = p /\ \A d \in Call \ {c} : pc'[d] = pc[d] /\ status'[d] = status[d]
      /\ p = "done" => status'[c] = v
  BY DEF Set, Types, CallTypes
<1>2. \A d \in Call : CallSeen(d)' = IF d = c THEN v ELSE CallSeen(d)
  BY <1>1 DEF CallSeen
<1> QED BY <1>2 DEF AbsCall

LEMMA RefinesInit == Init => Abstract!Init
<1> SUFFICES ASSUME Init PROVE Abstract!Init
  OBVIOUS
<1>1. \A c \in Call : pc[c] = "idle"
  BY DEF Init
<1>2. answer \in [Call -> Code]
  BY DEF Init, Code
<1> QED BY <1>1, <1>2 DEF Init, Abstract!Init

\* The steps of RpcCalls, in the variables of RpcClient.
LEMMA AbstractSteps ==
  ASSUME NEW c \in Call, UNCHANGED <<run, late, answered, answer>>
  PROVE  /\ /\ AbsCall[c] = "idle" /\ CtxOf[c] \notin ctxDone /\ ctxDone' = ctxDone
            /\ AbsCall' = [AbsCall EXCEPT ![c] = "pending"]
            => Abstract!Next
         /\ /\ AbsCall[c] = "idle" /\ CtxOf[c] \in ctxDone /\ ctxDone' = ctxDone
            /\ AbsCall' = [AbsCall EXCEPT ![c] = "CANCELLED"]
            => Abstract!Next
         /\ /\ AbsCall[c] = "pending" /\ ~run /\ ctxDone' = ctxDone
            /\ AbsCall' = [AbsCall EXCEPT ![c] = "CLI_IS_NOT_RUNNING"]
            => Abstract!Next
<1>1. /\ AbsCall[c] = "idle" /\ CtxOf[c] \notin ctxDone /\ ctxDone' = ctxDone
      /\ AbsCall' = [AbsCall EXCEPT ![c] = "pending"]
      => Abstract!Begin(c)
  BY DEF AbsCall, CallSeen, Abstract!Begin
<1>2. /\ AbsCall[c] = "idle" /\ CtxOf[c] \in ctxDone /\ ctxDone' = ctxDone
      /\ AbsCall' = [AbsCall EXCEPT ![c] = "CANCELLED"]
      => Abstract!Cancel(c)
  BY DEF AbsCall, CallSeen, Abstract!Cancel
<1>3. /\ AbsCall[c] = "pending" /\ ~run /\ ctxDone' = ctxDone
      /\ AbsCall' = [AbsCall EXCEPT ![c] = "CLI_IS_NOT_RUNNING"]
      => Abstract!Refuse(c)
  BY DEF AbsCall, CallSeen, Abstract!Refuse, Abstract!Return
<1> QED BY <1>1, <1>2, <1>3 DEF Abstract!Next

\* A wait is over, by an answer or by the deadline.
LEMMA AbstractReturns ==
  ASSUME NEW c \in Call, NEW v \in Code, UNCHANGED <<run, late, answered, answer>>,
         AbsCall[c] = "pending", AbsCall' = [AbsCall EXCEPT ![c] = v]
  PROVE  /\ /\ c \in answered /\ answer[c] = "OK" /\ v \in {"OK", "CLI_PARSE_RSP_FAILED"}
            /\ ctxDone' = ctxDone
            => Abstract!Next
         /\ /\ (c \in answered /\ v = answer[c] /\ v # "OK") \/ (c \in late /\ v = "TIMEOUT")
            /\ ctxDone' = ctxDone \cup {CtxOf[c]}
            => Abstract!Next
<1>1. /\ c \in answered /\ answer[c] = "OK" /\ v \in {"OK", "CLI_PARSE_RSP_FAILED"}
      /\ ctxDone' = ctxDone
      => Abstract!Succeed(c, v)
  BY DEF AbsCall, CallSeen, Abstract!Succeed, Abstract!Return
<1>2. /\ (c \in answered /\ v = answer[c] /\ v # "OK") \/ (c \in late /\ v = "TIMEOUT")
      /\ ctxDone' = ctxDone \cup {CtxOf[c]}
      => Abstract!Fail(c, v)
  BY DEF AbsCall, CallSeen, Abstract!Fail, Abstract!Return
<1> QED BY <1>1, <1>2 DEF Abstract!Next

LEMMA AbstractEnvironment ==
  ASSUME AbsCall' = AbsCall
  PROVE  /\ \A c \in Call, code \in Code :
              /\ AbsCall[c] # "idle" /\ c \notin answered /\ answered' = answered \cup {c}
              /\ answer' = Set(answer, c, code) /\ UNCHANGED <<run, late, ctxDone>>
              => Abstract!Next
         /\ \A c \in Call : late' = late \cup {c} /\ UNCHANGED <<run, answered, answer, ctxDone>>
                            => Abstract!Next
         /\ run' = FALSE /\ UNCHANGED <<late, answered, answer, ctxDone>> => Abstract!Next
         /\ \A x \in Context :
              ctxDone' = ctxDone \cup {x} /\ UNCHANGED <<run, late, answered, answer>> => Abstract!Next
<1>1. ASSUME NEW c \in Call, NEW code \in Code,
             AbsCall[c] # "idle", c \notin answered, answered' = answered \cup {c},
             answer' = Set(answer, c, code), UNCHANGED <<run, late, ctxDone>>
      PROVE  Abstract!Next
  <2>1. Abstract!Answer(c, code)
    BY <1>1 DEF AbsCall, CallSeen, Set, Abstract!Answer
  <2> QED BY <2>1 DEF Abstract!Next
<1>2. ASSUME NEW c \in Call, late' = late \cup {c}, UNCHANGED <<run, answered, answer, ctxDone>>
      PROVE  Abstract!Next
  <2>1. Abstract!PassDeadline(c)
    BY <1>2 DEF AbsCall, CallSeen, Abstract!PassDeadline
  <2> QED BY <2>1 DEF Abstract!Next
<1>3. ASSUME run' = FALSE, UNCHANGED <<late, answered, answer, ctxDone>> PROVE Abstract!Next
  <2>1. Abstract!Close
    BY <1>3 DEF AbsCall, CallSeen, Abstract!Close
  <2> QED BY <2>1 DEF Abstract!Next
<1>4. ASSUME NEW x \in Context, ctxDone' = ctxDone \cup {x}, UNCHANGED <<run, late, answered, answer>>
      PROVE  Abstract!Next
  <2>1. Abstract!Done(x)
    BY <1>4 DEF AbsCall, CallSeen, Abstract!Done
  <2> QED BY <2>1 DEF Abstract!Next
<1> QED BY <1>1, <1>2, <1>3, <1>4

AbsVars == <<AbsCall, answered, answer, late, ~run, ctxDone>>

LEMMA RefinesStep == CallsInv /\ [Next]_vars => [Abstract!Next]_AbsVars
<1> SUFFICES ASSUME CallsInv, [Next]_vars PROVE Abstract!Next \/ UNCHANGED AbsVars
  OBVIOUS
<1> USE DEF client, calls, queues, coros, data, net
<1>a. Types /\ Single /\ Turns /\ Created /\ Places /\ Deserved
  BY DEF CallsInv
<1> DEFINE Env == UNCHANGED <<run, late, answered, answer, ctxDone>>
<1>s. AbsCall' = AbsCall /\ Env => UNCHANGED AbsVars
  BY DEF AbsVars
<1>0. pc' = pc /\ status' = status /\ Env => UNCHANGED AbsVars
  BY <1>s, SeenSame
<1>1. ASSUME NEW c \in Call, Invoke(c) PROVE Abstract!Next
  <2>1. pc[c] = "idle" /\ Env
    BY <1>1 DEF Invoke
  <2>2. AbsCall[c] = "idle"
    BY <2>1, SeenCases
  <2>3. CASE CtxOf[c] \notin ctxDone /\ pc' = Set(pc, c, "try") /\ status' = status
    <3>1. AbsCall' = [AbsCall EXCEPT ![c] = "pending"]
      BY <1>a, <2>3, SeenOne
    <3> QED BY <2>1, <2>2, <2>3, <3>1, AbstractSteps
  <2>4. CASE CtxOf[c] \in ctxDone /\ Return(c, "CANCELLED")
    <3>1. AbsCall' = [AbsCall EXCEPT ![c] = "CANCELLED"]
      BY <1>a, <2>4, SeenOne DEF Return
    <3> QED BY <2>1, <2>2, <2>4, <3>1, AbstractSteps
  <2> QED BY <1>1, <2>3, <2>4 DEF Invoke
<1>2. ASSUME NEW c \in Call, TrySession(c) \/ TryCreate(c) \/ SpawnCreate(c) PROVE UNCHANGED AbsVars
  <2>1. pc[c] \in {"try", "spawn"} /\ status' = status /\ Env
    BY <1>2 DEF TrySession, TryCreate, SpawnCreate
  <2>2. PICK p \in {"call", "spawn", "create"} : pc' = Set(pc, c, p)
    BY <1>2 DEF TrySession, TryCreate, SpawnCreate
  <2>3. AbsCall' = AbsCall
    <3>1. \A d \in Call : \/ pc'[d] = pc[d] /\ status'[d] = status[d]
                          \/ pc[d] \notin {"idle", "done"} /\ pc'[d] \notin {"idle", "done"}
      BY <1>a, <2>1, <2>2 DEF Set, Types, CallTypes
    <3> QED BY <3>1, SeenSame
  <2> QED BY <1>s, <2>1, <2>3
<1>3. ASSUME NEW c \in Call, TryStopped(c) PROVE Abstract!Next
  <2>1. pc[c] = "try" /\ ~run /\ Return(c, "CLI_IS_NOT_RUNNING") /\ Env
    BY <1>3 DEF TryStopped
  <2>2. AbsCall[c] = "pending"
    BY <2>1, SeenCases
  <2>3. AbsCall' = [AbsCall EXCEPT ![c] = "CLI_IS_NOT_RUNNING"]
    BY <1>a, <2>1, SeenOne DEF Return
  <2> QED BY <2>1, <2>2, <2>3, AbstractSteps
<1>4. ASSUME NEW c \in Call, WaitTimesOut(c) \/ DeliverOver(c) PROVE UNCHANGED AbsVars
  BY <1>0, <1>4 DEF WaitTimesOut, DeliverOver
<1>5. ASSUME NEW c \in Call, DeadlinePasses(c) PROVE Abstract!Next
  <2>1. pc' = pc /\ status' = status /\ late' = late \cup {c} /\ UNCHANGED <<run, answered, answer, ctxDone>>
    BY <1>5 DEF DeadlinePasses
  <2>2. AbsCall' = AbsCall
    BY <2>1, SeenSame
  <2> QED BY <2>1, <2>2, AbstractEnvironment
<1>6. CASE Create
  <2>1. /\ mgrQ # <<>> /\ Head(mgrQ).h = "create" /\ pc' = Set(pc, Head(mgrQ).call, "try")
        /\ status' = status /\ Env
    BY <1>6 DEF Create
  <2>2. mgrQ \in Seq(MgrH) /\ Head(mgrQ) \in MgrH /\ Head(mgrQ) \in Range(mgrQ)
    BY <1>a, <2>1, TailOnce DEF Types, SessionTypes
  <2>3. PICK c \in Call : Head(mgrQ) = HC("create", c) /\ c = Head(mgrQ).call
    BY <2>1, <2>2 DEF MgrH, HC
  <2>4. pc[c] = "create"
    BY <1>a, <2>2, <2>3 DEF Created
  <2>5. \A d \in Call : \/ pc'[d] = pc[d] /\ status'[d] = status[d]
                        \/ pc[d] \notin {"idle", "done"} /\ pc'[d] \notin {"idle", "done"}
    BY <1>a, <2>1, <2>3, <2>4 DEF Set, Types, CallTypes
  <2>6. AbsCall' = AbsCall
    BY <2>5, SeenSame
  <2> QED BY <1>s, <2>1, <2>6
<1>7. ASSUME Stop \/ \E x \in UserDone : Done(x) PROVE Abstract!Next
  <2>1. pc' = pc /\ status' = status
    BY <1>7 DEF Stop, Done
  <2>2. AbsCall' = AbsCall
    BY <2>1, SeenSame
  <2>3. \/ run' = FALSE /\ UNCHANGED <<late, answered, answer, ctxDone>>
        \/ \E x \in Context : ctxDone' = ctxDone \cup {x} /\ UNCHANGED <<run, late, answered, answer>>
    BY <1>7, UserDoneAssumption DEF Stop, Done
  <2> QED BY <2>2, <2>3, AbstractEnvironment
<1>8. CASE ClientStop \/ (\E s \in Session \cup {NoSession} : DispatchStop(s)) \/ UNCHANGED vars
  BY <1>0, <1>8 DEF ClientStop, DispatchStop, vars
<1>9. ASSUME NEW s \in Session, SockStrand(s) PROVE UNCHANGED AbsVars
  BY <1>0, <1>9 DEF SockStrand, StartConnect, Connected, ConnectFailed, SendWrite, SendWait, SendHeartBeat,
                    SendExit, RecvReplies, RecvExit, Merge, Merged, SockStop
<1>10. ASSUME NEW s \in Session, BeginCall(s) \/ AwaitReply(s) PROVE UNCHANGED AbsVars
  BY <1>0, <1>10 DEF BeginCall, AwaitReply
<1>11. ASSUME NEW s \in Session, HandleReply(s) PROVE UNCHANGED AbsVars
  <2>1. pc' = pc /\ Env
    BY <1>11 DEF HandleReply
  <2>2. \A d \in Call : status'[d] = status[d] \/ pc[d] # "done"
    <3>1. status' = status \/ (HndCall(s) \in waiting[s] /\ status' = Set(status, HndCall(s), answer[HndCall(s)]))
      BY <1>11 DEF HandleReply
    <3>2. HndCall(s) \in waiting[s] => pc[HndCall(s)] = "call"
      BY <1>a DEF Deserved
    <3> QED BY <1>a, <3>1, <3>2 DEF Set, Types, CallTypes
  <2>3. AbsCall' = AbsCall
    BY <2>1, <2>2, SeenSame
  <2> QED BY <1>s, <2>1, <2>3
<1>12. ASSUME NEW s \in Session, EndCall(s) PROVE Abstract!Next
  <2>1. PICK c \in Call : c = HndCall(s) /\ pc[c] = "call" /\ tm[c] \in {"fired", "cancel"}
    BY <1>12, <1>a, OverCalls
  <2>2. PICK v \in Returned(Outcome(c)) :
          pc' = Set(pc, c, "done") /\ status' = Set(status, c, v)
    BY <1>12, <2>1 DEF EndCall, Return
  <2>3. /\ UNCHANGED <<run, late, answered, answer>>
        /\ ctxDone' = IF Outcome(c) = "OK" THEN ctxDone ELSE ctxDone \cup {CtxOf[c]}
    BY <1>12, <2>1 DEF EndCall
  <2>4. /\ tm[c] = "fired" => c \in late /\ Outcome(c) = "TIMEOUT"
        /\ tm[c] = "cancel" => c \in answered /\ Outcome(c) = answer[c]
    BY <1>a, <2>1 DEF Deserved, Outcome, Told
  <2>5. AbsCall[c] = "pending" /\ AbsCall' = [AbsCall EXCEPT ![c] = v]
    BY <1>a, <2>1, <2>2, SeenCases, SeenOne
  <2>6. Outcome(c) \in Code
    BY <2>1, <2>4, <1>a DEF Types, DataTypes, Code
  <2>7. v \in Code /\ (Outcome(c) # "OK" => v = Outcome(c))
        /\ (Outcome(c) = "OK" => v \in {"OK", "CLI_PARSE_RSP_FAILED"})
    BY <2>2, <2>6 DEF Returned, Code
  <2>8. CASE tm[c] = "fired"
    BY <2>3, <2>4, <2>5, <2>7, <2>8, AbstractReturns
  <2>9. CASE tm[c] = "cancel"
    BY <2>3, <2>4, <2>5, <2>7, <2>9, AbstractReturns
  <2> QED BY <2>1, <2>8, <2>9
<1>13. ASSUME NEW s \in Session, \/ ConnectDone(s) \/ WriteDone(s) \/ ReadDone(s) \/ DeliverSock(s)
                                 \/ HeartBeatDue(s) \/ ConnectBreaks(s) \/ WriteBreaks(s) \/ ReadBreaks(s)
       PROVE  UNCHANGED AbsVars
  BY <1>0, <1>13 DEF ConnectDone, WriteDone, ReadDone, DeliverSock, HeartBeatDue, ConnectBreaks, WriteBreaks,
                     ReadBreaks
<1>14. ASSUME NEW s \in Session, NEW c \in Call, NEW code \in ReplyCode[c], ServerAnswers(s, c, code)
       PROVE  Abstract!Next
  <2>1. /\ c \in sent[s] /\ pc' = pc /\ status' = status /\ answered' = answered \cup {c}
        /\ answer' = Set(answer, c, code) /\ UNCHANGED <<run, late, ctxDone>>
    BY <1>14 DEF ServerAnswers
  <2>2. c \notin answered /\ pc[c] \in {"call", "done"}
    BY <1>a, <2>1 DEF Places
  <2>3. AbsCall[c] # "idle"
    <3>1. status[c] # "idle"
      BY <1>a DEF Types, CallTypes, Code
    <3> QED BY <2>2, <3>1, SeenCases
  <2>4. AbsCall' = AbsCall
    BY <2>1, SeenSame
  <2> QED BY <2>1, <2>2, <2>3, <2>4, ReplyCodeAssumption, AbstractEnvironment
<1>15. ASSUME NEW s \in Session, SessionStep(s) PROVE Abstract!Next \/ UNCHANGED AbsVars
  BY <1>9, <1>10, <1>11, <1>12, <1>13, <1>15 DEF SessionStep, HndStrand
<1>16. ASSUME NEW c \in Call, Invoke(c) \/ CallStep(c) \/ DeadlinePasses(c)
       PROVE  Abstract!Next \/ UNCHANGED AbsVars
  BY <1>1, <1>2, <1>3, <1>4, <1>5, <1>16 DEF CallStep
<1> QED BY <1>6, <1>7, <1>8, <1>13, <1>14, <1>15, <1>16 DEF Next

(***************************************************************************)
(* For every set of calls, contexts and deadlines, every number of         *)
(* sessions and whatever statuses the server answers with: Invoke returns  *)
(* one status, CANCELLED without a request exactly if the call's context   *)
(* was done, otherwise the server's answer (or that it did not parse),     *)
(* TIMEOUT after a passed deadline or CLI_IS_NOT_RUNNING after Stop; and a *)
(* call whose status came from a failed wait or reply left its context     *)
(* done, so that no later call of the context is made.                     *)
(***************************************************************************)
THEOREM EveryStatusIsDeserved == Spec => ImplementsRpcCalls
<1>1. CallsInv /\ [Next]_vars => [Abstract!Next]_<<AbsCall, answered, answer, late, ~run, ctxDone>>
  BY RefinesStep DEF AbsVars
<1>2. AbsCall = [c \in Call |-> CASE pc[c] = "idle" -> "idle"
                                  [] pc[c] = "done" -> status[c]
                                  [] OTHER -> "pending"]
  BY DEF AbsCall, CallSeen
<1> QED BY <1>1, RefinesInit, CallsKeepTheirPlaces, PTL
        DEF Spec, ImplementsRpcCalls, Abstract!Spec, AbsCall, CallSeen
=============================================================================
