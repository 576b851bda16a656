------------------------------- MODULE RpcClient -------------------------------
(***************************************************************************)
(* AsioRpcClient and AsioRpcClient::Session                                *)
(* (ytrpc/asio_rpc/asio_rpc_client.hpp): concurrent Invoke calls share one *)
(* connection, which is made again when it has stopped.                    *)
(*                                                                         *)
(* Strands are FIFO sequences of handlers and completions are queued later *)
(* than they happen, as in RpcServerSession.  A session owns two strands:  *)
(* the socket strand (connect, send and receive coroutines) and the handle *)
(* strand (the map of the calls that wait for a reply).  Request ids are   *)
(* the calls themselves: their wrap-around is not modelled.                *)
(***************************************************************************)
EXTENDS Naturals, Sequences, FiniteSets

CONSTANTS
  Call,         \* calls of Invoke, each made once
  Timed,        \* the calls whose context has a finite deadline
  Context,      \* contexts
  CtxOf,        \* the context of each call
  ReplyCode,    \* bound: the statuses the server may answer each call with
  UserDone,     \* bound: the contexts that somebody else declares done
  MaxSession,   \* bound: sessions made; the last one's connection never breaks
  Beating       \* bound: the sessions that stay idle for a heartbeat time

ASSUME CallAssumption == Timed \subseteq Call /\ CtxOf \in [Call -> Context]
\* AsioRpcStatus::Code.  UNKNOWN stands for the numbers without a name, too:
\* the client takes whatever number a reply holds for a status.
Code == {"OK", "UNKNOWN", "TIMEOUT", "CANCELLED", "NOT_IMPLEMENTED", "NOT_FOUND",
         "SVR_PARSE_REQ_FAILED", "CLI_PARSE_RSP_FAILED", "CLI_IS_NOT_RUNNING"}

ASSUME ReplyCodeAssumption == ReplyCode \in [Call -> SUBSET Code]
ASSUME UserDoneAssumption == UserDone \subseteq Context
ASSUME MaxSessionAssumption == MaxSession \in Nat \ {0}

Session == 1..MaxSession
NoSession == 0

ASSUME BeatingAssumption == Beating \subseteq Session

VARIABLES
  run,       \* AsioRpcClient::run_flag_
  cur,       \* session_ptr_
  mgrQ,      \* mgr_strand_
  stopDue,   \* stops whose handler is about to be dispatched: sessions, 0 the client
  ctxDone,   \* contexts whose done_flag_ is set
  pc,        \* per call: "idle", "try", "spawn", "create", "call", "done"
  status,    \* per call: msg_ctx.ret_status
  tm,        \* per call: recv_sig_timer
  got,       \* per call: a reply was recorded for it
  on,        \* per call: the session it uses
  late,      \* calls whose deadline has passed
  made,      \* number of sessions made
  srun,      \* per session: run_flag_
  sock,      \* per session: the socket is open
  sockQ,     \* per session: session_socket_strand_
  hndQ,      \* per session: session_handle_strand_
  con,       \* per session: the start coroutine (connect)
  snd,       \* per session: the send coroutine
  rcv,       \* per session: the receive coroutine
  batch,     \* per session: the replies its last read returned
  buf,       \* per session: send_buffer_vec_
  writing,   \* per session: the requests of the write in progress
  waiting,   \* per session: msg_recorder_map_
  sent,      \* per session: requests at the server, not yet answered
  replies,   \* per session: replies on the wire
  answered,  \* calls the server has answered
  answer     \* per answered call: the ret_code of the reply

client == <<run, cur, mgrQ, ctxDone>>
calls == <<pc, status, tm, got, on>>
queues == <<sockQ, hndQ>>
coros == <<con, snd, rcv, batch>>
data == <<buf, writing, waiting>>
net == <<sent, replies, answered, answer>>
vars == <<client, stopDue, calls, late, made, srun, sock, queues, coros, data, net>>

Coro(at, op) == [at |-> at, op |-> op]
Ended == Coro("end", "none")
Awaits(c, at) == c = Coro(at, "none")
H(name) == [h |-> name]
HC(name, c) == [h |-> name, call |-> c]
Queued(q, x) == \E i \in DOMAIN q : q[i] = x
Set(f, s, v) == [f EXCEPT ![s] = v]

Init ==
  /\ run = TRUE /\ cur = NoSession /\ mgrQ = <<>> /\ stopDue = {} /\ ctxDone = {}
  /\ pc = [c \in Call |-> "idle"]
  /\ status = [c \in Call |-> "OK"]
  /\ tm = [c \in Call |-> "new"]
  /\ got = [c \in Call |-> FALSE]
  /\ on = [c \in Call |-> NoSession]
  /\ late = {} /\ made = 0
  /\ srun = [s \in Session |-> FALSE] /\ sock = [s \in Session |-> FALSE]
  /\ sockQ = [s \in Session |-> <<>>] /\ hndQ = [s \in Session |-> <<>>]
  /\ con = [s \in Session |-> Ended] /\ snd = [s \in Session |-> Ended]
  /\ rcv = [s \in Session |-> Ended] /\ batch = [s \in Session |-> <<>>]
  /\ buf = [s \in Session |-> <<>>] /\ writing = [s \in Session |-> <<>>]
  /\ waiting = [s \in Session |-> {}]
  /\ sent = [s \in Session |-> {}] /\ replies = [s \in Session |-> <<>>]
  /\ answered = {} /\ answer = [c \in Call |-> "OK"]

-----------------------------------------------------------------------------
(***************************************************************************)
(* Invoke, up to the session                                               *)
(***************************************************************************)
Return(c, code) ==
  /\ pc' = Set(pc, c, "done")
  /\ status' = Set(status, c, code)

Invoke(c) ==
  /\ pc[c] = "idle"
  /\ IF CtxOf[c] \in ctxDone
     THEN Return(c, "CANCELLED")
     ELSE pc' = Set(pc, c, "try") /\ UNCHANGED status
  /\ UNCHANGED <<client, stopDue, tm, got, on, late, made, srun, sock, queues, coros, data, net>>

\* AsioRpcContext::Done, which anybody who has the context may call: nobody
\* looks at done_flag_ when the context's last call has begun.
Done(x) ==
  /\ \E c \in Call : CtxOf[c] = x /\ pc[c] = "idle"
  /\ ctxDone' = ctxDone \cup {x}
  /\ UNCHANGED <<run, cur, mgrQ, stopDue, calls, late, made, srun, sock, queues, coros, data, net>>

Usable == cur # NoSession /\ srun[cur]

\* Session::Invoke: co_spawn on the handle strand of the current session.
TrySession(c) ==
  /\ pc[c] = "try"
  /\ Usable
  /\ on' = Set(on, c, cur)
  /\ pc' = Set(pc, c, "call")
  /\ hndQ' = [hndQ EXCEPT ![cur] = Append(@, HC("begin", c))]
  /\ UNCHANGED <<client, stopDue, status, tm, got, late, made, srun, sock, sockQ, coros, data, net>>

TryStopped(c) ==
  /\ pc[c] = "try"
  /\ ~Usable /\ ~run
  /\ Return(c, "CLI_IS_NOT_RUNNING")
  /\ UNCHANGED <<client, stopDue, tm, got, on, late, made, srun, sock, queues, coros, data, net>>

TryCreate(c) ==
  /\ pc[c] = "try"
  /\ ~Usable /\ run
  /\ pc' = Set(pc, c, "spawn")
  /\ UNCHANGED <<client, stopDue, status, tm, got, on, late, made, srun, sock, queues, coros, data, net>>

\* The coroutine on mgr_strand_ is spawned after the test of run_flag_: a
\* Stop may have queued its handler in between.
SpawnCreate(c) ==
  /\ pc[c] = "spawn"
  /\ pc' = Set(pc, c, "create")
  /\ mgrQ' = Append(mgrQ, HC("create", c))
  /\ UNCHANGED <<run, cur, ctxDone, stopDue, status, tm, got, on, late, made, srun, sock, queues, coros, data, net>>

\* Mutants of MustCreate: the session is not looked at again; the flag is
\* not looked at again.
MustCreateUnchecked == run
MustCreateStopped == ~Usable

MustCreate == run /\ ~Usable

\* On mgr_strand_: a new session, unless another call made one already.
Create ==
  /\ mgrQ # <<>> /\ Head(mgrQ).h = "create"
  /\ mgrQ' = Tail(mgrQ)
  /\ pc' = Set(pc, Head(mgrQ).call, "try")
  /\ IF MustCreate
     THEN LET s == made + 1 IN
          /\ s \in Session
          /\ made' = s
          /\ cur' = s
          /\ srun' = Set(srun, s, TRUE)
          /\ sock' = Set(sock, s, TRUE)
          /\ con' = Set(con, s, Coro("start", "ok"))
          /\ sockQ' = Set(sockQ, s, <<H("con")>>)
     ELSE UNCHANGED <<made, cur, srun, sock, con, sockQ>>
  /\ UNCHANGED <<run, ctxDone, stopDue, status, tm, got, on, late, hndQ, snd, rcv, batch, data, net>>

-----------------------------------------------------------------------------
(***************************************************************************)
(* Stopping the client, and a session                                      *)
(***************************************************************************)
Stop ==
  /\ run
  /\ run' = FALSE
  /\ stopDue' = stopDue \cup {NoSession}
  /\ UNCHANGED <<cur, mgrQ, ctxDone, calls, late, made, srun, sock, queues, coros, data, net>>

DispatchStop(s) ==
  /\ s \in stopDue
  /\ stopDue' = stopDue \ {s}
  /\ IF s = NoSession
     THEN mgrQ' = Append(mgrQ, H("stop")) /\ UNCHANGED sockQ
     ELSE sockQ' = [sockQ EXCEPT ![s] = Append(@, H("stop"))] /\ UNCHANGED mgrQ
  /\ UNCHANGED <<run, cur, ctxDone, calls, late, made, srun, sock, hndQ, coros, data, net>>

ClientStop ==
  /\ mgrQ # <<>> /\ Head(mgrQ).h = "stop"
  /\ mgrQ' = Tail(mgrQ)
  /\ IF Usable
     THEN srun' = Set(srun, cur, FALSE) /\ stopDue' = stopDue \cup {cur}
     ELSE UNCHANGED <<srun, stopDue>>
  /\ UNCHANGED <<run, cur, ctxDone, calls, late, made, sock, queues, coros, data, net>>

\* Mutant of CloseSocket: the signal is cancelled, the socket stays open.
CancelSignalOnly(s, k, d, r) ==
  /\ sock' = sock
  /\ con' = Set(con, s, k)
  /\ snd' = Set(snd, s, IF Awaits(d, "wait") THEN Coro("wait", "cancel") ELSE d)
  /\ rcv' = Set(rcv, s, r)

\* Cancel the send signal and abort the socket operations of session s, whose
\* coroutines are k (connect), d (send) and r (receive).
CloseSocket(s, k, d, r) ==
  /\ sock' = Set(sock, s, FALSE)
  /\ con' = Set(con, s, IF Awaits(k, "connect") THEN Coro("connect", "error") ELSE k)
  /\ snd' = Set(snd, s, IF Awaits(d, "wait") THEN Coro("wait", "cancel")
                        ELSE IF d.at \in {"write", "beat"} /\ d.op = "none"
                             THEN Coro(d.at, "error") ELSE d)
  /\ rcv' = Set(rcv, s, IF Awaits(r, "read") THEN Coro("read", "error") ELSE r)

\* Session::Stop called on the socket strand by a coroutine that leaves.
LeaveAndStop(s, k, d, r) ==
  IF srun[s]
  THEN srun' = Set(srun, s, FALSE) /\ CloseSocket(s, k, d, r)
  ELSE /\ con' = Set(con, s, k) /\ snd' = Set(snd, s, d) /\ rcv' = Set(rcv, s, r)
       /\ UNCHANGED <<srun, sock>>

-----------------------------------------------------------------------------
(***************************************************************************)
(* Handlers of a session's socket strand                                   *)
(***************************************************************************)
OnSock(s, name) == sockQ[s] # <<>> /\ Head(sockQ[s]).h = name

Rest(s) == Tail(sockQ[s])

StartConnect(s) ==
  /\ OnSock(s, "con") /\ con[s].at = "start"
  /\ sockQ' = Set(sockQ, s, Rest(s))
  /\ con' = Set(con, s, Coro("connect", "none"))
  /\ UNCHANGED <<client, stopDue, calls, late, made, srun, sock, hndQ, snd, rcv, batch, data, net>>

\* Connected: the send and receive coroutines are spawned.
Connected(s) ==
  /\ OnSock(s, "con") /\ con[s] = Coro("connect", "ok")
  /\ sockQ' = Set(sockQ, s, Rest(s) \o <<H("snd"), H("rcv")>>)
  /\ con' = Set(con, s, Ended)
  /\ snd' = Set(snd, s, Coro("start", "ok"))
  /\ rcv' = Set(rcv, s, Coro("start", "ok"))
  /\ UNCHANGED <<client, stopDue, calls, late, made, srun, sock, hndQ, batch, data, net>>

ConnectFailed(s) ==
  /\ OnSock(s, "con") /\ con[s] = Coro("connect", "error")
  /\ sockQ' = Set(sockQ, s, Rest(s))
  /\ LeaveAndStop(s, Ended, snd[s], rcv[s])
  /\ UNCHANGED <<client, stopDue, calls, late, made, hndQ, batch, data, net>>

\* The coroutine is at the head of the loop that empties the send buffer:
\* it passed the test of run_flag_, or it comes back from a write.
SendLooks(s) ==
  \/ snd[s] = Coro("write", "ok")
  \/ srun[s] /\ snd[s] \in {Coro("start", "ok"), Coro("wait", "cancel"), Coro("beat", "ok")}

SendWrite(s) ==
  /\ OnSock(s, "snd") /\ SendLooks(s) /\ buf[s] # <<>>
  /\ sockQ' = Set(sockQ, s, Rest(s))
  /\ writing' = Set(writing, s, buf[s])
  /\ buf' = Set(buf, s, <<>>)
  /\ snd' = Set(snd, s, Coro("write", "none"))
  /\ UNCHANGED <<client, stopDue, calls, late, made, srun, sock, hndQ, con, rcv, batch, waiting, net>>

SendWait(s) ==
  /\ OnSock(s, "snd") /\ SendLooks(s) /\ buf[s] = <<>>
  /\ sockQ' = Set(sockQ, s, Rest(s))
  /\ snd' = Set(snd, s, Coro("wait", "none"))
  /\ UNCHANGED <<client, stopDue, calls, late, made, srun, sock, hndQ, con, rcv, batch, data, net>>

\* The wait ended by its timeout: a heartbeat, without a look at run_flag_.
SendHeartBeat(s) ==
  /\ OnSock(s, "snd") /\ snd[s] = Coro("wait", "fired")
  /\ sockQ' = Set(sockQ, s, Rest(s))
  /\ snd' = Set(snd, s, Coro("beat", "none"))
  /\ UNCHANGED <<client, stopDue, calls, late, made, srun, sock, hndQ, con, rcv, batch, data, net>>

SendExit(s) ==
  /\ OnSock(s, "snd") /\ ~SendLooks(s) /\ snd[s] # Coro("wait", "fired")
  /\ sockQ' = Set(sockQ, s, Rest(s))
  /\ LeaveAndStop(s, con[s], Ended, rcv[s])
  /\ UNCHANGED <<client, stopDue, calls, late, made, hndQ, batch, data, net>>

\* Every reply of a read is posted to the handle strand, in order.
RecvReplies(s) ==
  /\ OnSock(s, "rcv") /\ rcv[s].op # "error"
  /\ sockQ' = Set(sockQ, s, Rest(s))
  /\ hndQ' = [hndQ EXCEPT ![s] = @ \o [i \in DOMAIN batch[s] |-> HC("reply", batch[s][i])]]
  /\ batch' = Set(batch, s, <<>>)
  /\ rcv' = Set(rcv, s, IF srun[s] THEN Coro("read", "none") ELSE Ended)
  /\ UNCHANGED <<client, stopDue, calls, late, made, srun, sock, con, snd, data, net>>

RecvExit(s) ==
  /\ OnSock(s, "rcv") /\ rcv[s] = Coro("read", "error")
  /\ sockQ' = Set(sockQ, s, Rest(s))
  /\ LeaveAndStop(s, con[s], snd[s], Ended)
  /\ UNCHANGED <<client, stopDue, calls, late, made, hndQ, batch, data, net>>

\* Mutant of Woken: the sender is not woken.
NotWoken(d) == d

\* send_sig_timer_.cancel(): only a wait that is in progress ends.
Woken(d) == IF Awaits(d, "wait") THEN Coro("wait", "cancel") ELSE d

\* Session::Invoke's inner coroutine: Merge and wake the sender.  It ends
\* with a step of its own on the strand before the outer one resumes.
Merge(s) ==
  /\ OnSock(s, "merge")
  /\ sockQ' = Set(sockQ, s, Append(Rest(s), HC("merged", Head(sockQ[s]).call)))
  /\ buf' = [buf EXCEPT ![s] = Append(@, Head(sockQ[s]).call)]
  /\ snd' = Set(snd, s, Woken(snd[s]))
  /\ UNCHANGED <<client, stopDue, calls, late, made, srun, sock, hndQ, con, rcv, batch, writing, waiting, net>>

\* Mutant of Merged: the inner coroutine lets others run before it ends.
MergedAfterYield(s) ==
  /\ OnSock(s, "merged")
  /\ IF Rest(s) # <<>>
     THEN sockQ' = Set(sockQ, s, Append(Rest(s), Head(sockQ[s]))) /\ UNCHANGED hndQ
     ELSE /\ sockQ' = Set(sockQ, s, <<>>)
          /\ hndQ' = [hndQ EXCEPT ![s] = Append(@, HC("sent", Head(sockQ[s]).call))]
  /\ UNCHANGED <<client, stopDue, calls, late, made, srun, sock, coros, data, net>>

Merged(s) ==
  /\ OnSock(s, "merged")
  /\ sockQ' = Set(sockQ, s, Rest(s))
  /\ hndQ' = [hndQ EXCEPT ![s] = Append(@, HC("sent", Head(sockQ[s]).call))]
  /\ UNCHANGED <<client, stopDue, calls, late, made, srun, sock, coros, data, net>>

SockStop(s) ==
  /\ OnSock(s, "stop")
  /\ sockQ' = Set(sockQ, s, Rest(s))
  /\ CloseSocket(s, con[s], snd[s], rcv[s])
  /\ UNCHANGED <<client, stopDue, calls, late, made, srun, hndQ, batch, data, net>>

SockStrand(s) ==
  \/ StartConnect(s) \/ Connected(s) \/ ConnectFailed(s)
  \/ SendWrite(s) \/ SendWait(s) \/ SendHeartBeat(s) \/ SendExit(s)
  \/ RecvReplies(s) \/ RecvExit(s)
  \/ Merge(s) \/ Merged(s) \/ SockStop(s)

-----------------------------------------------------------------------------
(***************************************************************************)
(* Handlers of a session's handle strand                                   *)
(***************************************************************************)
OnHnd(s, name) == hndQ[s] # <<>> /\ Head(hndQ[s]).h = name
HndCall(s) == Head(hndQ[s]).call
PopHnd(s) == hndQ' = Set(hndQ, s, Tail(hndQ[s]))

\* The recorder enters the map; the request goes to the socket strand.
BeginCall(s) ==
  /\ OnHnd(s, "begin")
  /\ PopHnd(s)
  /\ waiting' = [waiting EXCEPT ![s] = @ \cup {HndCall(s)}]
  /\ sockQ' = [sockQ EXCEPT ![s] = Append(@, HC("merge", HndCall(s)))]
  /\ UNCHANGED <<client, stopDue, calls, late, made, srun, sock, coros, buf, writing, net>>

\* recv_sig_timer.async_wait
AwaitReply(s) ==
  /\ OnHnd(s, "sent")
  /\ PopHnd(s)
  /\ tm' = Set(tm, HndCall(s), "armed")
  /\ UNCHANGED <<client, stopDue, pc, status, got, on, late, made, srun, sock, sockQ, coros, data, net>>

\* A reply with an owner is recorded, with whatever status the server gave it,
\* and cancels the owner's wait, which has no effect on a wait that has not
\* begun or has already timed out.
HandleReply(s) ==
  /\ OnHnd(s, "reply")
  /\ PopHnd(s)
  /\ LET c == HndCall(s) IN
       IF c \in waiting[s]
       THEN /\ got' = Set(got, c, TRUE)
            /\ status' = Set(status, c, answer[c])
            /\ tm' = IF tm[c] = "armed" THEN Set(tm, c, "cancel") ELSE tm
       ELSE UNCHANGED <<got, status, tm>>
  /\ UNCHANGED <<client, stopDue, pc, on, late, made, srun, sock, sockQ, coros, data, net>>

\* Mutant of Outcome: the timeout is not reported.
OutcomeIgnoringTimeout(c) == status[c]

Outcome(c) == IF tm[c] = "fired" THEN "TIMEOUT" ELSE status[c]

\* What Invoke returns for a status: a response that is OK may not parse.
Returned(code) == IF code = "OK" THEN {"OK", "CLI_PARSE_RSP_FAILED"} ELSE {code}

\* The wait is over: by its timeout (which overrules a recorded reply) or by
\* a reply.  The recorder leaves the map and Invoke returns; every status but
\* OK makes the context done.
EndCall(s) ==
  /\ OnHnd(s, "over")
  /\ PopHnd(s)
  /\ LET c == HndCall(s) IN
       /\ waiting' = [waiting EXCEPT ![s] = @ \ {c}]
       /\ tm' = Set(tm, c, "new")
       /\ \E code \in Returned(Outcome(c)) : Return(c, code)
       /\ ctxDone' = IF Outcome(c) = "OK" THEN ctxDone ELSE ctxDone \cup {CtxOf[c]}
  /\ UNCHANGED <<run, cur, mgrQ, stopDue, got, on, late, made, srun, sock, sockQ, coros, buf, writing, net>>

HndStrand(s) == BeginCall(s) \/ AwaitReply(s) \/ HandleReply(s) \/ EndCall(s)

-----------------------------------------------------------------------------
(***************************************************************************)
(* Completions, the server and the clock                                   *)
(***************************************************************************)
Breakable(s) == s < MaxSession

ConnectDone(s) ==
  /\ Awaits(con[s], "connect") /\ sock[s]
  /\ con' = Set(con, s, Coro("connect", "ok"))
  /\ UNCHANGED <<client, stopDue, calls, late, made, srun, sock, queues, snd, rcv, batch, data, net>>

ConnectBreaks(s) ==
  /\ Awaits(con[s], "connect") /\ Breakable(s)
  /\ con' = Set(con, s, Coro("connect", "error"))
  /\ UNCHANGED <<client, stopDue, calls, late, made, srun, sock, queues, snd, rcv, batch, data, net>>

\* A write on a closed socket fails; on an open one the requests arrive.
WriteDone(s) ==
  /\ snd[s].at \in {"write", "beat"} /\ snd[s].op = "none"
  /\ IF sock[s]
     THEN /\ snd' = Set(snd, s, Coro(snd[s].at, "ok"))
          /\ writing' = Set(writing, s, <<>>)
          /\ sent' = [sent EXCEPT ![s] = @ \cup {writing[s][i] : i \in DOMAIN writing[s]}]
     ELSE /\ snd' = Set(snd, s, Coro(snd[s].at, "error"))
          /\ UNCHANGED <<writing, sent>>
  /\ UNCHANGED <<client, stopDue, calls, late, made, srun, sock, queues, con, rcv, batch, buf, waiting, replies, answered, answer>>

WriteBreaks(s) ==
  /\ snd[s].at \in {"write", "beat"} /\ snd[s].op = "none"
  /\ Breakable(s)
  /\ snd' = Set(snd, s, Coro(snd[s].at, "error"))
  /\ UNCHANGED <<client, stopDue, calls, late, made, srun, sock, queues, con, rcv, batch, data, net>>

ReadDone(s) ==
  /\ Awaits(rcv[s], "read")
  /\ IF sock[s]
     THEN /\ replies[s] # <<>>
          /\ rcv' = Set(rcv, s, Coro("read", "data"))
          /\ batch' = Set(batch, s, replies[s])
          /\ replies' = Set(replies, s, <<>>)
     ELSE /\ rcv' = Set(rcv, s, Coro("read", "error"))
          /\ UNCHANGED <<batch, replies>>
  /\ UNCHANGED <<client, stopDue, calls, late, made, srun, sock, queues, con, snd, data, sent, answered, answer>>

\* The connection breaks, or the server sends what does not parse.
ReadBreaks(s) ==
  /\ Awaits(rcv[s], "read") /\ Breakable(s)
  /\ rcv' = Set(rcv, s, Coro("read", "error"))
  /\ UNCHANGED <<client, stopDue, calls, late, made, srun, sock, queues, con, snd, batch, data, net>>

HeartBeatDue(s) ==
  /\ s \in Beating
  /\ Awaits(snd[s], "wait")
  /\ snd' = Set(snd, s, Coro("wait", "fired"))
  /\ UNCHANGED <<client, stopDue, calls, late, made, srun, sock, queues, con, rcv, batch, data, net>>

\* The server answers requests in any order, each at most once, with a status
\* it may give that call.
ServerAnswers(s, c, code) ==
  /\ c \in sent[s]
  /\ sent' = [sent EXCEPT ![s] = @ \ {c}]
  /\ replies' = [replies EXCEPT ![s] = Append(@, c)]
  /\ answered' = answered \cup {c}
  /\ answer' = Set(answer, c, code)
  /\ UNCHANGED <<client, stopDue, calls, late, made, srun, sock, queues, coros, data>>

DeadlinePasses(c) ==
  /\ c \in Timed \ late
  /\ late' = late \cup {c}
  /\ UNCHANGED <<client, stopDue, calls, made, srun, sock, queues, coros, data, net>>

\* Mutant of Expired: a wait is not timed any more when its session stopped.
ExpiredIfRunning(c) == tm[c] = "armed" /\ c \in late /\ srun[on[c]]

Expired(c) == tm[c] = "armed" /\ c \in late

WaitTimesOut(c) ==
  /\ Expired(c)
  /\ tm' = Set(tm, c, "fired")
  /\ UNCHANGED <<client, stopDue, pc, status, got, on, late, made, srun, sock, queues, coros, data, net>>

DeliverSock(s) ==
  /\ \E x \in {<<"con", con[s]>>, <<"snd", snd[s]>>, <<"rcv", rcv[s]>>} :
       /\ x[2].op # "none"
       /\ ~Queued(sockQ[s], H(x[1]))
       /\ sockQ' = [sockQ EXCEPT ![s] = Append(@, H(x[1]))]
  /\ UNCHANGED <<client, stopDue, calls, late, made, srun, sock, hndQ, coros, data, net>>

DeliverOver(c) ==
  /\ tm[c] \in {"fired", "cancel"}
  /\ ~Queued(hndQ[on[c]], HC("over", c))
  /\ hndQ' = [hndQ EXCEPT ![on[c]] = Append(@, HC("over", c))]
  /\ UNCHANGED <<client, stopDue, calls, late, made, srun, sock, sockQ, coros, data, net>>

-----------------------------------------------------------------------------
CallStep(c) == TrySession(c) \/ TryStopped(c) \/ TryCreate(c) \/ SpawnCreate(c)
               \/ WaitTimesOut(c) \/ DeliverOver(c)

SessionStep(s) ==
  SockStrand(s) \/ HndStrand(s) \/ ConnectDone(s) \/ WriteDone(s) \/ ReadDone(s) \/ DeliverSock(s)

Next ==
  \/ \E c \in Call : Invoke(c) \/ CallStep(c) \/ DeadlinePasses(c)
  \/ \E x \in UserDone : Done(x)
  \/ Create \/ Stop \/ ClientStop
  \/ \E s \in Session \cup {NoSession} : DispatchStop(s)
  \/ \E s \in Session : \/ SessionStep(s) \/ HeartBeatDue(s)
                        \/ ConnectBreaks(s) \/ WriteBreaks(s) \/ ReadBreaks(s)
                        \/ \E c \in Call : \E code \in ReplyCode[c] : ServerAnswers(s, c, code)

Spec == Init /\ [][Next]_vars

(***************************************************************************)
(* The io_context's threads run, connects, writes and reads complete,      *)
(* timers fire and deadlines pass.  The server need not answer.            *)
(***************************************************************************)
FairSpec ==
  /\ Spec
  /\ \A c \in Call : WF_vars(CallStep(c)) /\ WF_vars(DeadlinePasses(c))
  /\ WF_vars(Create \/ ClientStop)
  /\ \A s \in Session \cup {NoSession} : WF_vars(DispatchStop(s))
  /\ \A s \in Session :
       /\ WF_vars(SockStrand(s)) /\ WF_vars(HndStrand(s)) /\ WF_vars(DeliverSock(s))
       /\ WF_vars(ConnectDone(s)) /\ WF_vars(WriteDone(s)) /\ WF_vars(ReadDone(s))
       /\ WF_vars(HeartBeatDue(s))

-----------------------------------------------------------------------------
\* Which completions the operation of each coroutine can have.
CorosOK(s) ==
  /\ con[s] \in {Ended, Coro("start", "ok")}
                  \cup [at : {"connect"}, op : {"none", "ok", "error"}]
  /\ snd[s] \in {Ended, Coro("start", "ok")}
                  \cup [at : {"write", "beat"}, op : {"none", "ok", "error"}]
                  \cup [at : {"wait"}, op : {"none", "fired", "cancel"}]
  /\ rcv[s] \in {Ended, Coro("start", "ok")}
                  \cup [at : {"read"}, op : {"none", "data", "error"}]

(***************************************************************************)
(* The types, and that an operation only completes the ways it can.        *)
(***************************************************************************)
TypeOK ==
  /\ run \in BOOLEAN /\ cur \in Session \cup {NoSession} /\ made \in 0..MaxSession
  /\ stopDue \subseteq Session \cup {NoSession}
  /\ ctxDone \subseteq Context
  /\ pc \in [Call -> {"idle", "try", "spawn", "create", "call", "done"}]
  /\ status \in [Call -> Code]
  /\ tm \in [Call -> {"new", "armed", "fired", "cancel"}]
  /\ got \in [Call -> BOOLEAN]
  /\ on \in [Call -> Session \cup {NoSession}]
  /\ srun \in [Session -> BOOLEAN] /\ sock \in [Session -> BOOLEAN]
  /\ \A s \in Session : CorosOK(s)
  /\ waiting \in [Session -> SUBSET Call]
  /\ buf \in [Session -> Seq(Call)] /\ writing \in [Session -> Seq(Call)]
  /\ late \subseteq Timed /\ answered \subseteq Call /\ answer \in [Call -> Code]

(***************************************************************************)
(* A reply finds its call waiting.  The reply is posted to the handle      *)
(* strand by the receive coroutine, the start of the wait comes there from *)
(* the end of the inner coroutine, which runs on the socket strand after   *)
(* the request may already have been written: only the order of the two    *)
(* strands keeps the reply from cancelling a wait that has not begun, and  *)
(* the call from then waiting for its deadline.                            *)
(***************************************************************************)
ReplyFindsWaiter ==
  \A c \in Call : (got[c] /\ pc[c] = "call") => tm[c] # "new"

(***************************************************************************)
(* No lost wake-up between Invoke and the send coroutine: while the sender *)
(* sleeps on the send signal there is no request in the send buffer.       *)
(***************************************************************************)
NothingToSendAsleep == \A s \in Session : Awaits(snd[s], "wait") => buf[s] = <<>>

(***************************************************************************)
(* The calls share one connection: two sessions never run at a time,       *)
(* although calls decide on mgr_strand_ and sessions stop anywhere.        *)
(***************************************************************************)
OneRunningSession == Cardinality({s \in Session : srun[s]}) <= 1

(***************************************************************************)
(* When the client's stop handler has run, no session runs and none will:  *)
(* a session made concurrently with Stop is found by the handler.          *)
(***************************************************************************)
Stopped == ~run /\ NoSession \notin stopDue /\ ~Queued(mgrQ, H("stop"))
NoSessionAfterStop == Stopped => \A s \in Session : ~srun[s]

(***************************************************************************)
(* Statuses are deserved (RpcCalls): a call is cancelled exactly if its    *)
(* context is done before it begins; TIMEOUT needs a passed deadline or a  *)
(* reply that says so, every other failure but that of a stopped client a  *)
(* reply that says so; and a failed call makes its context done, although  *)
(* the reply, the deadline and Stop race each other.                       *)
(***************************************************************************)
Abstract == INSTANCE RpcCalls WITH
  call <- [c \in Call |-> CASE pc[c] = "idle" -> "idle"
                            [] pc[c] = "done" -> status[c]
                            [] OTHER -> "pending"],
  closed <- ~run,
  done <- ctxDone

ImplementsRpcCalls == Abstract!Spec

(***************************************************************************)
(* A call with a deadline returns, whatever happens to its session, to the *)
(* client and to its reply.                                                *)
(***************************************************************************)
TimedCallsReturn == \A c \in Timed : (pc[c] # "idle") ~> (pc[c] = "done")

(***************************************************************************)
(* The coroutines of a stopped session end: the send coroutine, which can  *)
(* miss the cancellation of its wait, is woken by the next heartbeat.      *)
(***************************************************************************)
SessionsEnd ==
  \A s \in Session : (s <= made /\ ~srun[s]) ~>
                        (con[s] = Ended /\ snd[s] = Ended /\ rcv[s] = Ended)
=============================================================================
