--------------------------- MODULE RpcServerSession ---------------------------
(***************************************************************************)
(* AsioRpcServer::Session (ytrpc/asio_rpc/asio_rpc_server.hpp): one        *)
(* accepted connection, served by three coroutines and by request handlers *)
(* that run anywhere on the io_context.                                    *)
(*                                                                         *)
(* A strand is the sequence of the handlers queued on it; running the head *)
(* of the sequence is one step.  An asynchronous operation completes on    *)
(* its own (the kernel, a timer, a cancellation), and its coroutine's      *)
(* resumption is queued on the strand later, by whichever thread picks the *)
(* completion up: between the two the strand runs other handlers, among    *)
(* them that of Stop().                                                    *)
(*                                                                         *)
(* The byte stream is abstracted to the messages on it; a read completes   *)
(* with some whole messages (what is left of a message cut by a read stays *)
(* in front of the stream).                                                *)
(***************************************************************************)
EXTENDS Naturals, Sequences, FiniteSets, SequencesExt

CONSTANTS
  Req,           \* requests the peer may send, each once
  Silent,        \* the requests whose handler throws and never answers
  HeartBeat,     \* the empty message (pb_msg_len = 0)
  Garbage,       \* a message with an invalid head or above max_recv_size
  Extra          \* bound: which of the last two the peer may send

ASSUME ReqAssumption ==
  /\ Silent \subseteq Req
  /\ HeartBeat \notin Req /\ Garbage \notin Req /\ HeartBeat # Garbage
  /\ Extra \subseteq {HeartBeat, Garbage}

Msg == Req \cup {HeartBeat, Garbage}

VARIABLES
  run,       \* run_flag_
  sock,      \* the socket is open
  sockQ,     \* session_socket_strand_
  mgrQ,      \* session_mgr_strand_
  toStop,    \* stop handlers a thread is about to dispatch: "sock", "mgr"
  snd,       \* the send coroutine
  rcv,       \* the receive coroutine
  batch,     \* the messages its last read returned
  tmr,       \* the timer coroutine
  hasData,   \* tick_has_data_
  buf,       \* send_buffer_vec_: the requests whose replies it holds
  writing,   \* tmp_send_buffer_vec of the write in progress
  hnd,       \* per request: its handler coroutine
  wire,      \* messages from the peer that no read has returned yet
  peer,      \* the peer has its end of the connection open
  out        \* history: the requests whose replies were written

coros == <<snd, rcv, batch, tmr>>
env == <<wire, peer>>
vars == <<run, sock, sockQ, mgrQ, toStop, coros, hasData, buf, writing, hnd, env, out>>

(***************************************************************************)
(* A coroutine is suspended at `at` ("start" before it first runs, "end"   *)
(* after its body); op tells how the operation it awaits has completed,    *)
(* "none" while it has not.                                                *)
(***************************************************************************)
Coro(at, op) == [at |-> at, op |-> op]
Ended == Coro("end", "none")
Awaits(c, at) == c.at = at /\ c.op = "none"

H(name) == [h |-> name]
ReplyH(r) == [h |-> "reply", req |-> r]
Queued(q, name) == \E i \in DOMAIN q : q[i].h = name

Init ==
  /\ run = TRUE
  /\ sock = TRUE
  /\ sockQ = <<H("send"), H("recv")>>
  /\ mgrQ = <<H("timer")>>
  /\ toStop = {}
  /\ snd = Coro("start", "ok")
  /\ rcv = Coro("start", "ok")
  /\ batch = <<>>
  /\ tmr = Coro("start", "fired")
  /\ hasData = FALSE
  /\ buf = <<>>
  /\ writing = <<>>
  /\ hnd = [r \in Req |-> "none"]
  /\ wire = <<>>
  /\ peer = TRUE
  /\ out = <<>>

-----------------------------------------------------------------------------
(***************************************************************************)
(* Stop(): whoever clears run_flag_ dispatches the two stop handlers.  On  *)
(* the handler's own strand a dispatch runs it at once.                    *)
(***************************************************************************)
\* Mutant of CloseSocket: the signal is cancelled, the socket stays open.
CancelSignalOnly(s, r) ==
  /\ snd' = IF Awaits(s, "wait") THEN Coro("wait", "cancel") ELSE s
  /\ rcv' = r
  /\ sock' = sock

\* The socket part of the stop, on the coroutines s and r: the wait of the
\* send signal is cancelled, and the socket operations are aborted.
CloseSocket(s, r) ==
  /\ sock' = FALSE
  /\ snd' = IF s.at \in {"wait", "write"} /\ s.op = "none"
            THEN [s EXCEPT !.op = IF s.at = "wait" THEN "cancel" ELSE "error"] ELSE s
  /\ rcv' = IF Awaits(r, "read") THEN [r EXCEPT !.op = "error"] ELSE r

\* Stop() called on the socket strand by a coroutine that is leaving.
StopOnSockStrand(s, r) ==
  IF run
  THEN /\ run' = FALSE
       /\ CloseSocket(s, r)
       /\ toStop' = toStop \cup {"mgr"}
  ELSE /\ snd' = s
       /\ rcv' = r
       /\ UNCHANGED <<run, sock, toStop>>

\* Stop() called by the server (or anyone else) off the session's strands.
StopCall ==
  /\ run
  /\ run' = FALSE
  /\ toStop' = {"sock", "mgr"}
  /\ UNCHANGED <<sock, sockQ, mgrQ, coros, hasData, buf, writing, hnd, env, out>>

DispatchStop(strand) ==
  /\ strand \in toStop
  /\ toStop' = toStop \ {strand}
  /\ IF strand = "sock"
     THEN sockQ' = Append(sockQ, H("stop")) /\ UNCHANGED mgrQ
     ELSE mgrQ' = Append(mgrQ, H("stop")) /\ UNCHANGED sockQ
  /\ UNCHANGED <<run, sock, coros, hasData, buf, writing, hnd, env, out>>

-----------------------------------------------------------------------------
(***************************************************************************)
(* Handlers of the socket strand                                           *)
(***************************************************************************)
Runs(q, name) == q # <<>> /\ Head(q).h = name

SockStep(name) == Runs(sockQ, name) /\ sockQ' = Tail(sockQ)

\* The send coroutine is about to look at the send buffer: it entered the
\* outer loop with run_flag_ set, or a write of the inner loop succeeded.
SendLooks ==
  \/ snd.at \in {"start", "wait"} /\ run
  \/ snd.at = "write" /\ snd.op = "ok"

\* Mutant of Swap: the send buffer keeps what is being written.
Copy == writing' = buf /\ buf' = buf

Swap == writing' = buf /\ buf' = <<>>

SendWrite ==
  /\ SockStep("send")
  /\ SendLooks
  /\ buf # <<>>
  /\ Swap
  /\ snd' = Coro("write", "none")
  /\ UNCHANGED <<run, sock, mgrQ, toStop, rcv, batch, tmr, hasData, hnd, env, out>>

SendWait ==
  /\ SockStep("send")
  /\ SendLooks
  /\ buf = <<>>
  /\ writing' = <<>>
  /\ snd' = Coro("wait", "none")
  /\ UNCHANGED <<run, sock, mgrQ, toStop, rcv, batch, tmr, hasData, buf, hnd, env, out>>

SendExit ==
  /\ SockStep("send")
  /\ ~SendLooks
  /\ writing' = <<>>
  /\ StopOnSockStrand(Ended, rcv)
  /\ UNCHANGED <<mgrQ, batch, tmr, hasData, buf, hnd, env, out>>

\* The messages of a read before the first one that makes the loop throw.
Handled(msgs) ==
  {msgs[i] : i \in {k \in DOMAIN msgs : \A j \in 1..k : msgs[j] # Garbage}}

\* A read has returned data: every request of it is posted to the
\* io_context; then the coroutine reads on, or leaves.
RecvData ==
  /\ SockStep("recv")
  /\ rcv = Coro("read", "data")
  /\ hasData' = TRUE
  /\ hnd' = [r \in Req |-> IF r \in Handled(batch) THEN "posted" ELSE hnd[r]]
  /\ IF run /\ Garbage \notin Range(batch)
     THEN /\ rcv' = Coro("read", "none")
          /\ UNCHANGED <<run, sock, toStop, snd>>
     ELSE StopOnSockStrand(snd, Ended)
  /\ batch' = <<>>
  /\ UNCHANGED <<mgrQ, tmr, buf, writing, env, out>>

RecvStart ==
  /\ SockStep("recv")
  /\ rcv.at = "start"
  /\ rcv' = IF run THEN Coro("read", "none") ELSE Ended
  /\ UNCHANGED <<run, sock, mgrQ, toStop, snd, batch, tmr, hasData, buf, writing, hnd, env, out>>

RecvExit ==
  /\ SockStep("recv")
  /\ rcv = Coro("read", "error")
  /\ StopOnSockStrand(snd, Ended)
  /\ UNCHANGED <<mgrQ, batch, tmr, hasData, buf, writing, hnd, env, out>>

\* Mutant of Woken: the sender is not woken.
NotWoken(c) == c

\* send_sig_timer_.cancel(): only a wait that is in progress ends.
Woken(c) == IF Awaits(c, "wait") THEN Coro("wait", "cancel") ELSE c

\* The dispatched end of a request handler: Merge, then wake the sender.
Reply ==
  /\ SockStep("reply")
  /\ buf' = Append(buf, Head(sockQ).req)
  /\ snd' = Woken(snd)
  /\ UNCHANGED <<run, sock, mgrQ, toStop, rcv, batch, tmr, hasData, writing, hnd, env, out>>

SockStop ==
  /\ SockStep("stop")
  /\ CloseSocket(snd, rcv)
  /\ UNCHANGED <<run, mgrQ, toStop, batch, tmr, hasData, buf, writing, hnd, env, out>>

SockStrand ==
  SendWrite \/ SendWait \/ SendExit \/ RecvStart \/ RecvData \/ RecvExit \/ Reply \/ SockStop

-----------------------------------------------------------------------------
(***************************************************************************)
(* Request handlers, on the whole io_context                               *)
(***************************************************************************)
HandlerStart(r) ==
  /\ hnd[r] = "posted"
  /\ hnd' = [hnd EXCEPT ![r] = "running"]
  /\ UNCHANGED <<run, sock, sockQ, mgrQ, toStop, coros, hasData, buf, writing, env, out>>

\* Every outcome but an exception is answered: the function's status, an
\* unknown function, a request that does not parse.
HandlerFinish(r) ==
  /\ hnd[r] = "running"
  /\ hnd' = [hnd EXCEPT ![r] = "done"]
  /\ sockQ' = IF r \in Silent THEN sockQ ELSE Append(sockQ, ReplyH(r))
  /\ UNCHANGED <<run, sock, mgrQ, toStop, coros, hasData, buf, writing, env, out>>

-----------------------------------------------------------------------------
(***************************************************************************)
(* Handlers of the management strand: the no-data timer                    *)
(***************************************************************************)
TimerResumes ==
  /\ Runs(mgrQ, "timer")
  /\ mgrQ' = Tail(mgrQ)

\* Mutant of TimerLeaves: a period without data is not noticed.
TimerLeavesWhenTold == tmr.op = "cancel" \/ ~run

\* No data for a whole period, or the wait was cancelled, or stopped.
TimerLeaves ==
  \/ tmr.op = "cancel"
  \/ tmr.at = "wait" /\ tmr.op = "fired" /\ ~hasData
  \/ ~run

TimerAgain ==
  /\ TimerResumes
  /\ ~TimerLeaves
  /\ hasData' = (hasData /\ tmr.at = "start")
  /\ tmr' = Coro("wait", "none")
  /\ UNCHANGED <<run, sock, sockQ, toStop, snd, rcv, batch, buf, writing, hnd, env, out>>

TimerExit ==
  /\ TimerResumes
  /\ TimerLeaves
  /\ tmr' = Ended
  /\ run' = FALSE
  /\ toStop' = IF run THEN toStop \cup {"sock"} ELSE toStop
  /\ hasData' = (hasData /\ ~(tmr.at = "wait" /\ tmr.op = "fired"))
  /\ UNCHANGED <<sock, sockQ, snd, rcv, batch, buf, writing, hnd, env, out>>

MgrStop ==
  /\ Runs(mgrQ, "stop")
  /\ mgrQ' = Tail(mgrQ)
  /\ tmr' = IF Awaits(tmr, "wait") THEN Coro("wait", "cancel") ELSE tmr
  /\ UNCHANGED <<run, sock, sockQ, toStop, snd, rcv, batch, hasData, buf, writing, hnd, env, out>>

MgrStrand == TimerAgain \/ TimerExit \/ MgrStop

-----------------------------------------------------------------------------
(***************************************************************************)
(* Completions, and their delivery to the strands                          *)
(***************************************************************************)
\* A write fails when the socket was closed; it may fail when the peer is gone.
WriteDone ==
  /\ Awaits(snd, "write")
  /\ \/ /\ sock
        /\ snd' = Coro("write", "ok")
        /\ out' = out \o writing
     \/ /\ ~sock \/ ~peer
        /\ snd' = Coro("write", "error")
        /\ UNCHANGED out
  /\ UNCHANGED <<run, sock, sockQ, mgrQ, toStop, rcv, batch, tmr, hasData, buf, writing, hnd, env>>

ReadDone ==
  /\ Awaits(rcv, "read")
  /\ \/ /\ sock
        /\ rcv' = Coro("read", "data")
        /\ \E n \in 1..Len(wire) :
             /\ batch' = SubSeq(wire, 1, n)
             /\ wire' = SubSeq(wire, n + 1, Len(wire))
     \/ /\ ~sock \/ ~peer
        /\ rcv' = Coro("read", "error")
        /\ UNCHANGED <<batch, wire>>
  /\ UNCHANGED <<run, sock, sockQ, mgrQ, toStop, snd, tmr, hasData, buf, writing, hnd, peer, out>>

TimerFires ==
  /\ Awaits(tmr, "wait")
  /\ tmr' = Coro("wait", "fired")
  /\ UNCHANGED <<run, sock, sockQ, mgrQ, toStop, snd, rcv, batch, hasData, buf, writing, hnd, env, out>>

DeliverSock(name, c) ==
  /\ c.op # "none" /\ ~Queued(sockQ, name)
  /\ sockQ' = Append(sockQ, H(name))
  /\ UNCHANGED <<run, sock, mgrQ, toStop, coros, hasData, buf, writing, hnd, env, out>>

DeliverTimer ==
  /\ tmr.op # "none" /\ ~Queued(mgrQ, "timer")
  /\ mgrQ' = Append(mgrQ, H("timer"))
  /\ UNCHANGED <<run, sock, sockQ, toStop, coros, hasData, buf, writing, hnd, env, out>>

-----------------------------------------------------------------------------
(***************************************************************************)
(* The peer                                                                *)
(***************************************************************************)
Sent(r) == hnd[r] # "none" \/ r \in Range(wire) \cup Range(batch)

\* Bound: no second heartbeat behind one that is still on the wire.
PeerSend(m) ==
  /\ peer /\ sock
  /\ m \in Req => ~Sent(m)
  /\ {m, Garbage} \cap Range(wire) = {}
  /\ wire' = Append(wire, m)
  /\ UNCHANGED <<run, sock, sockQ, mgrQ, toStop, coros, hasData, buf, writing, hnd, peer, out>>

PeerClose ==
  /\ peer
  /\ peer' = FALSE
  /\ UNCHANGED <<run, sock, sockQ, mgrQ, toStop, coros, hasData, buf, writing, hnd, wire, out>>

Handler(r) == HandlerStart(r) \/ HandlerFinish(r)

Next ==
  \/ SockStrand
  \/ MgrStrand
  \/ \E r \in Req : Handler(r)
  \/ \E s \in toStop : DispatchStop(s)
  \/ DeliverSock("send", snd)
  \/ DeliverSock("recv", rcv)
  \/ DeliverTimer
  \/ WriteDone
  \/ ReadDone
  \/ TimerFires
  \/ StopCall
  \/ \E m \in Req \cup Extra : PeerSend(m)
  \/ PeerClose

Spec == Init /\ [][Next]_vars

(***************************************************************************)
(* The io_context has running threads, the kernel completes a write (the   *)
(* peer reads) and reports data and errors, and timers fire.  Nobody is    *)
(* obliged to stop the session, to send or to close.                       *)
(***************************************************************************)
FairSpec ==
  /\ Spec
  /\ WF_vars(SockStrand)
  /\ WF_vars(MgrStrand)
  /\ \A r \in Req : WF_vars(Handler(r))
  /\ WF_vars(DispatchStop("sock"))
  /\ WF_vars(DispatchStop("mgr"))
  /\ WF_vars(DeliverSock("send", snd))
  /\ WF_vars(DeliverSock("recv", rcv))
  /\ WF_vars(DeliverTimer)
  /\ WF_vars(WriteDone)
  /\ WF_vars(ReadDone)
  /\ WF_vars(TimerFires)

-----------------------------------------------------------------------------
Op == {"none", "ok", "data", "error", "cancel", "fired"}

(***************************************************************************)
(* The types: what can be queued on each strand, how each coroutine can be *)
(* suspended, and that only replies to requests are buffered and written.  *)
(***************************************************************************)
TypeOK ==
  /\ run \in BOOLEAN /\ sock \in BOOLEAN /\ peer \in BOOLEAN /\ hasData \in BOOLEAN
  /\ sockQ \in Seq([h : {"send", "recv", "stop"}] \cup [h : {"reply"}, req : Req])
  /\ mgrQ \in Seq([h : {"timer", "stop"}])
  /\ toStop \subseteq {"sock", "mgr"}
  /\ snd \in [at : {"start", "write", "wait", "end"}, op : Op]
  /\ rcv \in [at : {"start", "read", "end"}, op : Op]
  /\ tmr \in [at : {"start", "wait", "end"}, op : Op]
  /\ buf \in Seq(Req) /\ writing \in Seq(Req) /\ out \in Seq(Req)
  /\ batch \in Seq(Msg) /\ wire \in Seq(Msg)
  /\ hnd \in [Req -> {"none", "posted", "running", "done"}]

(***************************************************************************)
(* No lost wake-up between a request handler and the send coroutine: while *)
(* the coroutine sleeps on the send signal there is nothing to send.       *)
(***************************************************************************)
NothingToSendAsleep == Awaits(snd, "wait") => buf = <<>>

(***************************************************************************)
(* Every request that reaches a handler which answers is answered, unless  *)
(* the session stops first.  (A peer that goes on sending heartbeats keeps *)
(* the session running, so the session need not stop.)                     *)
(***************************************************************************)
RequestsAnswered ==
  \A r \in Req \ Silent : (hnd[r] # "none") ~> (r \in Range(out) \/ ~run)

(***************************************************************************)
(* No reply is written twice, however often the buffers are swapped and    *)
(* filled while a write is in progress.                                    *)
(***************************************************************************)
AnsweredOnce == IsInjective(out)

(***************************************************************************)
(* A session whose peer falls silent (no read returns data any more) stops *)
(* by itself and closes its socket.                                        *)
(***************************************************************************)
SilentPeerIsDropped == []<>(rcv.op = "data") \/ <>(~run /\ ~sock)

(***************************************************************************)
(* After Stop the receive and timer coroutines leave, whatever they were   *)
(* awaiting and whatever completion was on its way to them.                *)
(***************************************************************************)
RecvAndTimerEnd == (~run) ~> (rcv = Ended /\ tmr = Ended)

(***************************************************************************)
(* asio_rpc_server.hpp:529: Stop makes every coroutine end, and they free  *)
(* what they use.                                                          *)
(***************************************************************************)
AllCoroutinesEnd == (~run) ~> (snd = Ended /\ rcv = Ended /\ tmr = Ended)
=============================================================================
