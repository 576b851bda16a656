------------------------------- MODULE MCServers -------------------------------
(***************************************************************************)
(* The executor, the servers and their sessions.  part is the component a  *)
(* behaviour is about; the others keep their initial state.  The RPC and   *)
(* the HTTP server share the variables of RpcServer, the rest share those  *)
(* below, whose names are those of the TCP components.                     *)
(***************************************************************************)
EXTENDS RpcServer, TLC

CONSTANTS TcpSession, Endpoint, NoSession, MaxMsg, MaxReq, Path, MaxHandle, MaxFile, SubSecond, Service, Thread, MaxTask

VARIABLES
  part,
  nstart, nrun, nopen, npool, nst, due, co,   \* servers and sessions
  ep, missed, from, ses,                      \* the TCP and the UDP server
  hasData, posted, list, writing, out,        \* the TCP session
  close, rsp, asked,                          \* the HTTP session
  http_handle_list

ASSUME TcpSessionAssumption == IsFiniteSet(TcpSession) /\ NoSession \notin TcpSession

Http == INSTANCE HttpServer
Cs == INSTANCE CsServer WITH Session <- TcpSession, start <- nstart, run <- nrun, open <- nopen, pool <- npool, st <- nst
Udp == INSTANCE UdpServer WITH start <- nstart, run <- nrun, open <- nopen, pool <- npool
CsSes == INSTANCE CsSession WITH run <- nrun, open <- nopen
HttpSes == INSTANCE HttpSession WITH run <- nrun, open <- nopen
LogSes == INSTANCE NetLogSvrSession WITH
  MaxMsg <- 5, run <- nrun, open <- nopen, ofs <- posted, log <- list, old <- writing, same <- out
Exec == INSTANCE Executor WITH
  start_flag <- nstart, stop_flag <- nrun, early <- hasData, starts <- posted, stops <- list, todo <- writing,
  undone <- out, guard <- nopen, owner <- from, stopper <- ses, thread <- co, svc <- nst, signal <- due

Fiber == INSTANCE FiberExecutor WITH
  Capacity <- 1, MaxFunc <- 1, start_flag <- nstart, stop_flag <- nrun, starts <- list, stops <- writing, owner <- from,
  stopper <- ses, ch <- posted, closed <- nopen, thread <- co, push <- nst, called <- hasData, refused <- due, ran <- out

net == <<nstart, nrun, nopen, npool, nst, due, co, ep, missed, from, ses,
         hasData, posted, list, writing, out, close, rsp, asked, http_handle_list>>
mcvars == <<part, vars, net>>

MCInit ==
  /\ Init
  /\ part \in {"rpc", "http", "cs", "udp", "cssession", "httpsession", "dispatcher", "logsession", "executor", "fiber"}
  /\ IF part = "cs" THEN Cs!Init
     ELSE IF part = "udp" THEN Udp!Init
     ELSE IF part = "cssession" THEN CsSes!Init
     ELSE IF part = "httpsession" THEN HttpSes!Init
     ELSE IF part = "logsession" THEN LogSes!Init
     ELSE IF part = "executor" THEN Exec!Init
     ELSE IF part = "fiber" THEN Fiber!Init
     ELSE nrun = 0 /\ nopen = 0 /\ due = 0 /\ co = 0
  /\ part \notin {"cs", "udp", "executor", "fiber"} => nstart = 0
  /\ part \notin {"cs", "udp"} => npool = 0
  /\ part \notin {"cs", "executor", "fiber"} => nst = 0
  /\ part # "cs" => ep = 0 /\ missed = 0
  /\ part \notin {"udp", "executor", "fiber"} => from = 0 /\ ses = 0
  /\ part \notin {"cssession", "httpsession", "logsession", "executor", "fiber"} => hasData = 0 /\ out = 0
  /\ part \notin {"cssession", "logsession", "executor", "fiber"} => posted = 0 /\ list = 0 /\ writing = 0
  /\ part # "httpsession" => close = 0 /\ rsp = 0 /\ asked = 0
  /\ Http!DispatcherInit

CsRest == UNCHANGED <<part, vars, from, ses, hasData, posted, list, writing, out, close, rsp, asked, http_handle_list>>
UdpRest == UNCHANGED <<part, vars, nst, ep, missed, hasData, posted, list, writing, out, close, rsp, asked, http_handle_list>>
CsSesRest == UNCHANGED <<part, vars, nstart, npool, nst, ep, missed, from, ses, close, rsp, asked, http_handle_list>>
HttpSesRest == UNCHANGED <<part, vars, nstart, npool, nst, ep, missed, from, ses, posted, list, writing, http_handle_list>>
LogSesRest == UNCHANGED <<part, vars, nstart, npool, nst, ep, missed, from, ses, close, rsp, asked, http_handle_list>>
ExecRest == UNCHANGED <<part, vars, npool, ep, missed, close, rsp, asked, http_handle_list>>

MCNext ==
  \/ part = "rpc" /\ Next /\ UNCHANGED <<part, net>>
  \/ part = "http" /\ Http!Next /\ UNCHANGED <<part, funcs, net>>
  \/ part = "cs" /\ Cs!Next /\ CsRest
  \/ part = "udp" /\ Udp!Next /\ UdpRest
  \/ part = "cssession" /\ CsSes!Next /\ CsSesRest
  \/ part = "httpsession" /\ HttpSes!Next /\ HttpSesRest
  \/ part = "logsession" /\ LogSes!Next /\ LogSesRest
  \/ part = "executor" /\ Exec!Next /\ ExecRest
  \/ part = "fiber" /\ Fiber!Next /\ ExecRest
  \/ /\ part = "dispatcher" /\ Http!DispatcherNext
     /\ UNCHANGED <<part, vars, nstart, nrun, nopen, npool, nst, due, co, ep, missed, from, ses,
                    hasData, posted, list, writing, out, close, rsp, asked>>

\* The components' fairness.  A behaviour is about one of them, so that one
\* weakly fair action may stand for an action of each.
StopsFair ==
  \/ part = "cs" /\ Cs!StopHandler /\ CsRest
  \/ part = "udp" /\ Udp!StopHandler /\ UdpRest
  \/ part = "cssession" /\ CsSes!StopHandler /\ CsSesRest
  \/ part = "httpsession" /\ HttpSes!StopHandler /\ HttpSesRest
  \/ part = "logsession" /\ LogSes!StopHandler /\ LogSesRest
  \/ part = "executor" /\ Exec!StopSteps /\ ExecRest
  \/ part = "fiber" /\ Fiber!StopSteps /\ ExecRest

FirstFair ==
  \/ part = "cs" /\ Cs!Acceptor /\ CsRest
  \/ part = "udp" /\ Udp!Receiver /\ UdpRest
  \/ part = "cssession" /\ CsSes!Sends /\ CsSesRest
  \/ part = "httpsession" /\ HttpSes!Serves /\ HttpSesRest
  \/ part = "logsession" /\ LogSes!Receives /\ LogSesRest
  \/ part = "executor" /\ Exec!OwnerSteps /\ ExecRest
  \/ part = "fiber" /\ (Fiber!OwnerSteps \/ Fiber!Pushes("owner")) /\ ExecRest

SecondFair ==
  \/ part = "cs" /\ Cs!MgrResumes /\ CsRest
  \/ part = "udp" /\ Udp!MgrResumes /\ UdpRest
  \/ part = "cssession" /\ CsSes!Receives /\ CsSesRest
  \/ part = "httpsession" /\ HttpSes!HandlerDone /\ HttpSesRest
  \/ part = "executor" /\ Exec!SignalHandler /\ ExecRest
  \/ part = "fiber" /\ Fiber!ThreadStep("t") /\ ExecRest

TicksFair ==
  \/ part = "udp" /\ Udp!SessionStep("x") /\ UdpRest
  \/ part = "cssession" /\ CsSes!Ticks /\ CsSesRest
  \/ part = "httpsession" /\ HttpSes!Ticks /\ HttpSesRest
  \/ part = "logsession" /\ LogSes!Ticks /\ LogSesRest
  \/ part = "executor" /\ Exec!ServiceEnds /\ ExecRest
  \/ part = "fiber" /\ Fiber!ThreadStep("u") /\ ExecRest

FiresFair ==
  \/ part = "cs" /\ Cs!Fires("acc", "sleep") /\ CsRest
  \/ part = "udp" /\ Udp!Fires("recv", "sleep") /\ UdpRest
  \/ part = "cssession" /\ CsSes!TimerFires /\ CsSesRest
  \/ part = "httpsession" /\ HttpSes!TimerFires /\ HttpSesRest
  \/ part = "logsession" /\ LogSes!TimerFires /\ LogSesRest
  \/ part = "executor" /\ Exec!ThreadExits /\ ExecRest

ClosedFair ==
  \/ part = "cs" /\ Cs!Fires("mgr", "wait") /\ CsRest
  \/ part = "udp" /\ Udp!Fires("mgr", "wait") /\ UdpRest
  \/ part = "cssession" /\ CsSes!ClosedDone /\ CsSesRest
  \/ part = "httpsession" /\ ~nopen /\ HttpSes!SocketFails /\ HttpSesRest
  \/ part = "logsession" /\ LogSes!ClosedDone /\ LogSesRest

LastFair ==
  \/ part = "udp" /\ Udp!SessionStep("y") /\ UdpRest
  \/ part = "cssession" /\ CsSes!Queue /\ CsSesRest

MCSpec ==
  /\ MCInit /\ [][MCNext]_mcvars
  /\ WF_vars(DispatchStop) /\ WF_vars(Strand) /\ WF_vars(AcceptorTimer) /\ WF_vars(MgrTimer)
  /\ WF_vars(Deliver("acc", acc)) /\ WF_vars(Deliver("mgr", mgr))
  /\ WF_mcvars(StopsFair) /\ WF_mcvars(FirstFair) /\ WF_mcvars(SecondFair) /\ WF_mcvars(TicksFair)
  /\ WF_mcvars(FiresFair) /\ WF_mcvars(ClosedFair) /\ WF_mcvars(LastFair)

-----------------------------------------------------------------------------
(***************************************************************************)
(* What the servers and sessions keep: the pools of the TCP and the UDP    *)
(* server are bounded and filed by endpoint, a TCP session neither loses,  *)
(* doubles nor reorders a message that was accepted and does not sleep on  *)
(* one, an HTTP session answers every request once and in order, the files *)
(* of a log session hold every read once and in order, and Join of the     *)
(* executor returns when Stop has called every stop function and nothing   *)
(* is left to do, and that of the fiber executor when every accepted task  *)
(* has run, or all threads were ended by exceptions.                       *)
(***************************************************************************)
ServersHold ==
  /\ part = "cs" => Cs!MapHolds
  /\ part = "udp" => Udp!SessionsBounded
  /\ part = "cssession" => CsSes!NothingLost
  /\ part = "httpsession" => HttpSes!RepliesInOrder
  /\ part = "logsession" => LogSes!NothingOverwritten
  /\ part = "executor" => Exec!JoinMeansDone
  /\ part = "fiber" => Fiber!AcceptedAreRun

\* What has to end after a Stop, and that it has.
StopDue ==
  \/ part \in {"rpc", "http"} /\ start /\ ~run
  \/ part \in {"cs", "udp"} /\ nstart /\ ~nrun
  \/ part \in {"cssession", "httpsession", "logsession"} /\ ~nrun
  \/ part = "executor" /\ Exec!JoinDue
  \/ part = "fiber" /\ nstart /\ nrun

StopOver ==
  \/ part \in {"rpc", "http"} /\ acc = Ended /\ mgr = Ended
  \/ part = "cs" /\ Cs!Finished(co)
  \/ part = "udp" /\ Udp!Finished(co) /\ \A e \in Endpoint : ses[e].timer \in {Udp!New, Udp!Ended}
  \/ part = "cssession" /\ \A c \in {"recv", "timer"} : co[c] = CsSes!Ended
  \/ part \in {"httpsession", "logsession"} /\ HttpSes!Finished(co)
  \/ part = "executor" /\ Exec!Joined
  \/ part = "fiber" /\ Fiber!Joined

(***************************************************************************)
(* What a Stop ends: both coroutines of every server, the timers of UDP    *)
(* sessions, the receiver and the timer of a TCP session, all of an HTTP   *)
(* and of a log session, whatever they were awaiting and whatever          *)
(* completion was on its way; and the Join of the executor, unless Stop    *)
(* was called before Start had returned; and that of the fiber executor,   *)
(* also when its threads or its start functions wait in a Post.            *)
(***************************************************************************)
ServersEnd == StopDue ~> StopOver

\* An acceptor sleeps on a full pool, an HTTP request waits for its answer,
\* or a task for a thread.
ServiceDue ==
  \/ part \in {"rpc", "http"} /\ acc.at = "sleep"
  \/ part = "cs" /\ co["acc"].at = "sleep"
  \/ part = "udp" /\ co["recv"].at = "sleep"
  \/ part = "httpsession" /\ Len(asked) > Len(out)
  \/ part = "fiber" /\ from \in {"started", "join"} /\ posted # <<>>

ServiceOver ==
  \/ part \in {"rpc", "http"} /\ (acc.at # "sleep" \/ ~run \/ \A s \in pool : st[s] = "run")
  \/ part = "cs" /\ (co["acc"].at # "sleep" \/ ~nrun \/ \A s \in Cs!Pooled : nst[s] = "run")
  \/ part = "udp" /\ co["recv"].at # "sleep"
  \/ part = "httpsession" /\ (Len(asked) = Len(out) \/ ~nrun)
  \/ part = "fiber" /\ (posted = <<>> \/ Fiber!Stuck)

\* The peer of the session is silent.
Silent ==
  \/ part = "cssession" /\ co["timer"] # CsSes!New /\ co["recv"].op # "ok" /\ co["send"].op # "ok"
  \/ part = "httpsession" /\ co["timer"] # HttpSes!New /\ co["serve"].op # "ok"
  \/ part = "logsession" /\ co["timer"] # LogSes!New /\ co["recv"].op # "ok"

(***************************************************************************)
(* What goes on while they run: no pool stays full of sessions that have   *)
(* ended, tasks are taken from the fiber executor's channel as long as one *)
(* thread does not wait in a Post, every HTTP request that was read is     *)
(* answered unless the session stops, a session whose peer falls silent is *)
(* dropped, and the handler of an HTTP path is not replaced by a later     *)
(* registration.                                                           *)
(***************************************************************************)
ServersServe ==
  /\ ServiceDue ~> ServiceOver
  /\ <>[]Silent => <>(part \in {"cssession", "httpsession", "logsession"} /\ ~nrun /\ ~nopen)
  /\ Http!HandlersStay
=============================================================================
