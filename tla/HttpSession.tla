------------------------------ MODULE HttpSession ------------------------------
(***************************************************************************)
(* AsioHttpServer::Session (boost_tools_asio/asio_http_svr.hpp): one       *)
(* connection.  One coroutine reads a request, answers it and reads the    *)
(* next; a registered handler runs elsewhere on the io_context meanwhile.  *)
(***************************************************************************)
EXTENDS Asio

CONSTANT MaxReq   \* bound: requests on the connection

VARIABLES
  run,      \* run_flag_
  open,     \* the socket is open
  due,      \* strands whose stop handler has not run: "sock", "mgr"
  co,       \* "serve", "timer"
  hasData,  \* tick_has_data_
  close,    \* close_connect_flag_
  rsp,      \* the status of the response being written
  asked,    \* history: the requests read
  out       \* history: the status of each reply written

vars == <<run, open, due, co, hasData, close, rsp, asked, out>>
flags == <<run, open, due>>

\* What the request finds: it is malformed (CheckBadRequest, ParseUrl), a
\* pattern is registered for its path, or there is a file for it or not.
Kind == {"bad", "handled", "missing", "unreadable", "head", "file"}
Request == [kind : Kind, keep : BOOLEAN]

Init ==
  /\ run = TRUE /\ open = TRUE /\ due = {}
  /\ co = [c \in {"serve", "timer"} |-> New]
  /\ hasData = FALSE /\ close = FALSE /\ rsp = 0
  /\ asked = <<>> /\ out = <<>>

Start ==
  /\ co["serve"] = New
  /\ co' = [c \in DOMAIN co |-> Spawned]
  /\ UNCHANGED <<flags, hasData, close, rsp, asked, out>>

StopCall ==
  /\ co["serve"] # New /\ run
  /\ run' = FALSE
  /\ due' = {"sock", "mgr"}
  /\ UNCHANGED <<open, co, hasData, close, rsp, asked, out>>

\* A handler that runs on the io_context is not cancelled.
Stoppable == IF co["serve"].at = "handle" THEN {} ELSE {"serve"}

StopHandler ==
  /\ \E s \in due :
       /\ due' = due \ {s}
       /\ open' = (open /\ s # "sock")
       /\ co' = Cancelled(co, IF s = "sock" THEN Stoppable ELSE {"timer"})
  /\ UNCHANGED <<run, hasData, close, rsp, asked, out>>

\* Coroutine c ends with Stop().
Leaves(c) ==
  /\ co' = [co EXCEPT ![c] = Ended]
  /\ run' = FALSE
  /\ open' = (open /\ (~run \/ c = "timer"))
  /\ due' = IF run THEN {IF c = "timer" THEN "sock" ELSE "mgr"} ELSE due

-----------------------------------------------------------------------------
Req == asked[Len(asked)]

\* A handler may return any status and may make its response the last one;
\* every other response keeps the connection as the request asks for.
Status(kind, op) ==
  CASE kind = "bad" -> 400
    [] kind = "missing" -> 404
    [] kind = "unreadable" -> 500
    [] kind = "handled" -> IF op = "ok" THEN 200 ELSE 500
    [] OTHER -> 200

Reads ==
  /\ Resumes(co, "serve")
  /\ co["serve"] \in {Spawned} \cup [at : {"write"}, op : {"ok"}]
  /\ run /\ ~close
  /\ co' = Goes(co, "serve", "read")
  /\ UNCHANGED <<flags, hasData, close, rsp, asked, out>>

Routes ==
  /\ co["serve"] = Coro("read", "ok")
  /\ hasData' = TRUE
  /\ IF Req.kind = "handled" THEN co' = Goes(co, "serve", "handle") /\ UNCHANGED <<close, rsp>>
     ELSE /\ co' = Goes(co, "serve", "write")
          /\ close' = ~Req.keep
          /\ rsp' = Status(Req.kind, "ok")
  /\ UNCHANGED <<flags, asked, out>>

Closes == IF co["serve"].op = "ok" THEN BOOLEAN ELSE {~Req.keep}

AnswersHandled ==
  /\ co["serve"].at = "handle" /\ Resumes(co, "serve")
  /\ co' = Goes(co, "serve", "write")
  /\ close' \in Closes
  /\ rsp' = Status("handled", co["serve"].op)
  /\ UNCHANGED <<flags, hasData, asked, out>>

ServeLeaves ==
  /\ Resumes(co, "serve") /\ co["serve"].at # "handle"
  /\ co["serve"].op = "ok" => co["serve"].at # "read" /\ (~run \/ close)
  /\ Leaves("serve")
  /\ UNCHANGED <<hasData, close, rsp, asked, out>>

Serves == Reads \/ Routes \/ AnswersHandled \/ ServeLeaves

Quiet == co["timer"].at = "wait" /\ ~hasData

TimerGoesOn ==
  /\ Resumes(co, "timer") /\ co["timer"].op = "ok" /\ ~Quiet /\ run
  /\ co' = Goes(co, "timer", "wait")
  /\ hasData' = (hasData /\ co["timer"].at = "start")
  /\ UNCHANGED <<flags, close, rsp, asked, out>>

TimerLeaves ==
  /\ Resumes(co, "timer")
  /\ co["timer"].op = "ok" => Quiet \/ ~run
  /\ hasData' = (hasData /\ co["timer"] # Coro("wait", "ok"))
  /\ Leaves("timer")
  /\ UNCHANGED <<close, rsp, asked, out>>

Ticks == TimerGoesOn \/ TimerLeaves

-----------------------------------------------------------------------------
\* A closed socket has no other outcome than an error.
RequestArrives ==
  /\ Awaits(co, "serve", "read") /\ open /\ Len(asked) < MaxReq
  /\ \E r \in Request : asked' = Append(asked, r)
  /\ co' = [co EXCEPT !["serve"].op = "ok"]
  /\ UNCHANGED <<flags, hasData, close, rsp, out>>

HandlerDone ==
  /\ Awaits(co, "serve", "handle")
  /\ \E op \in {"ok", "failed"} : co' = [co EXCEPT !["serve"].op = op]
  /\ UNCHANGED <<flags, hasData, close, rsp, asked, out>>

WriteDone ==
  /\ Awaits(co, "serve", "write") /\ open
  /\ co' = [co EXCEPT !["serve"].op = "ok"]
  /\ out' = Append(out, rsp)
  /\ UNCHANGED <<flags, hasData, close, rsp, asked>>

\* The connection breaks, or was closed.
SocketFails ==
  /\ Awaits(co, "serve", "read") \/ Awaits(co, "serve", "write")
  /\ co' = [co EXCEPT !["serve"].op = "error"]
  /\ UNCHANGED <<flags, hasData, close, rsp, asked, out>>

TimerFires ==
  /\ Awaits(co, "timer", "wait")
  /\ co' = [co EXCEPT !["timer"].op = "ok"]
  /\ UNCHANGED <<flags, hasData, close, rsp, asked, out>>

Next ==
  \/ Start
  \/ StopCall
  \/ StopHandler
  \/ Serves
  \/ Ticks
  \/ RequestArrives
  \/ HandlerDone
  \/ WriteDone
  \/ SocketFails
  \/ TimerFires

Spec == Init /\ [][Next]_vars

\* The io_context runs, handlers return, operations on a closed socket end.
Fairness ==
  /\ WF_vars(StopHandler) /\ WF_vars(Serves) /\ WF_vars(Ticks)
  /\ WF_vars(HandlerDone) /\ WF_vars(TimerFires) /\ WF_vars(~open /\ SocketFails)
FairSpec == Spec /\ Fairness

-----------------------------------------------------------------------------
\* One reply per request, in the order of the requests, and none read after
\* a request that asked to close the connection (a handler that succeeds
\* decides for itself).
RepliesInOrder ==
  /\ Len(out) \in {Len(asked), Len(asked) - 1}
  /\ \A i \in DOMAIN out : \E op \in {"ok", "failed"} : out[i] = Status(asked[i].kind, op)
  /\ \A i \in 1..(Len(asked) - 1) : asked[i].keep \/ (asked[i].kind = "handled" /\ out[i] = 200)
=============================================================================
