------------------------------- MODULE CsSession -------------------------------
(***************************************************************************)
(* AsioCsServer::Session (boost_tools_asio/asio_cs_svr.hpp): one TCP       *)
(* connection with its send, receive and timer coroutines.  Messages are   *)
(* the numbers 1, 2, ... in the order of the calls of SendMsg.             *)
(***************************************************************************)
EXTENDS Asio

CONSTANT MaxMsg   \* bound: calls of SendMsg

VARIABLES
  run,      \* run_flag_
  open,     \* the socket is open
  due,      \* strands whose stop handler has not run: "sock", "mgr"
  co,       \* "send", "recv", "timer"
  hasData,  \* tick_has_data_
  posted,   \* messages whose handler waits on session_socket_strand_
  list,     \* data_list
  writing,  \* tmp_data_list of the write in progress
  out       \* history: the messages whose write succeeded

vars == <<run, open, due, co, hasData, posted, list, writing, out>>
flags == <<run, open, due>>
data == <<posted, list, writing, out>>

Init ==
  /\ run = TRUE /\ open = TRUE /\ due = {}
  /\ co = [c \in {"send", "recv", "timer"} |-> New]
  /\ hasData = FALSE
  /\ posted = <<>> /\ list = <<>> /\ writing = <<>> /\ out = <<>>

Start ==
  /\ co["send"] = New
  /\ co' = [c \in DOMAIN co |-> Spawned]
  /\ UNCHANGED <<flags, hasData, data>>

Calls == Len(out) + Len(writing) + Len(list) + Len(posted)

\* The server calls it while the session is in its map and runs.
SendMsg ==
  /\ co["send"] # New /\ run /\ Calls < MaxMsg
  /\ posted' = Append(posted, Calls + 1)
  /\ UNCHANGED <<flags, co, hasData, list, writing, out>>

\* Mutant of Woken: the sender is not woken.
NotWoken == co

\* send_sig_timer_.cancel()
Woken == IF co["send"].at = "wait" THEN Cancelled(co, {"send"}) ELSE co

Queue ==
  /\ posted # <<>>
  /\ posted' = Tail(posted)
  /\ list' = Append(list, Head(posted))
  /\ co' = Woken
  /\ UNCHANGED <<flags, hasData, writing, out>>

-----------------------------------------------------------------------------
StopCall ==
  /\ co["send"] # New /\ run
  /\ run' = FALSE
  /\ due' = {"sock", "mgr"}
  /\ UNCHANGED <<open, co, hasData, data>>

\* The handlers of Stop on the two strands.
StopHandler ==
  /\ \E s \in due :
       /\ due' = due \ {s}
       /\ open' = (open /\ s # "sock")
       /\ co' = Cancelled(co, IF s = "sock" THEN {"send", "recv"} ELSE {"timer"})
  /\ UNCHANGED <<run, hasData, data>>

\* Coroutine c ends with Stop(): the handler of its own strand runs at once.
Leaves(c) ==
  LET own == IF c = "timer" THEN {"timer"} ELSE {"send", "recv"}
      ended == [co EXCEPT ![c] = Ended]
  IN /\ run' = FALSE
     /\ co' = IF run THEN Cancelled(ended, own) ELSE ended
     /\ open' = (open /\ (~run \/ c = "timer"))
     /\ due' = IF run THEN {IF c = "timer" THEN "sock" ELSE "mgr"} ELSE due

-----------------------------------------------------------------------------
\* The loop over data_list does not look at run_flag_ after a write.
SenderLooks ==
  \/ co["send"].at \in {"start", "wait"} /\ run
  \/ co["send"] = Coro("write", "ok")

SendWrites ==
  /\ Resumes(co, "send") /\ SenderLooks /\ list # <<>>
  /\ writing' = list /\ list' = <<>>
  /\ hasData' = TRUE
  /\ co' = Goes(co, "send", "write")
  /\ UNCHANGED <<flags, posted, out>>

SendWaits ==
  /\ Resumes(co, "send") /\ SenderLooks /\ list = <<>>
  /\ co' = Goes(co, "send", "wait")
  /\ UNCHANGED <<flags, hasData, data>>

SendLeaves ==
  /\ Resumes(co, "send") /\ ~SenderLooks
  /\ Leaves("send")
  /\ UNCHANGED <<hasData, data>>

\* A head and then a body of at most max_recv_size; a wrong head ends the loop.
RecvGoesOn ==
  /\ Resumes(co, "recv")
  /\ \/ co["recv"].at \in {"start", "body"} /\ co["recv"].op = "ok" /\ run /\ co' = Goes(co, "recv", "head")
     \/ co["recv"] = Coro("head", "ok") /\ co' = Goes(co, "recv", "body")
  /\ hasData' = (hasData \/ co["recv"].at # "start")
  /\ UNCHANGED <<flags, data>>

RecvLeaves ==
  /\ Resumes(co, "recv")
  /\ co["recv"].op = "ok" => co["recv"].at # "head" /\ ~run
  /\ hasData' = (hasData \/ (co["recv"].op \in {"ok", "bad"} /\ co["recv"].at # "start"))
  /\ Leaves("recv")
  /\ UNCHANGED data

\* Mutant of Quiet: a period without data does not end the session.
NeverQuiet == FALSE

Quiet == co["timer"].at = "wait" /\ ~hasData

TimerGoesOn ==
  /\ Resumes(co, "timer") /\ co["timer"].op = "ok" /\ ~Quiet /\ run
  /\ co' = Goes(co, "timer", "wait")
  /\ hasData' = (hasData /\ co["timer"].at = "start")
  /\ UNCHANGED <<flags, data>>

TimerLeaves ==
  /\ Resumes(co, "timer")
  /\ co["timer"].op = "ok" => Quiet \/ ~run
  /\ hasData' = (hasData /\ ~(co["timer"] = Coro("wait", "ok")))
  /\ Leaves("timer")
  /\ UNCHANGED data

Sends == SendWrites \/ SendWaits \/ SendLeaves
Receives == RecvGoesOn \/ RecvLeaves
Ticks == TimerGoesOn \/ TimerLeaves

-----------------------------------------------------------------------------
\* An operation on an open socket may also fail, when the peer is gone; on a
\* closed one it does nothing else.  A failed write loses what it was writing.
Outcomes(ok) == IF open THEN ok \cup {"error"} ELSE {"error"}

WriteDone ==
  /\ Awaits(co, "send", "write")
  /\ \E op \in Outcomes({"ok"}) :
       /\ co' = [co EXCEPT !["send"].op = op]
       /\ IF op = "ok" THEN out' = out \o writing /\ writing' = <<>> ELSE UNCHANGED <<out, writing>>
  /\ UNCHANGED <<flags, hasData, posted, list>>

ReadDone ==
  /\ Awaits(co, "recv", "head") \/ Awaits(co, "recv", "body")
  /\ \E op \in Outcomes(IF co["recv"].at = "head" THEN {"ok", "bad"} ELSE {"ok"}) :
       co' = [co EXCEPT !["recv"].op = op]
  /\ UNCHANGED <<flags, hasData, data>>

TimerFires ==
  /\ Awaits(co, "timer", "wait")
  /\ co' = [co EXCEPT !["timer"].op = "ok"]
  /\ UNCHANGED <<flags, hasData, data>>

Next ==
  \/ Start
  \/ SendMsg
  \/ Queue
  \/ StopCall
  \/ StopHandler
  \/ Sends
  \/ Receives
  \/ Ticks
  \/ WriteDone
  \/ ReadDone
  \/ TimerFires

Spec == Init /\ [][Next]_vars

\* The io_context runs, and the operations on a closed socket end.
ClosedDone == ~open /\ (WriteDone \/ ReadDone)
Fairness ==
  /\ WF_vars(Queue) /\ WF_vars(StopHandler)
  /\ WF_vars(Sends) /\ WF_vars(Receives) /\ WF_vars(Ticks)
  /\ WF_vars(ClosedDone) /\ WF_vars(TimerFires)
FairSpec == Spec /\ Fairness

-----------------------------------------------------------------------------
\* Nothing accepted is lost, doubled or overtaken, however calls, swaps and
\* writes interleave, and the sender never sleeps on a message.
NothingLost ==
  /\ out \o writing \o list \o posted = [i \in 1..Calls |-> i]
  /\ Awaits(co, "send", "wait") => list = <<>>
=============================================================================
