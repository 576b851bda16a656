------------------------------ MODULE CsCliSession ------------------------------
(***************************************************************************)
(* AsioCsClient::Session (boost_tools_asio/asio_cs_cli.hpp): a connection  *)
(* with its connect, send and receive coroutines on one strand.  Messages  *)
(* are the numbers 1, 2, ... in the order of the calls of SendMsg.         *)
(***************************************************************************)
EXTENDS Asio

CONSTANT MaxMsg   \* bound: calls of SendMsg

VARIABLES
  run,      \* run_flag_
  open,     \* the socket is open
  due,      \* the stop handler has not run
  co,       \* "con", "send", "recv"
  posted,   \* messages whose handler waits on session_socket_strand_
  list,     \* data_list
  writing,  \* tmp_data_list of the write in progress
  out       \* history: the messages whose write succeeded

vars == <<run, open, due, co, posted, list, writing, out>>
flags == <<run, open, due>>
data == <<posted, list, writing, out>>

Init ==
  /\ run = TRUE /\ open = TRUE /\ due = FALSE
  /\ co = [c \in {"con", "send", "recv"} |-> New]
  /\ posted = <<>> /\ list = <<>> /\ writing = <<>> /\ out = <<>>

Start ==
  /\ co["con"] = New
  /\ co' = [co EXCEPT !["con"] = Spawned]
  /\ UNCHANGED <<flags, data>>

Calls == Len(out) + Len(writing) + Len(list) + Len(posted)

\* The client calls it when it has seen the session run.
SendMsg ==
  /\ co["con"] # New /\ Calls < MaxMsg
  /\ posted' = Append(posted, Calls + 1)
  /\ UNCHANGED <<flags, co, list, writing, out>>

\* send_sig_timer_.cancel() does nothing to a sender that connects or writes.
Woken == IF co["send"].at = "wait" THEN Cancelled(co, {"send"}) ELSE co

Queue ==
  /\ posted # <<>>
  /\ posted' = Tail(posted)
  /\ list' = Append(list, Head(posted))
  /\ co' = Woken
  /\ UNCHANGED <<flags, writing, out>>

StopCall ==
  /\ co["con"] # New /\ run
  /\ run' = FALSE /\ due' = TRUE
  /\ UNCHANGED <<open, co, data>>

Aborted == Cancelled(co, {"con", "send", "recv"})

StopHandler ==
  /\ due
  /\ due' = FALSE /\ open' = FALSE
  /\ co' = Aborted
  /\ UNCHANGED <<run, data>>

\* Coroutine c ends with Stop(): its handler runs at once, on the same strand.
Leaves(c) ==
  /\ run' = FALSE
  /\ open' = (open /\ ~run)
  /\ co' = IF run THEN [Aborted EXCEPT ![c] = Ended] ELSE [co EXCEPT ![c] = Ended]
  /\ UNCHANGED <<due, data>>

-----------------------------------------------------------------------------
Connects ==
  /\ Resumes(co, "con")
  /\ \/ co["con"].at = "start" /\ co' = Goes(co, "con", "connect") /\ UNCHANGED <<flags, data>>
     \/ /\ co["con"] = Coro("connect", "ok")
        /\ co' = [con |-> Ended, send |-> Spawned, recv |-> Spawned]
        /\ UNCHANGED <<flags, data>>
     \/ co["con"] = Coro("connect", "error") /\ Leaves("con")

Swapped == list' = <<>>

\* Only the outer loop looks at run_flag_.
SenderLooks ==
  \/ co["send"].at \in {"start", "beat"} /\ co["send"].op = "ok" /\ run
  \/ co["send"] = Coro("wait", "error") /\ run
  \/ co["send"] = Coro("write", "ok")

SendWrites ==
  /\ SenderLooks /\ list # <<>>
  /\ writing' = list /\ Swapped
  /\ co' = Goes(co, "send", "write")
  /\ UNCHANGED <<flags, posted, out>>

SendWaits ==
  /\ SenderLooks /\ list = <<>>
  /\ co' = Goes(co, "send", "wait")
  /\ UNCHANGED <<flags, data>>

\* The wait was not cancelled for a whole heartbeat time.
SendBeats ==
  /\ co["send"] = Coro("wait", "ok")
  /\ co' = Goes(co, "send", "beat")
  /\ UNCHANGED <<flags, data>>

SendLeaves ==
  /\ Resumes(co, "send") /\ ~SenderLooks /\ co["send"] # Coro("wait", "ok")
  /\ Leaves("send")

\* A head, then a body; a wrong or too large head ends the loop.
RecvGoesOn ==
  /\ \/ co["recv"].at \in {"start", "body"} /\ co["recv"].op = "ok" /\ run /\ co' = Goes(co, "recv", "head")
     \/ co["recv"] = Coro("head", "ok") /\ co' = Goes(co, "recv", "body")
  /\ UNCHANGED <<flags, data>>

RecvLeaves ==
  /\ Resumes(co, "recv")
  /\ co["recv"].op = "ok" => co["recv"].at # "head" /\ ~run
  /\ Leaves("recv")

Sends == SendWrites \/ SendWaits \/ SendBeats \/ SendLeaves
Receives == RecvGoesOn \/ RecvLeaves

-----------------------------------------------------------------------------
\* An operation on an open socket may also fail; on a closed one it can do
\* nothing else.  A failed write loses what it was writing.
Outcomes(ok) == IF open THEN {ok, "error"} ELSE {"error"}

ConnectDone ==
  /\ Awaits(co, "con", "connect")
  /\ \E op \in Outcomes("ok") : co' = [co EXCEPT !["con"].op = op]
  /\ UNCHANGED <<flags, data>>

WriteDone ==
  /\ Awaits(co, "send", "write") \/ Awaits(co, "send", "beat")
  /\ \E op \in Outcomes("ok") :
       /\ co' = [co EXCEPT !["send"].op = op]
       /\ IF op = "ok" THEN out' = out \o writing /\ writing' = <<>> ELSE UNCHANGED <<out, writing>>
  /\ UNCHANGED <<flags, posted, list>>

ReadDone ==
  /\ Awaits(co, "recv", "head") \/ Awaits(co, "recv", "body")
  /\ \E op \in Outcomes("ok") : co' = [co EXCEPT !["recv"].op = op]
  /\ UNCHANGED <<flags, data>>

HeartBeatDue ==
  /\ Awaits(co, "send", "wait")
  /\ co' = [co EXCEPT !["send"].op = "ok"]
  /\ UNCHANGED <<flags, data>>

Next ==
  \/ Start
  \/ SendMsg
  \/ Queue
  \/ StopCall
  \/ StopHandler
  \/ Connects
  \/ Sends
  \/ Receives
  \/ ConnectDone
  \/ WriteDone
  \/ ReadDone
  \/ HeartBeatDue

Spec == Init /\ [][Next]_vars

\* The io_context runs, timers fire, and operations end once the socket is closed.
ClosedDone == ~open /\ (ConnectDone \/ WriteDone \/ ReadDone)
FairSpec ==
  /\ Spec
  /\ WF_vars(Queue) /\ WF_vars(StopHandler)
  /\ WF_vars(Connects) /\ WF_vars(Sends) /\ WF_vars(Receives)
  /\ WF_vars(ClosedDone) /\ WF_vars(HeartBeatDue)

-----------------------------------------------------------------------------
\* Nothing is lost, doubled or overtaken between SendMsg and the socket, also
\* not what was sent before the connection stood; the sender, whose wait is
\* not on its way to end, never sleeps on a message.
NothingLost ==
  /\ out \o writing \o list \o posted = [i \in 1..Calls |-> i]
  /\ Awaits(co, "send", "wait") => list = <<>>
=============================================================================
