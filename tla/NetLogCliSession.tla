--------------------------- MODULE NetLogCliSession ---------------------------
(***************************************************************************)
(* AsioNetLogClient::Session (boost_tools_asio/asio_net_log_cli.hpp): logs *)
(* are collected and sent once per period by a single coroutine, which no  *)
(* call wakes.  Logs are the numbers 1, 2, ... in the order of the calls.  *)
(***************************************************************************)
EXTENDS Asio

CONSTANT MaxMsg   \* bound: calls of LogToSvr

VARIABLES
  run,      \* run_flag_
  open,     \* the socket is open
  due,      \* a stop handler waits on session_strand_
  co,       \* "timer"
  posted,   \* logs whose handler waits on the strand
  list,     \* data_list
  writing,  \* tmp_data_list of the write in progress
  out       \* history: the logs whose write succeeded

vars == <<run, open, due, co, posted, list, writing, out>>
logs == <<posted, list, writing, out>>

Init ==
  /\ run = TRUE /\ open = TRUE /\ due = FALSE
  /\ co = [c \in {"timer"} |-> New]
  /\ posted = <<>> /\ list = <<>> /\ writing = <<>> /\ out = <<>>

Start ==
  /\ co["timer"] = New
  /\ co' = [co EXCEPT !["timer"] = Spawned]
  /\ UNCHANGED <<run, open, due, logs>>

Calls == Len(out) + Len(writing) + Len(list) + Len(posted)

\* The client may have found the session running before it stopped.
LogToSvr ==
  /\ co["timer"] # New /\ Calls < MaxMsg
  /\ posted' = Append(posted, Calls + 1)
  /\ UNCHANGED <<run, open, due, co, list, writing, out>>

Queue ==
  /\ posted # <<>>
  /\ posted' = Tail(posted) /\ list' = Append(list, Head(posted))
  /\ UNCHANGED <<run, open, due, co, writing, out>>

StopCall ==
  /\ co["timer"] # New /\ run
  /\ run' = FALSE /\ due' = TRUE
  /\ UNCHANGED <<open, co, logs>>

StopHandler ==
  /\ due /\ due' = FALSE /\ open' = FALSE
  /\ co' = Cancelled(co, {"timer"})
  /\ UNCHANGED <<run, logs>>

-----------------------------------------------------------------------------
\* The loop looks at run_flag_ only before it waits, not before it writes.
Connects ==
  /\ co["timer"] = Spawned
  /\ co' = Goes(co, "timer", "connect")
  /\ UNCHANGED <<run, open, due, logs>>

Rests ==
  /\ run /\ co["timer"].op = "ok"
  /\ \/ co["timer"].at \in {"connect", "write"}
     \/ co["timer"].at = "wait" /\ list = <<>>
  /\ co' = Goes(co, "timer", "wait")
  /\ UNCHANGED <<run, open, due, logs>>

Swapped == <<>>

Writes ==
  /\ co["timer"] = Coro("wait", "ok") /\ list # <<>>
  /\ writing' = list /\ list' = Swapped
  /\ co' = Goes(co, "timer", "write")
  /\ UNCHANGED <<run, open, due, posted, out>>

\* An error, a stop, or a period of max_no_data_duration without logs.
Leaves ==
  /\ \/ co["timer"].op = "error"
     \/ co["timer"].op = "ok" /\ co["timer"].at \in {"connect", "write"} /\ ~run
     \/ co["timer"] = Coro("wait", "ok") /\ list = <<>>
  /\ co' = [co EXCEPT !["timer"] = Ended]
  /\ run' = FALSE /\ open' = (open /\ ~run)
  /\ UNCHANGED <<due, logs>>

Ticks == Connects \/ Rests \/ Writes \/ Leaves

-----------------------------------------------------------------------------
\* A connection or a write on an open socket also fails; a failed write loses
\* what it was writing.
IoDone ==
  /\ \E at \in {"connect", "write"} :
       /\ Awaits(co, "timer", at)
       /\ \E op \in IF open THEN {"ok", "error"} ELSE {"error"} :
            /\ co' = [co EXCEPT !["timer"].op = op]
            /\ IF at = "write" /\ op = "ok" THEN out' = out \o writing /\ writing' = <<>>
               ELSE UNCHANGED <<out, writing>>
  /\ UNCHANGED <<run, open, due, posted, list>>

TimerFires ==
  /\ Awaits(co, "timer", "wait")
  /\ co' = [co EXCEPT !["timer"].op = "ok"]
  /\ UNCHANGED <<run, open, due, logs>>

Next ==
  \/ Start
  \/ LogToSvr
  \/ Queue
  \/ StopCall
  \/ StopHandler
  \/ Ticks
  \/ IoDone
  \/ TimerFires

Spec == Init /\ [][Next]_vars

\* The io_context runs, timers fire, and connections and writes end.
FairSpec ==
  /\ Spec /\ WF_vars(Queue) /\ WF_vars(StopHandler) /\ WF_vars(Ticks)
  /\ WF_vars(IoDone) /\ WF_vars(TimerFires)

-----------------------------------------------------------------------------
\* Nothing is lost but by a failed write or a stop, doubled or overtaken.
LogsInOrder == out \o writing \o list \o posted = [i \in 1..Calls |-> i]
=============================================================================
