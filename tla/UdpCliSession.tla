----------------------------- MODULE UdpCliSession -----------------------------
(***************************************************************************)
(* AsioUdpClient::Session (boost_tools_asio/asio_udp_cli.hpp): a coroutine *)
(* for each message that is sent, and the timer.                           *)
(***************************************************************************)
EXTENDS Asio

CONSTANT Msg

VARIABLES
  run,      \* run_flag_
  open,     \* the socket is open
  due,      \* strands whose stop handler has not run: "sock", "mgr"
  co,       \* "timer", and a coroutine of each message
  hasData,  \* tick_has_data_
  out       \* history: the messages that were sent

vars == <<run, open, due, co, hasData, out>>

Init ==
  /\ run = TRUE /\ open = TRUE /\ due = {} /\ hasData = FALSE /\ out = {}
  /\ co = [c \in Msg \cup {"timer"} |-> New]

Start ==
  /\ co["timer"] = New
  /\ co' = [co EXCEPT !["timer"] = Spawned]
  /\ UNCHANGED <<run, open, due, hasData, out>>

\* The client does not look at run_flag_ again.
SendMsg(m) ==
  /\ co["timer"] # New /\ co[m] = New
  /\ co' = [co EXCEPT ![m] = Spawned]
  /\ UNCHANGED <<run, open, due, hasData, out>>

Sends(m) ==
  /\ Resumes(co, m)
  /\ co' = IF co[m] = Spawned THEN Goes(co, m, "send") ELSE [co EXCEPT ![m] = Ended]
  /\ hasData' = (hasData \/ co[m] = Coro("send", "ok"))
  /\ UNCHANGED <<run, open, due, out>>

\* Mutant of Quiet: only an error ends the session.
NeverQuiet == FALSE

Quiet == co["timer"].at = "wait" /\ ~hasData

\* The session ends after a period in which nothing was sent.
Ticks ==
  /\ Resumes(co, "timer")
  /\ hasData' = (hasData /\ co["timer"] # Coro("wait", "ok"))
  /\ IF co["timer"].op = "ok" /\ ~Quiet /\ run
     THEN co' = Goes(co, "timer", "wait") /\ UNCHANGED <<run, due>>
     ELSE /\ co' = [co EXCEPT !["timer"] = Ended]
          /\ run' = FALSE /\ due' = IF run THEN {"sock"} ELSE due
  /\ UNCHANGED <<open, out>>

StopCall ==
  /\ run /\ co["timer"] # New
  /\ run' = FALSE /\ due' = {"sock", "mgr"}
  /\ UNCHANGED <<open, co, hasData, out>>

StopHandler ==
  /\ \E s \in due :
       /\ due' = due \ {s}
       /\ open' = (open /\ s # "sock")
       /\ co' = Cancelled(co, IF s = "sock" THEN Msg ELSE {"timer"})
  /\ UNCHANGED <<run, hasData, out>>

SendDone(m) ==
  /\ Awaits(co, m, "send")
  /\ \/ open /\ co' = [co EXCEPT ![m].op = "ok"] /\ out' = out \cup {m}
     \/ co' = [co EXCEPT ![m].op = "error"] /\ out' = out
  /\ UNCHANGED <<run, open, due, hasData>>

TimerFires ==
  /\ Awaits(co, "timer", "wait")
  /\ co' = [co EXCEPT !["timer"].op = "ok"]
  /\ UNCHANGED <<run, open, due, hasData, out>>

Next ==
  \/ Start
  \/ \E m \in Msg : SendMsg(m) \/ Sends(m) \/ SendDone(m)
  \/ Ticks
  \/ StopCall
  \/ StopHandler
  \/ TimerFires

Spec == Init /\ [][Next]_vars

\* The io_context runs, timers fire, and a datagram is sent or refused.
FairSpec ==
  /\ Spec /\ WF_vars(Ticks) /\ WF_vars(StopHandler) /\ WF_vars(TimerFires)
  /\ \A m \in Msg : WF_vars(Sends(m) \/ SendDone(m))

-----------------------------------------------------------------------------
=============================================================================
