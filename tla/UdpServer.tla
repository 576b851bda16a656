------------------------------- MODULE UdpServer -------------------------------
(***************************************************************************)
(* AsioUdpServer (boost_tools_asio/asio_udp_svr.hpp): the receiving and    *)
(* the management coroutine on mgr_strand_, and the sessions, one for each *)
(* endpoint datagrams come from, which consist of a timer.                 *)
(***************************************************************************)
EXTENDS Asio, FiniteSets

CONSTANTS
  Endpoint,    \* remote endpoints
  MaxSession   \* max_session_num

VARIABLES
  start,  \* start_flag_
  run,    \* run_flag_
  due,    \* the stop handler has not run on mgr_strand_
  open,   \* sock_ is open
  co,     \* "recv", "mgr"
  from,   \* remote_ep of the last datagram
  pool,   \* the endpoints that have an entry in session_ptr_map_
  ses     \* per endpoint its session: run_flag_, tick_has_data_, the timer
          \* coroutine, and whether its stop handler has not run

vars == <<start, run, due, open, co, from, pool, ses>>

NewSession == [run |-> TRUE, hasData |-> FALSE, timer |-> New, due |-> FALSE]
Started == [NewSession EXCEPT !.timer = Spawned]

Init ==
  /\ start = FALSE /\ run = TRUE /\ due = FALSE /\ open = TRUE
  /\ co = [c \in {"recv", "mgr"} |-> New]
  /\ from = CHOOSE e \in Endpoint : TRUE
  /\ pool = {}
  /\ ses = [e \in Endpoint |-> NewSession]

Start ==
  /\ ~start
  /\ start' = TRUE
  /\ co' = [c \in DOMAIN co |-> Spawned]
  /\ UNCHANGED <<run, due, open, from, pool, ses>>

StopCall ==
  /\ run
  /\ run' = FALSE /\ due' = TRUE
  /\ UNCHANGED <<start, open, co, from, pool, ses>>

StopHandler ==
  /\ due
  /\ due' = FALSE /\ open' = FALSE
  /\ co' = Cancelled(co, {"recv", "mgr"})
  /\ ses' = [e \in Endpoint |-> IF e \in pool /\ ses[e].run THEN [ses[e] EXCEPT !.run = FALSE, !.due = TRUE] ELSE ses[e]]
  /\ pool' = {}
  /\ UNCHANGED <<start, run, from>>

-----------------------------------------------------------------------------
\* A datagram of an unknown endpoint makes a session; a known one's session
\* gets it, running or not (HandleMsg runs at once: the coroutine is on the
\* io_context).
Receives ==
  /\ co["recv"] = Coro("receive", "ok")
  /\ co' = [co EXCEPT !["recv"] = Coro("loop", "ok")]
  /\ pool' = pool \cup {from}
  /\ ses' = [ses EXCEPT ![from] = [IF from \in pool THEN @ ELSE Started EXCEPT !.hasData = TRUE]]
  /\ UNCHANGED <<start, run, due, open, from>>

Full == Cardinality(pool) >= MaxSession

\* A full pool: nothing is received, not even from endpoints that have a session.
ReceiverLoops ==
  /\ Resumes(co, "recv") /\ co["recv"] # Coro("receive", "ok")
  /\ co' = IF ~run THEN [co EXCEPT !["recv"] = Ended] ELSE Goes(co, "recv", IF Full THEN "sleep" ELSE "receive")
  /\ UNCHANGED <<start, run, due, open, from, pool, ses>>

MgrResumes ==
  /\ Resumes(co, "mgr")
  /\ pool' = IF co["mgr"] = Coro("wait", "ok") THEN {e \in pool : ses[e].run} ELSE pool
  /\ co' = IF run THEN Goes(co, "mgr", "wait") ELSE [co EXCEPT !["mgr"] = Ended]
  /\ UNCHANGED <<start, run, due, open, from, ses>>

Receiver == Receives \/ ReceiverLoops

-----------------------------------------------------------------------------
\* The timer coroutine of a session: two periods without a datagram end it.
Ticks(e) ==
  /\ ses[e].timer.op # "none"
  /\ LET s == ses[e]
         leaves == s.timer.op = "error" \/ ~s.run \/ (s.timer.at = "wait" /\ ~s.hasData)
     IN ses' = [ses EXCEPT ![e] =
                  IF leaves THEN [s EXCEPT !.timer = Ended, !.run = FALSE]
                  ELSE [s EXCEPT !.timer = Suspended("wait"), !.hasData = s.hasData /\ s.timer.at = "start"]]
  /\ UNCHANGED <<start, run, due, open, co, from, pool>>

SessionStops(e) ==
  /\ ses[e].due
  /\ ses' = [ses EXCEPT ![e].due = FALSE,
                        ![e].timer = IF @ = Suspended("wait") THEN Coro("wait", "error") ELSE @]
  /\ UNCHANGED <<start, run, due, open, co, from, pool>>

SessionTimer(e) ==
  /\ ses[e].timer = Suspended("wait")
  /\ ses' = [ses EXCEPT ![e].timer.op = "ok"]
  /\ UNCHANGED <<start, run, due, open, co, from, pool>>

-----------------------------------------------------------------------------
Datagram ==
  /\ Awaits(co, "recv", "receive") /\ open
  /\ from' \in Endpoint
  /\ co' = [co EXCEPT !["recv"].op = "ok"]
  /\ UNCHANGED <<start, run, due, open, pool, ses>>

Fires(c, at) ==
  /\ Awaits(co, c, at)
  /\ co' = [co EXCEPT ![c].op = "ok"]
  /\ UNCHANGED <<start, run, due, open, from, pool, ses>>

\* The receive fails: the loop goes on.
ReceiveFails ==
  /\ Awaits(co, "recv", "receive")
  /\ co' = [co EXCEPT !["recv"].op = "error"]
  /\ UNCHANGED <<start, run, due, open, from, pool, ses>>

SessionStep(e) == Ticks(e) \/ SessionStops(e) \/ SessionTimer(e)

Next ==
  \/ Start
  \/ StopCall
  \/ StopHandler
  \/ Receiver
  \/ MgrResumes
  \/ \E e \in Endpoint : SessionStep(e)
  \/ Datagram
  \/ Fires("recv", "sleep")
  \/ Fires("mgr", "wait")
  \/ ReceiveFails

Spec == Init /\ [][Next]_vars

Fairness ==
  /\ WF_vars(StopHandler) /\ WF_vars(Receiver) /\ WF_vars(MgrResumes)
  /\ WF_vars(Fires("recv", "sleep")) /\ WF_vars(Fires("mgr", "wait"))
  /\ \A e \in Endpoint : WF_vars(SessionStep(e))
FairSpec == Spec /\ Fairness

-----------------------------------------------------------------------------
\* The pool is bounded, and a session that runs after the stop handler came
\* from a datagram that had been received before it.
SessionsBounded ==
  /\ Cardinality(pool) <= MaxSession
  /\ open => \A e \in Endpoint : ses[e].run /\ ses[e].timer # New => e \in pool
=============================================================================
