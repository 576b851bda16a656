------------------------------- MODULE CsServer -------------------------------
(***************************************************************************)
(* AsioCsServer (boost_tools_asio/asio_cs_svr.hpp): the acceptor and the   *)
(* management coroutine over a pool of sessions that is a map from remote  *)
(* endpoints.  A session is reduced to its run_flag_ (CsSession.tla models *)
(* the rest).  SendMsg only looks the pool up.                             *)
(***************************************************************************)
EXTENDS Asio, FiniteSets

CONSTANTS
  Session,     \* the session objects (more than MaxSession)
  Endpoint,    \* the endpoints clients connect from
  MaxSession,  \* max_session_num
  NoSession

VARIABLES
  start,  \* start_flag_
  run,    \* run_flag_
  due,    \* the stop handler has not run on mgr_strand_
  co,     \* "acc", "mgr"
  open,   \* acceptor_ is open
  pool,   \* session_ptr_map_, NoSession where an endpoint has no entry
  st,     \* per session: "none" (no object), "held" by the acceptor, "run", "dead"
  ep,     \* per session: its remote endpoint
  missed  \* history: sessions that were started and found no place in the map

vars == <<start, run, due, co, open, pool, st, ep, missed>>

Unknown == CHOOSE e \in Endpoint : TRUE
Pooled == {pool[e] : e \in Endpoint} \ {NoSession}

Init ==
  /\ start = FALSE /\ run = TRUE /\ due = FALSE /\ open = TRUE
  /\ co = [c \in {"acc", "mgr"} |-> New]
  /\ pool = [e \in Endpoint |-> NoSession]
  /\ st = [s \in Session |-> "none"]
  /\ ep = [s \in Session |-> Unknown]
  /\ missed = {}

Start ==
  /\ ~start
  /\ start' = TRUE
  /\ co' = [c \in DOMAIN co |-> Spawned]
  /\ UNCHANGED <<run, due, open, pool, st, ep, missed>>

StopCall ==
  /\ run
  /\ run' = FALSE /\ due' = TRUE
  /\ UNCHANGED <<start, co, open, pool, st, ep, missed>>

StopHandler ==
  /\ due
  /\ due' = FALSE /\ open' = FALSE
  /\ co' = Cancelled(co, {"acc", "mgr"})
  /\ st' = [s \in Session |-> IF s \in Pooled THEN "none" ELSE st[s]]
  /\ ep' = [s \in Session |-> IF s \in Pooled THEN Unknown ELSE ep[s]]
  /\ pool' = [e \in Endpoint |-> NoSession]
  /\ UNCHANGED <<start, run, missed>>

-----------------------------------------------------------------------------
Held == CHOOSE s \in Session : st[s] = "held"

\* The accepted session is started; emplace keeps an older entry of the same
\* endpoint, and remote_endpoint throws when the peer has gone already.
Accepted ==
  /\ co["acc"] = Coro("accept", "ok")
  /\ co' = [co EXCEPT !["acc"] = Coro("loop", "ok")]
  /\ st' = [st EXCEPT ![Held] = "run"]
  /\ \/ pool' = IF pool[ep[Held]] = NoSession THEN [pool EXCEPT ![ep[Held]] = Held] ELSE pool
     \/ pool' = pool
  /\ missed' = IF pool' = pool THEN missed \cup {Held} ELSE missed
  /\ UNCHANGED <<start, run, due, open, ep>>

AcceptFailed ==
  /\ co["acc"] = Coro("accept", "error")
  /\ co' = [co EXCEPT !["acc"] = Coro("loop", "ok")]
  /\ st' = [st EXCEPT ![Held] = "none"]
  /\ UNCHANGED <<start, run, due, open, pool, ep, missed>>

Full == Cardinality(Pooled) >= MaxSession

AcceptorLoops ==
  /\ Resumes(co, "acc") /\ co["acc"].at # "accept"
  /\ IF ~run THEN co' = [co EXCEPT !["acc"] = Ended] /\ UNCHANGED st
     ELSE IF Full THEN co' = Goes(co, "acc", "sleep") /\ UNCHANGED st
     ELSE /\ co' = Goes(co, "acc", "accept")
          /\ \E s \in Session : st[s] = "none" /\ st' = [st EXCEPT ![s] = "held"]
  /\ UNCHANGED <<start, run, due, open, pool, ep, missed>>

\* The sweep after a full period; a cancelled wait skips it.
Swept == IF co["mgr"] = Coro("wait", "ok") THEN {s \in Pooled : st[s] = "dead"} ELSE {}

MgrResumes ==
  /\ Resumes(co, "mgr")
  /\ pool' = [e \in Endpoint |-> IF pool[e] \in Swept THEN NoSession ELSE pool[e]]
  /\ st' = [s \in Session |-> IF s \in Swept THEN "none" ELSE st[s]]
  /\ ep' = [s \in Session |-> IF s \in Swept THEN Unknown ELSE ep[s]]
  /\ co' = IF run THEN Goes(co, "mgr", "wait") ELSE [co EXCEPT !["mgr"] = Ended]
  /\ UNCHANGED <<start, run, due, open, missed>>

Acceptor == Accepted \/ AcceptFailed \/ AcceptorLoops

-----------------------------------------------------------------------------
\* A client connects, from an endpoint it may have used before, or accept fails.
AcceptDone ==
  /\ Awaits(co, "acc", "accept")
  /\ \/ \E e \in Endpoint : open /\ ep' = [ep EXCEPT ![Held] = e] /\ co' = [co EXCEPT !["acc"].op = "ok"]
     \/ ep' = ep /\ co' = [co EXCEPT !["acc"].op = "error"]
  /\ UNCHANGED <<start, run, due, open, pool, st, missed>>

Fires(c, at) ==
  /\ Awaits(co, c, at)
  /\ co' = [co EXCEPT ![c].op = "ok"]
  /\ UNCHANGED <<start, run, due, open, pool, st, ep, missed>>

\* A session stops by itself; one that only itself refers to is freed.
SessionDies ==
  /\ \E s \in Session :
       /\ st[s] = "run"
       /\ st' = [st EXCEPT ![s] = IF s \in missed THEN "none" ELSE "dead"]
       /\ ep' = [ep EXCEPT ![s] = IF s \in missed THEN Unknown ELSE @]
       /\ missed' = missed \ {s}
  /\ UNCHANGED <<start, run, due, co, open, pool>>

Next ==
  \/ Start
  \/ StopCall
  \/ StopHandler
  \/ Acceptor
  \/ MgrResumes
  \/ AcceptDone
  \/ Fires("acc", "sleep")
  \/ Fires("mgr", "wait")
  \/ SessionDies

Spec == Init /\ [][Next]_vars

\* The io_context runs and timers fire; connections are not due.
Fairness ==
  /\ WF_vars(StopHandler) /\ WF_vars(Acceptor) /\ WF_vars(MgrResumes)
  /\ WF_vars(Fires("acc", "sleep")) /\ WF_vars(Fires("mgr", "wait"))
FairSpec == Spec /\ Fairness

-----------------------------------------------------------------------------
\* The map stays within max_session_num and files every session under its
\* own endpoint; a running session is in it unless it missed its place.
MapHolds ==
  /\ Cardinality(Pooled) <= MaxSession
  /\ \A e \in Endpoint : pool[e] # NoSession => ep[pool[e]] = e /\ st[pool[e]] \in {"run", "dead"}
  /\ open => \A s \in Session : st[s] = "run" => s \in Pooled \cup missed
=============================================================================
