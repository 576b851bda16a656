------------------------------- MODULE RpcServer -------------------------------
(***************************************************************************)
(* AsioRpcServer (ytrpc/asio_rpc/asio_rpc_server.hpp): the acceptor and    *)
(* the management coroutine, which share mgr_strand_ and the session pool. *)
(* A session is reduced to its run_flag_ (RpcServerSession.tla models the  *)
(* rest): it may stop by itself at any moment.                             *)
(***************************************************************************)
EXTENDS Naturals, Sequences, FiniteSets

CONSTANTS
  Session,     \* the session objects (more than MaxSession)
  MaxSession,  \* max_session_num
  Func         \* functions of the services RegisterService may be called with

ASSUME MaxSessionAssumption == MaxSession \in Nat \ {0}
ASSUME SessionAssumption == IsFiniteSet(Session)

VARIABLES
  start,    \* start_flag_
  run,      \* run_flag_
  stopDue,  \* Stop() has cleared run_flag_ and not yet dispatched its handler
  strand,   \* mgr_strand_
  acc,      \* the acceptor coroutine
  mgr,      \* the management coroutine
  open,     \* acceptor_ is open
  pool,     \* session_ptr_list_
  st,       \* per session: "new", "held" by the acceptor, "run", "dead"
  funcs     \* func_map_ptr_

vars == <<start, run, stopDue, strand, acc, mgr, open, pool, st, funcs>>

\* As in RpcServerSession: where a coroutine is suspended, and how the
\* operation it awaits has completed ("none" while it has not).
Coro(at, op) == [at |-> at, op |-> op]
Ended == Coro("end", "none")
Awaits(c, at) == c = Coro(at, "none")

Init ==
  /\ start = FALSE
  /\ run = TRUE
  /\ stopDue = FALSE
  /\ strand = <<>>
  /\ acc = Coro("new", "none")
  /\ mgr = Coro("new", "none")
  /\ open = TRUE
  /\ pool = {}
  /\ st = [s \in Session |-> "new"]
  /\ funcs = {}

\* The map is changed before the flag is looked at; a late call only throws.
RegisterService(f) ==
  /\ funcs' = funcs \cup {f}
  /\ UNCHANGED <<start, run, stopDue, strand, acc, mgr, open, pool, st>>

\* Mutant of MayStart: start_flag_ is set but not tested.
MayAlwaysStart == TRUE

MayStart == ~start

Start ==
  /\ MayStart
  /\ start' = TRUE
  /\ acc' = Coro("start", "ok")
  /\ mgr' = Coro("start", "ok")
  /\ strand' = strand \o <<"acc", "mgr">>
  /\ UNCHANGED <<run, stopDue, open, pool, st, funcs>>

StopCall ==
  /\ run
  /\ run' = FALSE
  /\ stopDue' = TRUE
  /\ UNCHANGED <<start, strand, acc, mgr, open, pool, st, funcs>>

DispatchStop ==
  /\ stopDue
  /\ stopDue' = FALSE
  /\ strand' = Append(strand, "stop")
  /\ UNCHANGED <<start, run, acc, mgr, open, pool, st, funcs>>

-----------------------------------------------------------------------------
Runs(name) == strand # <<>> /\ Head(strand) = name /\ strand' = Tail(strand)

Held == {s \in Session : st[s] = "held"}
Accepted == acc = Coro("accept", "ok")

\* What the acceptor's resumption does to the session it holds: started and
\* put in the pool, or, when the accept failed, dropped.
\* (Mutant of PoolNow: the session is started and not put in the pool.)
PoolUnchanged == pool
PoolNow == IF Accepted THEN pool \cup Held ELSE pool
StNow == [s \in Session |-> IF s \in Held THEN (IF Accepted THEN "run" ELSE "new") ELSE st[s]]

\* Session objects that can be made: dead ones that left the pool are freed.
Free(s) == StNow[s] = "new" \/ (StNow[s] = "dead" /\ s \notin PoolNow)

\* Mutant of Full: the pool may grow past max_session_num.
OverFull == Cardinality(PoolNow) > MaxSession

Full == Cardinality(PoolNow) >= MaxSession

AcceptorSleeps ==
  /\ Runs("acc")
  /\ run
  /\ Full
  /\ acc' = Coro("sleep", "none")
  /\ pool' = PoolNow
  /\ st' = StNow
  /\ UNCHANGED <<start, run, stopDue, mgr, open, funcs>>

AcceptorAccepts ==
  /\ Runs("acc")
  /\ run
  /\ ~Full
  /\ acc' = Coro("accept", "none")
  /\ pool' = PoolNow
  /\ \E s \in {x \in Session : Free(x)} : st' = [StNow EXCEPT ![s] = "held"]
  /\ UNCHANGED <<start, run, stopDue, mgr, open, funcs>>

AcceptorExits ==
  /\ Runs("acc")
  /\ ~run
  /\ acc' = Ended
  /\ pool' = PoolNow
  /\ st' = StNow
  /\ UNCHANGED <<start, run, stopDue, mgr, open, funcs>>

Swept == {s \in pool : st[s] = "run"}

\* The sweep after a full period; a cancelled wait skips it.
MgrResumes ==
  /\ Runs("mgr")
  /\ pool' = IF mgr = Coro("wait", "ok") THEN Swept ELSE pool
  /\ mgr' = IF run THEN Coro("wait", "none") ELSE Ended
  /\ UNCHANGED <<start, run, stopDue, acc, open, st, funcs>>

\* Mutant of Aborted: an accept or a wait that is in progress goes on.
NotAborted(c) == c

\* A timer's cancel and the acceptor's cancel end what is in progress.
Aborted(c) ==
  IF c.op = "none" /\ c.at \in {"sleep", "accept", "wait"}
  THEN [c EXCEPT !.op = "error"] ELSE c

StopHandler ==
  /\ Runs("stop")
  /\ open' = FALSE
  /\ acc' = Aborted(acc)
  /\ mgr' = Aborted(mgr)
  /\ st' = [s \in Session |-> IF s \in pool THEN "dead" ELSE st[s]]
  /\ pool' = {}
  /\ UNCHANGED <<start, run, stopDue, funcs>>

Strand == AcceptorSleeps \/ AcceptorAccepts \/ AcceptorExits \/ MgrResumes \/ StopHandler

-----------------------------------------------------------------------------
\* A client connects, or accept fails (the loop goes on with a new session).
AcceptDone ==
  /\ Awaits(acc, "accept")
  /\ open
  /\ acc' \in {Coro("accept", "ok"), Coro("accept", "error")}
  /\ UNCHANGED <<start, run, stopDue, strand, mgr, open, pool, st, funcs>>

AcceptorTimer ==
  /\ Awaits(acc, "sleep")
  /\ acc' = Coro("sleep", "ok")
  /\ UNCHANGED <<start, run, stopDue, strand, mgr, open, pool, st, funcs>>

MgrTimer ==
  /\ Awaits(mgr, "wait")
  /\ mgr' = Coro("wait", "ok")
  /\ UNCHANGED <<start, run, stopDue, strand, acc, open, pool, st, funcs>>

Deliver(name, c) ==
  /\ c.op # "none"
  /\ \A i \in DOMAIN strand : strand[i] # name
  /\ strand' = Append(strand, name)
  /\ UNCHANGED <<start, run, stopDue, acc, mgr, open, pool, st, funcs>>

\* A session stops by itself.
SessionDies(s) ==
  /\ st[s] = "run"
  /\ st' = [st EXCEPT ![s] = "dead"]
  /\ UNCHANGED <<start, run, stopDue, strand, acc, mgr, open, pool, funcs>>

Next ==
  \/ Start
  \/ StopCall
  \/ DispatchStop
  \/ Strand
  \/ AcceptDone
  \/ AcceptorTimer
  \/ MgrTimer
  \/ Deliver("acc", acc)
  \/ Deliver("mgr", mgr)
  \/ \E s \in Session : SessionDies(s)
  \/ \E f \in Func : RegisterService(f)

Spec == Init /\ [][Next]_vars

\* The io_context's threads run and its timers fire; connections are not due.
FairSpec ==
  /\ Spec
  /\ WF_vars(DispatchStop)
  /\ WF_vars(Strand)
  /\ WF_vars(AcceptorTimer)
  /\ WF_vars(MgrTimer)
  /\ WF_vars(Deliver("acc", acc))
  /\ WF_vars(Deliver("mgr", mgr))

-----------------------------------------------------------------------------
Op == {"none", "ok", "error"}

(***************************************************************************)
(* The types, and that mgr_strand_ holds each of the two coroutines and    *)
(* the stop handler at most once: Start and Stop take effect once.         *)
(***************************************************************************)
TypeOK ==
  /\ start \in BOOLEAN /\ run \in BOOLEAN /\ stopDue \in BOOLEAN /\ open \in BOOLEAN
  /\ strand \in Seq({"acc", "mgr", "stop"})
  /\ \A i, j \in DOMAIN strand : strand[i] = strand[j] => i = j
  /\ acc \in [at : {"new", "start", "sleep", "accept", "end"}, op : Op]
  /\ mgr \in [at : {"new", "start", "wait", "end"}, op : Op]
  /\ pool \subseteq Session
  /\ st \in [Session -> {"new", "held", "run", "dead"}]
  /\ funcs \subseteq Func

(***************************************************************************)
(* max_session_num bounds the pool: between the test of the pool's size    *)
(* and the emplace after async_accept no other session enters it.          *)
(***************************************************************************)
PoolBounded == Cardinality(pool) <= MaxSession

(***************************************************************************)
(* Every running session is in the pool as long as Stop's handler has not  *)
(* run: that handler then reaches all of them.                             *)
(***************************************************************************)
RunningArePooled == open => \A s \in Session : st[s] = "run" => s \in pool

(***************************************************************************)
(* asio_rpc_server.hpp:197, "stop the rpc server": once the stop handler   *)
(* has run and the acceptor coroutine has ended, no session is left        *)
(* running that nobody will stop.                                          *)
(***************************************************************************)
NoSessionOutlivesStop ==
  (~open /\ acc = Ended) => \A s \in Session : st[s] # "run"
=============================================================================
