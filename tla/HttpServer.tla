------------------------------ MODULE HttpServer ------------------------------
(***************************************************************************)
(* AsioHttpServer (boost_tools_asio/asio_http_svr.hpp).  Its acceptor, its *)
(* management coroutine and its Stop are those of the RPC server line by   *)
(* line (RpcServer.tla, with session_ptr_list_ as the pool).  The handlers *)
(* of its sessions come from HttpDispatcher (string/http_dispatcher.hpp):  *)
(* the patterns and handlers in the order of their registration, where a   *)
(* pattern is the set of the paths it matches.                             *)
(***************************************************************************)
EXTENDS Naturals, Sequences, FiniteSets, SequencesExt

CONSTANTS
  Session, MaxSession,
  Path,
  MaxHandle   \* bound: registrations

VARIABLES
  start, run, stopDue, strand, acc, mgr, open, pool, st,
  http_handle_list   \* of the dispatcher: [pattern, handle], an empty handle is 0

vars == <<start, run, stopDue, strand, acc, mgr, open, pool, st>>

Rpc == INSTANCE RpcServer WITH Func <- {}, funcs <- {}

Init == Rpc!Init
Start == Rpc!Start
Stop == Rpc!StopCall \/ Rpc!DispatchStop \/ Rpc!StopHandler
AcceptorCo == Rpc!AcceptorSleeps \/ Rpc!AcceptorAccepts \/ Rpc!AcceptorExits
TimerCo == Rpc!MgrResumes

\* Connections and timers, and the delivery of what has completed.
Completion ==
  \/ Rpc!AcceptDone \/ Rpc!AcceptorTimer \/ Rpc!MgrTimer
  \/ Rpc!Deliver("acc", acc) \/ Rpc!Deliver("mgr", mgr)

SessionEnds == \E s \in Session : Rpc!SessionDies(s)

Next == Start \/ Stop \/ AcceptorCo \/ TimerCo \/ Completion \/ SessionEnds

Spec == Init /\ [][Next]_vars

-----------------------------------------------------------------------------
DispatcherInit == http_handle_list = <<>>

RegisterHttpHandle(pattern, handle) ==
  /\ Len(http_handle_list) < MaxHandle
  /\ http_handle_list' = Append(http_handle_list, [pattern |-> pattern, handle |-> handle])

\* The first match with a handle that is not empty.
GetHttpHandle(path) ==
  LET i == SelectInSeq(http_handle_list, LAMBDA h : path \in h.pattern /\ h.handle # 0)
  IN IF i = 0 THEN 0 ELSE http_handle_list[i].handle

DispatcherNext == \E pattern \in SUBSET Path, handle \in 0..2 : RegisterHttpHandle(pattern, handle)

(***************************************************************************)
(* A registration changes nothing for a path that had a handler, however   *)
(* general its pattern is.                                                 *)
(***************************************************************************)
HandlersStay ==
  [][\A path \in Path : GetHttpHandle(path) # 0 => GetHttpHandle(path)' = GetHttpHandle(path)]_http_handle_list
=============================================================================
