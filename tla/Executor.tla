-------------------------------- MODULE Executor --------------------------------
(***************************************************************************)
(* AsioExecutor (boost_tools_asio/asio_tools.hpp): an io_context, the      *)
(* threads that run it, and the start and stop functions of sub-services.  *)
(* A sub-service has work for the io_context from its start function until *)
(* some time after its stop function.  "signal" stands for the signal set  *)
(* of EnableStopSignal in both lists of functions.  Registering while a    *)
(* Stop walks the same vector is a data race and left out.                 *)
(***************************************************************************)
EXTENDS Naturals, Sequences, SequencesExt

CONSTANTS Service, Thread

VARIABLES
  start_flag, stop_flag,
  starts, stops,   \* start_func_vec_, stop_func_vec_
  guard,           \* work_guard_ is held
  owner,           \* where the thread that uses the executor is
  todo,            \* start functions Start has still to call
  stopper,         \* who is in Stop: "nobody", "user" or a thread
  undone,          \* stop functions it has still to call
  thread,          \* "none", "run", "exit", or "threw"
  svc,             \* "off", "on", "refused" (stopped before started), "ending", "ended"
  signal,          \* "off", "made", "waits", "raised", "cancelled", "cleared", "deaf", "ended"
  early            \* history: Stop was called before Start had returned

vars == <<start_flag, stop_flag, starts, stops, guard, owner, todo, stopper, undone, thread, svc, signal, early>>
flags == <<start_flag, stop_flag, early>>
lists == <<starts, stops, todo, undone>>

Init ==
  /\ start_flag = FALSE /\ stop_flag = FALSE /\ early = FALSE
  /\ starts = <<>> /\ stops = <<>> /\ todo = <<>> /\ undone = <<>>
  /\ guard = TRUE /\ owner = "idle" /\ stopper = "nobody"
  /\ thread = [t \in Thread |-> "none"]
  /\ svc = [s \in Service |-> "off"] /\ signal = "off"

-----------------------------------------------------------------------------
\* After a Stop the start function is registered all the same: the second
\* registration throws.
RegisterSvrFunc(s) ==
  /\ owner = "idle" /\ ~start_flag /\ stopper = "nobody" /\ ~Contains(starts, s)
  /\ starts' = Append(starts, s)
  /\ stops' = IF stop_flag THEN stops ELSE Append(stops, s)
  /\ UNCHANGED <<flags, guard, owner, todo, stopper, undone, thread, svc, signal>>

EnableStopSignal ==
  /\ owner = "idle" /\ ~start_flag /\ stopper = "nobody" /\ signal = "off"
  /\ starts' = Append(starts, "signal") /\ stops' = Append(stops, "signal")
  /\ signal' = "made"
  /\ UNCHANGED <<flags, guard, owner, todo, stopper, undone, thread, svc>>

Start ==
  /\ ~start_flag
  /\ start_flag' = TRUE /\ owner' = "start" /\ todo' = starts
  /\ UNCHANGED <<stop_flag, early, starts, stops, guard, stopper, undone, thread, svc, signal>>

StartFunc ==
  /\ owner = "start" /\ todo # <<>>
  /\ todo' = Tail(todo)
  /\ IF Head(todo) = "signal"
     THEN signal' = (IF signal = "cleared" THEN "deaf" ELSE "waits") /\ UNCHANGED svc
     ELSE svc' = [svc EXCEPT ![Head(todo)] = IF @ = "off" THEN "on" ELSE "ending"] /\ UNCHANGED signal
  /\ UNCHANGED <<flags, starts, stops, guard, owner, stopper, undone, thread>>

\* The threads are made one after the other, and run before the last is made.
MakeThread ==
  /\ owner = "start" /\ todo = <<>>
  /\ \E t \in Thread :
       /\ thread[t] = "none"
       /\ thread' = [thread EXCEPT ![t] = "run"]
       /\ owner' = IF \A u \in Thread \ {t} : thread[u] # "none" THEN "started" ELSE owner
  /\ starts' = <<>>
  /\ UNCHANGED <<flags, stops, guard, todo, stopper, undone, svc, signal>>

Join ==
  /\ \/ owner = "started" /\ owner' = "join"
     \/ owner = "join" /\ (\A t \in Thread : thread[t] \in {"exit", "threw"}) /\ owner' = "joined"
  /\ UNCHANGED <<flags, lists, guard, stopper, thread, svc, signal>>

-----------------------------------------------------------------------------
Free(t) == thread[t] = "run" /\ stopper # t

\* Stop called by who; everyone but the first returns at once.
Stop(who) ==
  /\ stop_flag' = TRUE
  /\ IF stop_flag THEN UNCHANGED <<early, stopper, undone>>
     ELSE early' = (owner \in {"idle", "start"}) /\ stopper' = who /\ undone' = stops

StopCall ==
  /\ ~stop_flag
  /\ \E who \in {"user"} \cup {t \in Thread : Free(t) /\ \E s \in Service : svc[s] = "on"} : Stop(who)
  /\ UNCHANGED <<start_flag, starts, stops, guard, owner, todo, thread, svc, signal>>

StopFunc ==
  /\ stopper # "nobody" /\ undone # <<>>
  /\ undone' = Front(undone)
  /\ IF Last(undone) = "signal"
     THEN /\ signal' = (CASE signal = "waits" -> "cancelled" [] signal = "made" -> "cleared" [] OTHER -> signal)
          /\ UNCHANGED svc
     ELSE /\ svc' = [svc EXCEPT ![Last(undone)] = CASE @ = "off" -> "refused" [] @ = "on" -> "ending" [] OTHER -> @]
          /\ UNCHANGED signal
  /\ UNCHANGED <<flags, starts, stops, guard, owner, todo, stopper, thread>>

Released == FALSE

StopReturns ==
  /\ stopper # "nobody" /\ undone = <<>>
  /\ stops' = <<>> /\ guard' = Released /\ stopper' = "nobody"
  /\ UNCHANGED <<flags, starts, owner, todo, undone, thread, svc, signal>>

\* A cancelled wait calls the same handler.
SignalHandler ==
  /\ signal \in {"raised", "cancelled"}
  /\ \E t \in Thread : Free(t) /\ Stop(t)
  /\ signal' = "ended"
  /\ UNCHANGED <<start_flag, starts, stops, guard, owner, todo, thread, svc>>

-----------------------------------------------------------------------------
\* The operating system, the sub-services and the io_context.
SignalArrives ==
  /\ signal = "waits" /\ signal' = "raised"
  /\ UNCHANGED <<flags, lists, guard, owner, stopper, thread, svc>>

ServiceEnds ==
  /\ \E t \in Thread : Free(t)
  /\ \E s \in Service : svc[s] = "ending" /\ svc' = [svc EXCEPT ![s] = "ended"]
  /\ UNCHANGED <<flags, lists, guard, owner, stopper, thread, signal>>

\* What keeps io_context::run from returning, besides the guard.
Work ==
  \/ \E s \in Service : svc[s] \in {"on", "ending"}
  \/ signal \in {"waits", "raised", "cancelled", "deaf"}
  \/ stopper \in Thread

\* run() returns, or a handler of a service throws through it.
ThreadExits ==
  /\ \E t \in Thread : thread[t] = "run" /\ ~guard /\ ~Work /\ thread' = [thread EXCEPT ![t] = "exit"]
  /\ UNCHANGED <<flags, lists, guard, owner, stopper, svc, signal>>

ThreadThrows ==
  /\ \E s \in Service : svc[s] \in {"on", "ending"}
  /\ \E t \in Thread : Free(t) /\ thread' = [thread EXCEPT ![t] = "threw"]
  /\ UNCHANGED <<flags, lists, guard, owner, stopper, svc, signal>>

OwnerSteps == StartFunc \/ MakeThread \/ Join
StopSteps == StopFunc \/ StopReturns

Next ==
  \/ \E s \in Service : RegisterSvrFunc(s)
  \/ EnableStopSignal
  \/ Start
  \/ OwnerSteps
  \/ StopCall
  \/ StopSteps
  \/ SignalHandler
  \/ SignalArrives
  \/ ServiceEnds
  \/ ThreadExits
  \/ ThreadThrows

Spec == Init /\ [][Next]_vars

\* Threads run, and a stopped sub-service ends its work.
FairSpec ==
  /\ Spec /\ WF_vars(OwnerSteps) /\ WF_vars(StopSteps) /\ WF_vars(SignalHandler)
  /\ WF_vars(ServiceEnds) /\ WF_vars(ThreadExits)

-----------------------------------------------------------------------------
Joined == owner = "joined"

\* When Join returns, Stop has called every stop function and no sub-service
\* has work left, unless exceptions have ended all threads before.
JoinMeansDone ==
  Joined => (\A t \in Thread : thread[t] = "threw") \/ (~guard /\ stopper = "nobody" /\ ~Work)

\* A Stop after Start lets Join return, whoever calls it and wherever its
\* functions stand between the handlers of the threads.
JoinDue == owner = "join" /\ stop_flag /\ ~early
=============================================================================
