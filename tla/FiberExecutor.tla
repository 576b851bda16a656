------------------------------ MODULE FiberExecutor ------------------------------
(***************************************************************************)
(* FiberExecutor (boost_tools_fiber/fiber_tools.hpp): threads that take    *)
(* tasks from a bounded channel, and the start and stop functions of       *)
(* sub-services.  A Post waits while the channel is full, in a task with   *)
(* the thread that runs it, in a start function with the thread that is    *)
(* still to make the others.  Tasks are numbered in the order of the       *)
(* calls.  Registering while a Stop walks the same vector is a data race   *)
(* and left out.                                                           *)
(***************************************************************************)
EXTENDS Naturals, Sequences, SequencesExt, FiniteSets

CONSTANTS
  Thread,
  Capacity,   \* elements task_ch_ holds
  MaxTask,    \* bound: tasks posted
  MaxFunc     \* bound: pairs of functions registered

VARIABLES
  start_flag, stop_flag,
  starts, stops,     \* how many functions start_func_vec_ and stop_func_vec_ have left to call
  owner,             \* where the thread that uses the executor is
  stopper,           \* who is in Stop: "nobody", "other" (than the owner and the user) or a thread
  ch, closed,        \* task_ch_
  thread,            \* [at: "none", "pop", "run", "exit" or "threw", task]
  push,              \* the task each caller is pushing, or NoTask
  called,            \* how many tasks were given to Post
  refused,           \* history: tasks that came to a closed channel
  ran                \* history: tasks that have been run

vars == <<start_flag, stop_flag, starts, stops, owner, stopper, ch, closed, thread, push, called, refused, ran>>
flags == <<start_flag, stop_flag>>
tasks == <<ch, closed, push, called, refused, ran>>

NoTask == 0
At(at) == [at |-> at, task |-> NoTask]
Caller == Thread \cup {"user", "owner"}

Init ==
  /\ start_flag = FALSE /\ stop_flag = FALSE
  /\ starts = 0 /\ stops = 0 /\ owner = "idle" /\ stopper = "nobody"
  /\ ch = <<>> /\ closed = FALSE
  /\ thread = [t \in Thread |-> At("none")]
  /\ push = [p \in Caller |-> NoTask]
  /\ called = 0 /\ refused = {} /\ ran = {}

-----------------------------------------------------------------------------
Idle(p) == push[p] = NoTask /\ stopper # p
Running(t) == thread[t].at = "run" /\ Idle(t)

\* Post begins; Pushes ends it.
Post(p) ==
  /\ Idle(p) /\ called < MaxTask
  /\ called' = called + 1 /\ push' = [push EXCEPT ![p] = called']

PostCall ==
  /\ \E p \in {"user"} \cup {t \in Thread : Running(t)} : Post(p)
  /\ UNCHANGED <<flags, starts, stops, owner, stopper, ch, closed, thread, refused, ran>>

Pushes(p) ==
  /\ push[p] # NoTask
  /\ \/ closed /\ refused' = refused \cup {push[p]} /\ UNCHANGED ch
     \/ ~closed /\ Len(ch) < Capacity /\ ch' = Append(ch, push[p]) /\ UNCHANGED refused
  /\ push' = [push EXCEPT ![p] = NoTask]
  /\ UNCHANGED <<flags, starts, stops, owner, stopper, closed, thread, called, ran>>

\* Not guarded: after Start its start function is not called any more, after
\* a Stop its stop function.
RegisterSvrFunc ==
  /\ owner \in {"idle", "started"} /\ stopper = "nobody" /\ starts < MaxFunc
  /\ starts' = starts + 1 /\ stops' = IF stop_flag THEN stops ELSE stops + 1
  /\ UNCHANGED <<flags, owner, stopper, tasks, thread>>

Start ==
  /\ ~start_flag /\ start_flag' = TRUE /\ owner' = "start"
  /\ UNCHANGED <<stop_flag, starts, stops, stopper, tasks, thread>>

\* A start function may post a task.
StartFunc ==
  /\ owner = "start" /\ Idle("owner") /\ starts > 0 /\ starts' = starts - 1
  /\ Post("owner") \/ UNCHANGED <<called, push>>
  /\ UNCHANGED <<flags, stops, owner, stopper, ch, closed, thread, refused, ran>>

MakeThread ==
  /\ owner = "start" /\ Idle("owner") /\ starts = 0
  /\ \E t \in Thread :
       /\ thread[t].at = "none"
       /\ thread' = [thread EXCEPT ![t] = At("pop")]
       /\ owner' = IF \A u \in Thread \ {t} : thread[u].at # "none" THEN "started" ELSE owner
  /\ UNCHANGED <<flags, starts, stops, stopper, tasks>>

Join ==
  /\ \/ owner = "started" /\ owner' = "join"
     \/ owner = "join" /\ (\A t \in Thread : thread[t].at \in {"exit", "threw"}) /\ owner' = "joined"
  /\ UNCHANGED <<flags, starts, stops, stopper, tasks, thread>>

-----------------------------------------------------------------------------
\* A closed channel still gives what it holds.
Drained == closed /\ ch = <<>>

Pop(t) ==
  /\ thread[t].at = "pop"
  /\ \/ Drained /\ thread' = [thread EXCEPT ![t] = At("exit")] /\ UNCHANGED ch
     \/ /\ ch # <<>>
        /\ thread' = [thread EXCEPT ![t] = [at |-> "run", task |-> Head(ch)]] /\ ch' = Tail(ch)
  /\ UNCHANGED <<flags, starts, stops, owner, stopper, closed, push, called, refused, ran>>

\* The task returns, or its exception ends the thread.
TaskEnds(t, at) ==
  /\ Running(t)
  /\ thread' = [thread EXCEPT ![t] = At(at)] /\ ran' = ran \cup {thread[t].task}
  /\ UNCHANGED <<flags, starts, stops, owner, stopper, ch, closed, push, called, refused>>

TaskReturns(t) == TaskEnds(t, "pop")
TaskThrows(t) == TaskEnds(t, "threw")

-----------------------------------------------------------------------------
StopCall ==
  /\ ~stop_flag /\ stop_flag' = TRUE
  /\ \E who \in {"other"} \cup {t \in Thread : Running(t)} : stopper' = who
  /\ UNCHANGED <<start_flag, starts, stops, owner, tasks, thread>>

StopFunc ==
  /\ stopper # "nobody" /\ stops > 0 /\ stops' = stops - 1
  /\ UNCHANGED <<flags, starts, owner, stopper, tasks, thread>>

StopReturns ==
  /\ stopper # "nobody" /\ stops = 0
  /\ closed' = TRUE /\ stopper' = "nobody"
  /\ UNCHANGED <<flags, starts, stops, owner, ch, thread, push, called, refused, ran>>

OwnerSteps == StartFunc \/ MakeThread \/ Join
StopSteps == StopFunc \/ StopReturns
ThreadStep(t) == Pushes(t) \/ Pop(t) \/ TaskReturns(t)

Next ==
  \/ PostCall
  \/ \E p \in Caller : Pushes(p)
  \/ RegisterSvrFunc
  \/ Start
  \/ OwnerSteps
  \/ \E t \in Thread : Pop(t)
  \/ \E t \in Thread : TaskReturns(t) \/ TaskThrows(t)
  \/ StopCall
  \/ StopSteps

Spec == Init /\ [][Next]_vars

\* Threads run, and a task that does not post returns.
FairSpec ==
  /\ Spec /\ WF_vars(OwnerSteps \/ Pushes("owner")) /\ WF_vars(StopSteps)
  /\ \A t \in Thread : WF_vars(ThreadStep(t))

-----------------------------------------------------------------------------
Joined == owner = "joined"

\* When Join returns, every task that Post has accepted has been run, once,
\* unless exceptions have ended all threads before.
AcceptedAreRun ==
  /\ Joined =>
       \/ \A t \in Thread : thread[t].at = "threw"
       \/ ran = (1..called) \ (refused \cup {push[p] : p \in Caller})
  /\ ran \cap (refused \cup Range(ch) \cup {push[p] : p \in Caller} \cup {thread[t].task : t \in Thread}) \subseteq {NoTask}

\* All threads wait in a Post of their tasks, or have thrown: only a Stop helps.
Stuck == \A t \in Thread : thread[t].at = "threw" \/ push[t] # NoTask
=============================================================================
