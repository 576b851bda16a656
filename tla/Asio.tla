--------------------------------- MODULE Asio ---------------------------------
(***************************************************************************)
(* What the sessions, clients and servers of boost_tools_asio use of       *)
(* Boost.Asio.  A coroutine is suspended at `at` ("start" before it first  *)
(* runs, "end" after its body), and op tells how the operation it awaits   *)
(* has completed, "none" while it has not.  A completed operation is not   *)
(* undone by a cancellation: its coroutine resumes, at a moment nobody     *)
(* controls, with the outcome it has.                                      *)
(*                                                                         *)
(* co is a function from the coroutines' names to their states.  Handlers  *)
(* posted to a strand before a completion may run after its coroutine      *)
(* here, which the strand's own order forbids: the models that use this    *)
(* module allow a few more interleavings than the program has.             *)
(***************************************************************************)
EXTENDS Naturals, Sequences

Coro(at, op) == [at |-> at, op |-> op]
New == Coro("new", "none")         \* not spawned yet
Spawned == Coro("start", "ok")
Ended == Coro("end", "none")
Suspended(at) == Coro(at, "none")

Awaits(co, c, at) == co[c] = Suspended(at)
Resumes(co, c) == co[c].op # "none"
Finished(co) == \A c \in DOMAIN co : co[c] = Ended

\* c is suspended at `at` from now on.
Goes(co, c, at) == [co EXCEPT ![c] = Suspended(at)]

\* The operations that the coroutines in C await are cancelled.
Cancelled(co, C) ==
  [c \in DOMAIN co |-> IF c \in C /\ co[c].op = "none" /\ co[c].at \notin {"new", "end"}
                       THEN [co[c] EXCEPT !.op = "error"] ELSE co[c]]
=============================================================================
