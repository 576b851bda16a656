----------------------------- MODULE PromptTimer ------------------------------
(***************************************************************************)
(* What a user of ytlib::Timer is promised, without wheels: a virtual      *)
(* clock that does not pass a task's tick before the task has run, and     *)
(* that shows exactly that tick while it runs.                             *)
(***************************************************************************)
EXTENDS Naturals

CONSTANTS Task

VARIABLES
  now,      \* the virtual clock, in ticks
  status,   \* "new", "pending" or "ran", per task
  at        \* the tick each task was submitted for

tvars == <<now, status, at>>

Init ==
  /\ now = 0
  /\ status = [t \in Task |-> "new"]
  /\ at = [t \in Task |-> 0]

\* A task for a tick that has passed runs at once.
Submit(t) ==
  /\ status[t] = "new"
  /\ at'[t] \in Nat
  /\ at' = [at EXCEPT ![t] = at'[t]]
  /\ status' = [status EXCEPT ![t] = IF at'[t] < now THEN "ran" ELSE "pending"]
  /\ UNCHANGED now

Fire(t) ==
  /\ status[t] = "pending"
  /\ at[t] = now
  /\ status' = [status EXCEPT ![t] = "ran"]
  /\ UNCHANGED <<now, at>>

Advance ==
  /\ \A t \in Task : status[t] = "pending" => at[t] > now
  /\ now' = now + 1
  /\ UNCHANGED <<status, at>>

Next ==
  \/ \E t \in Task : Fire(t) \/ Submit(t)
  \/ Advance

Spec == Init /\ [][Next]_tvars
=============================================================================
