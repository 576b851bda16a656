-------------------------------- MODULE Timer ---------------------------------
(***************************************************************************)
(* ytlib::Timer (timer/timer.hpp): a hierarchical timing wheel driven by   *)
(* one thread, with a virtual clock that can be paused or accelerated.     *)
(*                                                                         *)
(* Time is counted in ticks of options_.dt since start_time_point_.  The   *)
(* lists of a wheel are abstracted to the place every task is in; the      *)
(* order of the tasks of one list is not modelled (the code promises none, *)
(* timer.hpp:172), so a taken list runs in any order.  A slow-motion ratio *)
(* only changes how long the thread sleeps and is the ratio 1 here.        *)
(*                                                                         *)
(* The wheels are numbered 1..N where the code counts from 0.              *)
(***************************************************************************)
EXTENDS Naturals, Sequences, FiniteSets

CONSTANTS
  WheelSize,   \* wheel_size_array, a sequence of sizes
  Task,        \* tasks; each is submitted at most once
  Ratio,       \* the ratios SetTimeRatio is called with; 0 pauses the clock
  InitRatio,   \* options_.init_ratio
  MaxDelay,    \* bound: the largest delay a task is submitted with
  MaxTick,     \* bound: the last tick the model looks at
  CallInTick   \* may ExecuteAt be called while the tasks of a tick run?

N == Len(WheelSize)
Wheel == 1..N

ASSUME WheelAssumption == WheelSize \in Seq(Nat \ {0}) /\ WheelSize # <<>>
ASSUME RatioAssumption == Ratio \subseteq Nat /\ InitRatio \in Nat
ASSUME BoundAssumption == MaxDelay \in Nat /\ MaxTick \in Nat /\ CallInTick \in BOOLEAN

VARIABLES
  state,     \* state_
  ratio,     \* ratio_direction_ / real_ratio_, as a whole number of ticks
  pc,        \* the timer thread: "none", "top", "tick", "exec", "gone"
  todo,      \* diff_tick_count: ticks left in this round of TimerLoop
  tick,      \* current_tick_count_
  pos,       \* current_pos of every wheel
  mapPos,    \* timing_task_map_pos_
  place,     \* where every task is
  due,       \* tick_count of the submitted tasks
  oob        \* a wheel was indexed outside its vector: undefined behaviour

clock == <<ratio, pc, todo, tick, pos, mapPos>>
tasks == <<place, due>>
vars == <<state, clock, tasks, oob>>

New      == [at |-> "new"]
Slot(w, p) == [at |-> "slot", wheel |-> w, index |-> p]
InMap(k) == [at |-> "map", key |-> k]
Taken    == [at |-> "taken"]   \* in the task_list the thread executes
Done     == [at |-> "done"]

Pending(t) == place[t].at \in {"slot", "map"}
Submitted(t) == place[t] # New

\* scale of wheel w: the product of the sizes up to w
Scale[w \in 0..N] == IF w = 0 THEN 1 ELSE Scale[w - 1] * WheelSize[w]

Init ==
  /\ state = "PreInit"
  /\ ratio = 1
  /\ pc = "none"
  /\ todo = 0
  /\ tick = 0
  /\ pos = [w \in Wheel |-> 0]
  /\ mapPos = 0
  /\ place = [t \in Task |-> New]
  /\ due = [t \in Task |-> 0]
  /\ oob = FALSE

-----------------------------------------------------------------------------
(***************************************************************************)
(* Lifecycle                                                               *)
(***************************************************************************)
Initialize ==
  /\ state = "PreInit"
  /\ state' = "Init"
  /\ ratio' = InitRatio
  /\ UNCHANGED <<pc, todo, tick, pos, mapPos, tasks, oob>>

Start ==
  /\ state = "Init"
  /\ state' = "Start"
  /\ pc' = "top"
  /\ UNCHANGED <<ratio, todo, tick, pos, mapPos, tasks, oob>>

\* Shutdown of a started timer: the flag first, then the join.
Shutdown ==
  /\ state = "Start"
  /\ state' = "Shutdown"
  /\ UNCHANGED <<clock, tasks, oob>>

SetTimeRatio(r) ==
  /\ state \in {"Init", "Start"}
  /\ ratio' = r
  /\ UNCHANGED <<state, pc, todo, tick, pos, mapPos, tasks, oob>>

-----------------------------------------------------------------------------
(***************************************************************************)
(* ExecuteAt.  The level loop divides both the delay and the clock by the  *)
(* size of every wheel the delay does not fit in.                          *)
(***************************************************************************)
Quotient(n) ==
  LET q[w \in 0..N] == IF w = 0 THEN n ELSE q[w - 1] \div WheelSize[w]
  IN  q

\* Mutant of SlotIndex: the slot is counted from the wheel's beginning.
SlotIndexFromZero(diff, cur, w) == diff[w - 1] % WheelSize[w]

SlotIndex(diff, cur, w) == (diff[w - 1] + cur[w - 1]) % WheelSize[w]

PlaceFor(d) ==
  LET diff == Quotient(d - tick)
      cur  == Quotient(tick)
      fits == {w \in Wheel : diff[w - 1] < WheelSize[w]}
  IN  IF fits = {}
      THEN InMap(diff[N] + cur[N])
      ELSE LET w == CHOOSE v \in fits : \A u \in fits : v <= u
           IN  Slot(w, SlotIndex(diff, cur, w))

\* tick_mutex_ is free before the first tick of a round and while tasks run.
TickMutexFree == pc # "tick"

ExecuteAt(t, d) ==
  /\ state = "Start"
  /\ TickMutexFree
  /\ pc = "exec" => CallInTick
  /\ place[t] = New
  /\ d <= tick + MaxDelay
  /\ due' = [due EXCEPT ![t] = d]
  /\ place' = [place EXCEPT ![t] = IF d < tick THEN Done ELSE PlaceFor(d)]
  /\ UNCHANGED <<state, clock, oob>>

-----------------------------------------------------------------------------
(***************************************************************************)
(* TimerLoop.  One round reads the ratio, sleeps, and then makes `todo`    *)
(* ticks with tick_mutex_ held, except while the tasks of a tick run.      *)
(* After a Shutdown the round it interrupts is still completed.            *)
(***************************************************************************)
Round ==
  /\ pc = "top"
  /\ state # "Shutdown"
  /\ ratio # 0
  /\ pc' = "tick"
  /\ todo' = ratio
  /\ UNCHANGED <<state, ratio, tick, pos, mapPos, tasks, oob>>

\* Mutant of Exit: a paused loop does not look at state_.
ExitUnlessPaused ==
  /\ pc = "top"
  /\ state = "Shutdown"
  /\ ratio # 0
  /\ pc' = "gone"
  /\ UNCHANGED <<state, ratio, todo, tick, pos, mapPos, tasks, oob>>

Exit ==
  /\ pc = "top"
  /\ state = "Shutdown"
  /\ pc' = "gone"
  /\ UNCHANGED <<state, ratio, todo, tick, pos, mapPos, tasks, oob>>

\* Wheel 1 is ticked every time.  A wheel that comes to its end calls its
\* borrow_func, which advances the next wheel once and ticks it as well:
\* the list it takes is that of the position after the current one.
TickedAt(w) == IF w = 1 THEN pos[1] ELSE pos[w] + 1

Wraps[w \in Wheel] ==
  /\ TickedAt(w) + 1 = WheelSize[w]
  /\ w = 1 \/ Wraps[w - 1]

Ticked == {w \in Wheel : w = 1 \/ Wraps[w - 1]}

\* Mutant of BorrowIndex: the tick the list is taken at, not the task's own.
BorrowIndexNow(t, w) == tick % Scale[w]

\* Where borrow_func of wheel w moves a task to.
BorrowIndex(t, w) == due[t] % Scale[w]

Moved(t) ==
  LET p == place[t] IN
  CASE p = Slot(1, pos[1]) -> Taken
    [] p.at = "slot" /\ p.wheel > 1 /\ p.wheel \in Ticked
         /\ p.index = TickedAt(p.wheel) -> Slot(p.wheel - 1, BorrowIndex(t, p.wheel - 1))
    [] p.at = "map" /\ Wraps[N] /\ p.key = mapPos + 1 -> Slot(N, BorrowIndex(t, N))
    [] OTHER -> p

OutOfBounds ==
  \/ \E w \in Ticked : TickedAt(w) >= WheelSize[w]
  \/ \E t \in Task : LET m == Moved(t) IN
       m # place[t] /\ m.at = "slot" /\ m.index >= WheelSize[m.wheel]

\* Mutants of EndTick: the last tick of a round is not counted; a round
\* makes one tick too many.
EndTickUncounted ==
  /\ tick' = IF todo = 1 THEN tick ELSE tick + 1
  /\ todo' = todo - 1
  /\ pc' = IF todo = 1 THEN "top" ELSE "tick"

\* ++current_tick_count_, and the end of the round after its last tick.
EndTick ==
  /\ tick' = tick + 1
  /\ todo' = todo - 1
  /\ pc' = IF todo = 1 THEN "top" ELSE "tick"

Tick ==
  /\ pc = "tick"
  /\ tick < MaxTick
  /\ ~OutOfBounds
  /\ pos' = [w \in Wheel |-> IF w \notin Ticked THEN pos[w]
                             ELSE (TickedAt(w) + 1) % WheelSize[w]]
  /\ mapPos' = IF Wraps[N] THEN mapPos + 1 ELSE mapPos
  /\ place' = [t \in Task |-> Moved(t)]
  /\ IF \E t \in Task : Moved(t) = Taken
     THEN pc' = "exec" /\ UNCHANGED <<tick, todo>>
     ELSE EndTick
  /\ UNCHANGED <<state, ratio, due, oob>>

\* What follows an access outside a vector is unknown: the model stops.
TickOutOfBounds ==
  /\ pc = "tick"
  /\ tick < MaxTick
  /\ OutOfBounds
  /\ oob' = TRUE
  /\ pc' = "gone"
  /\ UNCHANGED <<state, ratio, todo, tick, pos, mapPos, tasks>>

RunTask(t) ==
  /\ pc = "exec"
  /\ place[t] = Taken
  /\ place' = [place EXCEPT ![t] = Done]
  /\ UNCHANGED <<state, clock, due, oob>>

\* Mutant of ListDone: only the first task of the list is run.
ListDoneEarly == \E t \in Task : place[t] # Taken

ListDone == \A t \in Task : place[t] # Taken

FinishTick ==
  /\ pc = "exec"
  /\ ListDone
  /\ EndTick
  /\ UNCHANGED <<state, ratio, pos, mapPos, tasks, oob>>

LoopStep ==
  \/ Round
  \/ Exit
  \/ Tick
  \/ TickOutOfBounds
  \/ \E t \in Task : RunTask(t)
  \/ FinishTick

Next ==
  \/ Initialize
  \/ Start
  \/ Shutdown
  \/ \E r \in Ratio : SetTimeRatio(r)
  \/ \E t \in Task, d \in 0..(tick + MaxDelay) : ExecuteAt(t, d)
  \/ LoopStep

Spec == Init /\ [][Next]_vars

\* The thread is scheduled; nobody is obliged to call the timer.
FairSpec == Spec /\ WF_vars(LoopStep)

-----------------------------------------------------------------------------
(***************************************************************************)
(* The types; the ticks left in a round of TimerLoop are counted to zero   *)
(* and not past it (diff_tick_count is unsigned).                          *)
(***************************************************************************)
TypeOK ==
  /\ state \in {"PreInit", "Init", "Start", "Shutdown"}
  /\ ratio \in Nat
  /\ pc \in {"none", "top", "tick", "exec", "gone"}
  /\ todo \in Nat
  /\ tick \in Nat
  /\ pos \in [Wheel -> Nat]
  /\ mapPos \in Nat
  /\ \A t \in Task : place[t].at \in {"new", "slot", "map", "taken", "done"}
  /\ due \in [Task -> Nat]
  /\ oob \in BOOLEAN

\* Ticks the first wheel has made: one ahead of the clock while tasks run.
Turned == IF pc = "exec" THEN tick + 1 ELSE tick

(***************************************************************************)
(* For wheels of every number and size, every delay and calls at any       *)
(* moment, a task runs only at a tick congruent to its own modulo the      *)
(* first wheel: every way in (directly, from a higher wheel, from the map) *)
(* leads to the slot of its own tick, and that slot is taken when the      *)
(* clock stands there.  It may run whole turns early or late.              *)
(***************************************************************************)
SlotMatchesDue ==
  \A t \in Task :
    /\ (place[t].at = "slot" /\ place[t].wheel = 1) => place[t].index = due[t] % WheelSize[1]
    /\ place[t].at = "taken" => pc = "exec" /\ due[t] % WheelSize[1] = tick % WheelSize[1]

\* t waits in its slot, and the first wheel comes to that slot in this turn.
WithinReach(t) ==
  /\ place[t] = Slot(1, due[t] % WheelSize[1])
  /\ Turned <= due[t] /\ due[t] < Turned + WheelSize[1]

(***************************************************************************)
(* A task submitted less than one turn ahead, for a tick the first wheel   *)
(* has not turned past, runs exactly at its tick, however many wheels and  *)
(* long delays there are, and also when it is submitted by a task.  So     *)
(* does a task of a higher wheel once it is in reach of the first: no step *)
(* takes it out of its slot but the tick it is due at.                     *)
(***************************************************************************)
NearTasksArePrompt ==
  [][\A t \in Task :
       /\ (place[t] = New /\ place'[t] # New /\ Turned <= due'[t] /\ due'[t] < tick + WheelSize[1])
            => WithinReach(t)'
       /\ WithinReach(t) => WithinReach(t)' \/ (place'[t] = Taken /\ due'[t] = due[t] /\ due[t] = tick')]_vars

(***************************************************************************)
(* timer_test.cpp:66 and :73 expect the virtual clock to stand exactly at  *)
(* the task's time when it runs: no task is still stored when the clock    *)
(* has passed its tick.                                                    *)
(***************************************************************************)
NotLate == \A t \in Task : Pending(t) => Turned <= due[t]

(***************************************************************************)
(* With a single wheel, delays shorter than it and no call while the       *)
(* tasks of a tick run, the wheel implements the abstract timer.           *)
(***************************************************************************)
Prompt == INSTANCE PromptTimer WITH
  now <- tick,
  at <- due,
  status <- [t \in Task |-> CASE place[t] = New -> "new"
                              [] place[t] = Done -> "ran"
                              [] OTHER -> "pending"]

ImplementsPromptTimer == Prompt!Spec

(***************************************************************************)
(* A started timer that is not paused runs every task it was given (for a  *)
(* tick the model looks at), unless it is shut down.                       *)
(***************************************************************************)
EveryTaskRuns ==
  \A t \in Task : (Submitted(t) /\ due[t] < MaxTick) ~>
    (place[t] = Done \/ ratio = 0 \/ state = "Shutdown")

(***************************************************************************)
(* Shutdown ends the timer thread, so the join in Shutdown returns.        *)
(***************************************************************************)
ShutdownJoins == state = "Shutdown" ~> (pc = "gone" \/ tick = MaxTick)
=============================================================================
