------------------------------ MODULE HttpClient ------------------------------
(***************************************************************************)
(* AsioHttpClient and its sessions (boost_tools_asio/asio_http_cli.hpp):   *)
(* every call takes an idle session of the pool, or makes one, and sends   *)
(* its request and reads the response on that session alone.  The scan of  *)
(* the pool is one step, and sessions outlive the calls that use them.     *)
(***************************************************************************)
EXTENDS Asio, FiniteSets, SequencesExt

CONSTANTS
  Call,        \* calls of HttpSendRecvCo
  MaxSession   \* max_session_num

Session == 1..Cardinality(Call)   \* a call makes one session at most
NoSession == 0

VARIABLES
  run,      \* AsioHttpClient::run_flag_
  due,      \* the client's stop handler has not run on mgr_strand_
  pool,     \* session_ptr_list_
  made,     \* number of sessions made
  ses,      \* per session: run_flag_, idle_flag_, first_time_entry_, whether
            \* the stream is open, strands whose stop handler has not run, the
            \* timer, and the requests at the server
  co,       \* per call: "pick", "enter", "resolve", "connect", "write", "read"
  on,       \* per call: its session
  result    \* per call: the response, "none" before the end, "failed"

vars == <<run, due, pool, made, ses, co, on, result>>

Init ==
  /\ run = TRUE /\ due = FALSE /\ pool = <<>> /\ made = 0
  /\ ses = [s \in Session |-> [run |-> FALSE, idle |-> FALSE, first |-> TRUE, open |-> FALSE,
                               due |-> {}, timer |-> New, wire |-> <<>>]]
  /\ co = [c \in Call |-> New]
  /\ on = [c \in Call |-> NoSession]
  /\ result = [c \in Call |-> "none"]

HttpSendRecvCo(c) ==
  /\ co[c] = New
  /\ co' = [co EXCEPT ![c] = Coro("pick", "ok")]
  /\ UNCHANGED <<run, due, pool, made, ses, on, result>>

Fails(c) ==
  /\ co' = [co EXCEPT ![c] = Ended]
  /\ result' = [result EXCEPT ![c] = "failed"]

-----------------------------------------------------------------------------
\* Mutant of Usable: a running session is taken, idle or not.
UsableBusy(s) == ses[s].run

\* IsRunning and CheckIdleAndUse
Usable(s) == ses[s].run /\ ses[s].idle

\* list without the sessions of S.
Erased(list, S) ==
  LET from[n \in 0..Len(list)] ==
        IF n = 0 THEN <<>>
        ELSE IF list[n] \in S THEN from[n - 1] ELSE Append(from[n - 1], list[n])
  IN  from[Len(list)]

\* The first usable session and the pool without the stopped ones before it.
Chosen == SelectInSeq(pool, Usable)
Dead == {s \in Session : ~ses[s].run}
Kept == Erased(SubSeq(pool, 1, Chosen - 1), Dead) \o SubSeq(pool, Chosen, Len(pool))
Alive == Erased(pool, Dead)

PickIdle(c) ==
  /\ co[c] = Coro("pick", "ok") /\ run /\ Chosen # 0
  /\ pool' = Kept
  /\ ses' = [ses EXCEPT ![pool[Chosen]].idle = FALSE]
  /\ on' = [on EXCEPT ![c] = pool[Chosen]]
  /\ co' = [co EXCEPT ![c] = Coro("enter", "ok")]
  /\ UNCHANGED <<run, due, made, result>>

PickNew(c) ==
  /\ co[c] = Coro("pick", "ok") /\ run /\ Chosen = 0 /\ Len(Alive) < MaxSession
  /\ made' = made + 1
  /\ pool' = Append(Alive, made')
  /\ ses' = [ses EXCEPT ![made'].run = TRUE, ![made'].timer = Spawned]
  /\ on' = [on EXCEPT ![c] = made']
  /\ co' = [co EXCEPT ![c] = Coro("enter", "ok")]
  /\ UNCHANGED <<run, due, result>>

PickNone(c) ==
  /\ co[c] = Coro("pick", "ok")
  /\ run => Chosen = 0 /\ Len(Alive) >= MaxSession
  /\ pool' = IF run THEN Alive ELSE pool
  /\ Fails(c)
  /\ UNCHANGED <<run, due, made, ses, on>>

-----------------------------------------------------------------------------
Io == {"resolve", "connect", "write", "read"}
After == [resolve |-> "connect", connect |-> "write", write |-> "read"]

\* The stream of s is closed: what a call awaits on it ends.
Aborted(s) == Cancelled(co, {c \in Call : on[c] = s /\ co[c].at \in Io \ {"resolve"}})

\* Session::Stop from the socket strand, whose handler then runs at once.
Stopped(S) == IF S.run THEN [S EXCEPT !.run = FALSE, !.open = FALSE, !.due = {"mgr"}] ELSE S

Enters(c) ==
  /\ co[c] = Coro("enter", "ok")
  /\ IF ses[on[c]].run
     THEN /\ co' = Goes(co, c, IF ses[on[c]].first THEN "resolve" ELSE "write")
          /\ ses' = [ses EXCEPT ![on[c]].first = FALSE]
          /\ UNCHANGED result
     ELSE Fails(c) /\ UNCHANGED ses
  /\ UNCHANGED <<run, due, pool, made, on>>

\* async_connect opens the stream, also that of a session that has stopped.
GoesOn(c) ==
  /\ co[c].op = "ok" /\ co[c].at \in DOMAIN After
  /\ co' = Goes(co, c, After[co[c].at])
  /\ ses' = [ses EXCEPT ![on[c]].open = @ \/ co[c].at = "resolve"]
  /\ UNCHANGED <<run, due, pool, made, on, result>>

Freed(S) == [S EXCEPT !.idle = TRUE, !.wire = Tail(@)]

\* The session becomes idle again; it stops when one side wants the end.
Returns(c) ==
  /\ co[c] = Coro("read", "ok")
  /\ co' = [co EXCEPT ![c] = Ended]
  /\ result' = [result EXCEPT ![c] = Head(ses[on[c]].wire)]
  /\ \E eof \in BOOLEAN : ses' = [ses EXCEPT ![on[c]] = Freed(IF eof THEN Stopped(@) ELSE @)]
  /\ UNCHANGED <<run, due, pool, made, on>>

\* An operation failed or timed out, or the time is over between two of them.
GivesUp(c) ==
  /\ co[c].at \in Io /\ Resumes(co, c) /\ co[c] # Coro("read", "ok")
  /\ Fails(c)
  /\ ses' = [ses EXCEPT ![on[c]] = Stopped(@)]
  /\ UNCHANGED <<run, due, pool, made, on>>

CallStep(c) == PickIdle(c) \/ PickNew(c) \/ PickNone(c) \/ Enters(c) \/ GoesOn(c) \/ Returns(c) \/ GivesUp(c)

-----------------------------------------------------------------------------
\* The timer ends the session after one period: nobody sets tick_has_data_.
Ticked(S) ==
  IF S.timer = Spawned /\ S.run THEN [S EXCEPT !.timer = Suspended("wait")]
  ELSE [S EXCEPT !.timer = Ended, !.run = FALSE, !.due = IF S.run THEN {"sock"} ELSE @]

Ticks(s) ==
  /\ ses[s].timer.op # "none"
  /\ ses' = [ses EXCEPT ![s] = Ticked(@)]
  /\ UNCHANGED <<run, due, pool, made, co, on, result>>

SockStops(s) ==
  /\ "sock" \in ses[s].due
  /\ ses' = [ses EXCEPT ![s].due = @ \ {"sock"}, ![s].open = FALSE]
  /\ co' = Aborted(s)
  /\ UNCHANGED <<run, due, pool, made, on, result>>

MgrStops(s) ==
  /\ "mgr" \in ses[s].due
  /\ ses' = [ses EXCEPT ![s].due = @ \ {"mgr"},
                        ![s].timer = IF @ = Suspended("wait") THEN Coro("wait", "error") ELSE @]
  /\ UNCHANGED <<run, due, pool, made, co, on, result>>

TimerFires(s) ==
  /\ ses[s].timer = Suspended("wait")
  /\ ses' = [ses EXCEPT ![s].timer.op = "ok"]
  /\ UNCHANGED <<run, due, pool, made, co, on, result>>

SessionStep(s) == Ticks(s) \/ SockStops(s) \/ MgrStops(s) \/ TimerFires(s)

Stop ==
  /\ run
  /\ run' = FALSE /\ due' = TRUE
  /\ UNCHANGED <<pool, made, ses, co, on, result>>

StopHandler ==
  /\ due
  /\ due' = FALSE
  /\ pool' = <<>>
  /\ ses' = [s \in Session |-> IF Contains(pool, s) /\ ses[s].run
                               THEN [ses[s] EXCEPT !.run = FALSE, !.due = {"sock", "mgr"}] ELSE ses[s]]
  /\ UNCHANGED <<run, made, co, on, result>>

-----------------------------------------------------------------------------
\* The server answers the requests of a connection in their order; every
\* operation ends, at the latest by the time the stream expires; the resolver
\* is taken to answer.
IoDone(c) ==
  /\ co[c].at \in Io /\ co[c].op = "none"
  /\ \/ /\ ses[on[c]].open \/ co[c].at = "resolve"
        /\ co[c].at = "read" => ses[on[c]].wire # <<>>
        /\ co' = [co EXCEPT ![c].op = "ok"]
        /\ ses' = IF co[c].at = "write" THEN [ses EXCEPT ![on[c]].wire = Append(@, c)] ELSE ses
     \/ co' = [co EXCEPT ![c].op = "error"] /\ UNCHANGED ses
  /\ UNCHANGED <<run, due, pool, made, on, result>>

Next ==
  \/ \E c \in Call : HttpSendRecvCo(c) \/ CallStep(c) \/ IoDone(c)
  \/ \E s \in Session : SessionStep(s)
  \/ Stop \/ StopHandler

Spec == Init /\ [][Next]_vars
FairSpec ==
  /\ Spec /\ WF_vars(StopHandler)
  /\ \A c \in Call : WF_vars(CallStep(c) \/ IoDone(c))
  /\ \A s \in Session : WF_vars(SessionStep(s))

-----------------------------------------------------------------------------
\* A call has its session to itself and gets the response to its own request,
\* whatever became of the calls before it; the pool is bounded, holds every
\* running session, and is empty of them once the stop handler has run.
CallsAreSeparate ==
  /\ \A c, d \in Call : c # d /\ on[c] = on[d] /\ on[c] # NoSession => co[c] = Ended \/ co[d] = Ended
  /\ \A c \in Call : result[c] \in {c, "none", "failed"}
  /\ Len(pool) <= MaxSession
  /\ \A s \in Session : ses[s].run => Contains(pool, s) /\ (run \/ due)
=============================================================================
