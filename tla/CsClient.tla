------------------------------- MODULE CsClient -------------------------------
(***************************************************************************)
(* AsioCsClient (boost_tools_asio/asio_cs_cli.hpp): SendMsg, called from   *)
(* any thread, hands its message to the session, or lets mgr_strand_ make  *)
(* one.  A session is reduced to its run_flag_ and to the messages that    *)
(* were handed to it (CsCliSession.tla models the rest).  AsioUdpClient    *)
(* (asio_udp_cli.hpp) is the same line by line, but for a message that is  *)
(* too large: it throws before anything else.                              *)
(***************************************************************************)
EXTENDS Naturals, Sequences

CONSTANTS
  Msg,         \* messages, each sent by a call of its own
  MaxSession   \* bound: sessions made; the last one does not stop by itself

Session == 1..MaxSession
NoSession == 0

VARIABLES
  run,      \* run_flag_
  stopDue,  \* Stop has cleared run_flag_ and not dispatched its handler
  tasks,    \* mgr_strand_: messages, and "stop"
  stopped,  \* the stop handler has run
  cur,      \* session_ptr_
  srun,     \* per session: run_flag_; FALSE for those not made
  made,     \* number of sessions made
  pc,       \* per message: "idle", "load", "task", "give", "mgr" (given by the strand), "done"
  to,       \* per message: the session it is given to
  box       \* per session: what its SendMsg was called with

vars == <<run, stopDue, tasks, stopped, cur, srun, made, pc, to, box>>

Init ==
  /\ run = TRUE /\ stopDue = FALSE /\ tasks = <<>> /\ stopped = FALSE
  /\ cur = NoSession /\ made = 0
  /\ srun = [s \in Session |-> FALSE]
  /\ pc = [m \in Msg |-> "idle"]
  /\ to = [m \in Msg |-> NoSession]
  /\ box = [s \in Session |-> <<>>]

SendMsg(m) ==
  /\ pc[m] = "idle"
  /\ pc' = [pc EXCEPT ![m] = IF run THEN "load" ELSE "done"]
  /\ UNCHANGED <<run, stopDue, tasks, stopped, cur, srun, made, to, box>>

Usable == cur # NoSession /\ srun[cur]

Load(m) ==
  /\ pc[m] = "load"
  /\ IF Usable
     THEN pc' = [pc EXCEPT ![m] = "give"] /\ to' = [to EXCEPT ![m] = cur] /\ UNCHANGED tasks
     ELSE pc' = [pc EXCEPT ![m] = "task"] /\ tasks' = Append(tasks, m) /\ UNCHANGED to
  /\ UNCHANGED <<run, stopDue, stopped, cur, srun, made, box>>

\* The session may have stopped since it was looked at.
Give(m) ==
  /\ pc[m] \in {"give", "mgr"}
  /\ box' = [box EXCEPT ![to[m]] = Append(@, m)]
  /\ pc' = [pc EXCEPT ![m] = "done"]
  /\ UNCHANGED <<run, stopDue, tasks, stopped, cur, srun, made, to>>

\* A handler on mgr_strand_ is not interrupted by another one.
Runs(task) == tasks # <<>> /\ Head(tasks) = task /\ tasks' = Tail(tasks) /\ \A m \in Msg : pc[m] # "mgr"

MustCreate == ~Usable

\* The new session can be seen before it is given the message it was made for.
Handle(m) ==
  /\ Runs(m)
  /\ IF ~run THEN pc' = [pc EXCEPT ![m] = "done"] /\ UNCHANGED <<cur, srun, made, to>>
     ELSE /\ pc' = [pc EXCEPT ![m] = "mgr"]
          /\ IF MustCreate
             THEN /\ made < MaxSession
                  /\ made' = made + 1 /\ cur' = made' /\ srun' = [srun EXCEPT ![made'] = TRUE]
             ELSE UNCHANGED <<cur, srun, made>>
          /\ to' = [to EXCEPT ![m] = cur']
  /\ UNCHANGED <<run, stopDue, stopped, box>>

Stop ==
  /\ run
  /\ run' = FALSE /\ stopDue' = TRUE
  /\ UNCHANGED <<tasks, stopped, cur, srun, made, pc, to, box>>

DispatchStop ==
  /\ stopDue
  /\ stopDue' = FALSE
  /\ tasks' = Append(tasks, "stop")
  /\ UNCHANGED <<run, stopped, cur, srun, made, pc, to, box>>

StopHandler ==
  /\ Runs("stop")
  /\ stopped' = TRUE
  /\ srun' = [s \in Session |-> srun[s] /\ s # cur]
  /\ UNCHANGED <<run, stopDue, cur, made, pc, to, box>>

SessionDies(s) ==
  /\ srun[s] /\ s < MaxSession
  /\ srun' = [srun EXCEPT ![s] = FALSE]
  /\ UNCHANGED <<run, stopDue, tasks, stopped, cur, made, pc, to, box>>

CallStep(m) == Load(m) \/ Give(m) \/ Handle(m)
StopStep == DispatchStop \/ StopHandler

Next ==
  \/ \E m \in Msg : SendMsg(m) \/ CallStep(m)
  \/ Stop \/ StopStep
  \/ \E s \in Session : SessionDies(s)

Spec == Init /\ [][Next]_vars
FairSpec == Spec /\ WF_vars(StopStep) /\ \A m \in Msg : WF_vars(CallStep(m))

-----------------------------------------------------------------------------
\* Concurrent calls that find no session make one together, and none runs
\* once the stop handler has run.
OneSession ==
  /\ \A s, t \in Session : srun[s] /\ srun[t] => s = t
  /\ stopped => \A s \in Session : ~srun[s]
=============================================================================
