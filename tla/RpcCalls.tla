------------------------------- MODULE RpcCalls -------------------------------
(***************************************************************************)
(* What AsioRpcClient::Invoke promises its callers, without strands and    *)
(* connections: a call gets one status, the status is deserved, and a call *)
(* that failed marks its context as done, which cancels the later calls.   *)
(***************************************************************************)
CONSTANTS Call, Context, CtxOf, Code

VARIABLES
  call,      \* per call: "idle", "pending", or the status it returned
  answered,  \* the calls the server has answered
  answer,    \* per answered call: the status in the answer
  late,      \* the calls whose deadline has passed
  closed,    \* the client was stopped
  done       \* the contexts that are done

Init ==
  /\ call = [c \in Call |-> "idle"]
  /\ answered = {} /\ answer \in [Call -> Code]
  /\ late = {}
  /\ closed = FALSE
  /\ done = {}

Begin(c) ==
  /\ call[c] = "idle" /\ CtxOf[c] \notin done
  /\ call' = [call EXCEPT ![c] = "pending"]
  /\ UNCHANGED <<answered, answer, late, closed, done>>

\* Only a call whose context is done is not made.
Cancel(c) ==
  /\ call[c] = "idle" /\ CtxOf[c] \in done
  /\ call' = [call EXCEPT ![c] = "CANCELLED"]
  /\ UNCHANGED <<answered, answer, late, closed, done>>

\* The server answers a call once, with any status, while somebody makes it.
Answer(c, code) ==
  /\ call[c] # "idle"
  /\ c \notin answered
  /\ answered' = answered \cup {c}
  /\ answer' = [answer EXCEPT ![c] = code]
  /\ UNCHANGED <<call, late, closed, done>>

PassDeadline(c) ==
  /\ late' = late \cup {c}
  /\ UNCHANGED <<call, answered, answer, closed, done>>

Close ==
  /\ closed' = TRUE
  /\ UNCHANGED <<call, answered, answer, late, done>>

\* Anybody who has a context may declare it done.
Done(x) ==
  /\ done' = done \cup {x}
  /\ UNCHANGED <<call, answered, answer, late, closed>>

Return(c, code) ==
  /\ call[c] = "pending"
  /\ call' = [call EXCEPT ![c] = code]
  /\ UNCHANGED <<answered, answer, late, closed>>

\* The server's answer is OK, and it parses or does not.
Succeed(c, code) ==
  /\ c \in answered /\ answer[c] = "OK"
  /\ code \in {"OK", "CLI_PARSE_RSP_FAILED"}
  /\ Return(c, code)
  /\ UNCHANGED done

\* The server's answer is a failure, or there was none before the deadline.
Fail(c, code) ==
  /\ \/ c \in answered /\ code = answer[c] /\ code # "OK"
     \/ c \in late /\ code = "TIMEOUT"
  /\ Return(c, code)
  /\ done' = done \cup {CtxOf[c]}

Refuse(c) ==
  /\ closed
  /\ Return(c, "CLI_IS_NOT_RUNNING")
  /\ UNCHANGED done

Next ==
  \/ \E c \in Call :
       \/ Begin(c) \/ Cancel(c) \/ PassDeadline(c) \/ Refuse(c)
       \/ \E code \in Code : Answer(c, code) \/ Succeed(c, code) \/ Fail(c, code)
  \/ Close
  \/ \E x \in Context : Done(x)

Spec == Init /\ [][Next]_<<call, answered, answer, late, closed, done>>
=============================================================================
