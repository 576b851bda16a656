---------------------------- MODULE MCClients_proofs ----------------------------
(***************************************************************************)
(* Proofs about the clients that MCClients puts side by side, for every    *)
(* value of the constants: the TCP and the UDP client run one session at a *)
(* time, the sessions of the TCP and the log client keep the order of what *)
(* they were given, a call of the HTTP client has its connection to        *)
(* itself, and the pool of clients is bounded; and about the tools beside  *)
(* them: a signal reaches whoever waits, a coroutine loses no value, guids *)
(* increase, the heap is one and the ring buffer is a queue.  Each part    *)
(* has an inductive invariant of its own, as a behaviour is about one.     *)
(***************************************************************************)
EXTENDS MCClients, FiniteSetTheorems, SequenceLemmas, TLAPS

-----------------------------------------------------------------------------
(***************************************************************************)
(* The TCP client (and the UDP client, whose code is the same).            *)
(***************************************************************************)
CsTypes ==
  /\ run \in BOOLEAN /\ stopped \in BOOLEAN /\ due \in BOOLEAN
  /\ tasks \in Seq(Msg \cup {"stop"})
  /\ cur \in Nat /\ made \in Nat
  /\ srun \in [Cs!Session -> BOOLEAN]

\* Only the current session runs.  The stop handler comes after run_flag_ was
\* cleared, so that no session is made after it.
CsInv ==
  /\ CsTypes
  /\ \A s \in Cs!Session : srun[s] => s = cur
  /\ due \/ stopped \/ "stop" \in Range(tasks) => ~run
  /\ stopped => \A s \in Cs!Session : ~srun[s]

LEMMA CsInit == Cs!Init => CsInv
<1> SUFFICES ASSUME Cs!Init PROVE CsInv
  OBVIOUS
<1>1. /\ run = TRUE /\ due = FALSE /\ stopped = FALSE /\ cur = 0 /\ made = 0
      /\ tasks = <<>> /\ srun = [s \in Cs!Session |-> FALSE]
  BY DEF Cs!Init, Cs!NoSession
<1>2. tasks \in Seq(Msg \cup {"stop"}) /\ Range(tasks) = {}
  BY <1>1, EmptyOnce
<1> QED BY <1>1, <1>2 DEF CsInv, CsTypes

\* What is on mgr_strand_ after its first handler was taken.
LEMMA CsRuns ==
  ASSUME CsTypes, NEW x, Cs!Runs(x)
  PROVE  x \in Range(tasks) /\ tasks' \in Seq(Msg \cup {"stop"}) /\ Range(tasks') \subseteq Range(tasks)
<1>1. tasks \in Seq(Msg \cup {"stop"}) /\ tasks # <<>> /\ x = Head(tasks) /\ tasks' = Tail(tasks)
  BY DEF CsTypes, Cs!Runs
<1> QED BY <1>1, TailOnce

\* The steps that let no session run and take nothing from mgr_strand_.
LEMMA CsQuiet ==
  ASSUME CsInv, UNCHANGED <<cur, made, stopped>>, run' \in BOOLEAN, due' \in BOOLEAN,
         tasks' \in Seq(Msg \cup {"stop"}), srun' \in [Cs!Session -> BOOLEAN],
         \A s \in Cs!Session : srun'[s] => srun[s],
         run' => run,
         due' => ~run',
         "stop" \in Range(tasks') => ~run' \/ "stop" \in Range(tasks)
  PROVE  CsInv'
BY DEF CsInv, CsTypes

LEMMA CsStep ==
  ASSUME CsInv, Cs!Next
  PROVE  CsInv'
<1>0. CsTypes
  BY DEF CsInv
<1>1. ASSUME NEW m \in Msg, Cs!SendMsg(m) \/ Cs!Give(m) PROVE CsInv'
  <2>1. UNCHANGED <<run, due, tasks, stopped, cur, srun, made>>
    BY <1>1 DEF Cs!SendMsg, Cs!Give
  <2> QED BY <1>0, <2>1, CsQuiet DEF CsInv, CsTypes
<1>2. ASSUME NEW m \in Msg, Cs!Load(m) PROVE CsInv'
  <2>1. /\ UNCHANGED <<run, due, stopped, cur, srun, made>>
        /\ tasks' = tasks \/ tasks' = Append(tasks, m)
    BY <1>2 DEF Cs!Load
  <2>2. m \in Msg \cup {"stop"} /\ m # "stop" /\ tasks \in Seq(Msg \cup {"stop"})
    BY <1>0, ClientsAssumption DEF CsTypes
  <2>3. tasks' \in Seq(Msg \cup {"stop"}) /\ ("stop" \in Range(tasks') => "stop" \in Range(tasks))
    <3>1. Append(tasks, m) \in Seq(Msg \cup {"stop"}) /\ Range(Append(tasks, m)) = Range(tasks) \cup {m}
      BY <2>2, AppendOnce
    <3> QED BY <2>1, <2>2, <3>1
  <2> QED BY <1>0, <2>1, <2>3, CsQuiet DEF CsInv, CsTypes
<1>3. ASSUME NEW m \in Msg, Cs!Handle(m) PROVE CsInv'
  <2>1. tasks' \in Seq(Msg \cup {"stop"}) /\ Range(tasks') \subseteq Range(tasks)
    BY <1>0, <1>3, CsRuns DEF Cs!Handle
  <2>2. UNCHANGED <<run, due, stopped>>
    BY <1>3 DEF Cs!Handle
  <2>3. CASE UNCHANGED <<cur, srun, made>>
    BY <1>0, <2>1, <2>2, <2>3, CsQuiet DEF CsInv, CsTypes
  <2>4. CASE ~UNCHANGED <<cur, srun, made>>
    <3>1. /\ run /\ Cs!MustCreate /\ made' = made + 1 /\ cur' = made'
          /\ srun' = [srun EXCEPT ![made'] = TRUE]
      BY <1>3, <2>4 DEF Cs!Handle
    <3>2. \A s \in Cs!Session : ~srun[s]
      <4>1. \A s \in Cs!Session : s # Cs!NoSession
        BY DEF Cs!Session, Cs!NoSession
      <4> QED BY <3>1, <4>1 DEF CsInv, Cs!MustCreate, Cs!Usable
    <3>3. srun' \in [Cs!Session -> BOOLEAN] /\ \A s \in Cs!Session : srun'[s] => s = cur'
      BY <1>0, <3>1, <3>2 DEF CsTypes
    <3>4. cur' \in Nat /\ made' \in Nat
      BY <1>0, <3>1 DEF CsTypes
    <3> QED BY <1>0, <2>1, <2>2, <3>1, <3>3, <3>4 DEF CsInv, CsTypes
  <2> QED BY <2>3, <2>4
<1>4. CASE Cs!Stop
  <2>1. UNCHANGED <<tasks, stopped, cur, srun, made>> /\ run' = FALSE /\ due' = TRUE
    BY <1>4 DEF Cs!Stop
  <2> QED BY <1>0, <2>1, CsQuiet DEF CsInv, CsTypes
<1>5. CASE Cs!DispatchStop
  <2>1. due /\ due' = FALSE /\ tasks' = Append(tasks, "stop") /\ UNCHANGED <<run, stopped, cur, srun, made>>
    BY <1>5 DEF Cs!DispatchStop
  <2>2. ~run /\ tasks' \in Seq(Msg \cup {"stop"})
    BY <1>0, <2>1, AppendOnce DEF CsInv, CsTypes
  <2> QED BY <1>0, <2>1, <2>2, CsQuiet DEF CsInv, CsTypes
<1>6. CASE Cs!StopHandler
  <2>1. /\ stopped' = TRUE /\ srun' = [s \in Cs!Session |-> srun[s] /\ s # cur]
        /\ UNCHANGED <<run, due, cur, made>>
    BY <1>6 DEF Cs!StopHandler
  <2>2. "stop" \in Range(tasks) /\ tasks' \in Seq(Msg \cup {"stop"})
    BY <1>0, <1>6, CsRuns DEF Cs!StopHandler
  <2>3. \A s \in Cs!Session : ~srun'[s]
    BY <2>1 DEF CsInv
  <2> QED BY <1>0, <2>1, <2>2, <2>3 DEF CsInv, CsTypes
<1>7. ASSUME NEW s \in Cs!Session, Cs!SessionDies(s) PROVE CsInv'
  <2>1. UNCHANGED <<run, due, tasks, stopped, cur, made>> /\ srun' = [srun EXCEPT ![s] = FALSE]
    BY <1>7 DEF Cs!SessionDies
  <2> QED BY <1>0, <2>1, CsQuiet DEF CsInv, CsTypes
<1> QED BY <1>1, <1>2, <1>3, <1>4, <1>5, <1>6, <1>7 DEF Cs!Next, Cs!CallStep, Cs!StopStep

LEMMA CsHolds == CsInv => Cs!OneSession
BY DEF CsInv, Cs!OneSession

-----------------------------------------------------------------------------
(***************************************************************************)
(* The TCP client's session.                                               *)
(***************************************************************************)
CsSesName == {"con", "send", "recv"}
CsSesCoro == [at : {"new", "start", "connect", "wait", "beat", "write", "head", "body", "end"},
              op : {"none", "ok", "error"}]

CsSesTypes ==
  /\ co \in [CsSesName -> CsSesCoro]
  /\ posted \in Seq(Nat) /\ list \in Seq(Nat) /\ writing \in Seq(Nat) /\ out \in Seq(Nat)

\* Something is being written, or was when the sender left; the sender runs
\* after the connection was made.
CsSesInv ==
  /\ CsSesTypes
  /\ InOrder(out, writing, list, posted)
  /\ CsSes!Awaits(co, "send", "wait") => list = <<>>
  /\ writing # <<>> => (co["send"].at = "write" /\ co["send"].op # "ok") \/ co["send"].at = "end"
  /\ co["send"].at = "end" => co["send"].op = "none"
  /\ co["con"].at # "end" => co["send"] = CsSes!New

LEMMA CsSesInit == CsSes!Init => CsSesInv
<1> SUFFICES ASSUME CsSes!Init PROVE CsSesInv
  OBVIOUS
<1>1. /\ posted = <<>> /\ list = <<>> /\ writing = <<>> /\ out = <<>>
      /\ co = [c \in CsSesName |-> [at |-> "new", op |-> "none"]]
  BY DEF CsSes!Init, CsSes!New, CsSes!Coro, CsSesName
<1>2. InOrder(<<>>, <<>>, <<>>, <<>>)
  BY DEF InOrder, Count
<1> QED BY <1>1, <1>2 DEF CsSesInv, CsSesTypes, CsSesCoro, CsSesName, CsSes!Awaits, CsSes!Suspended, CsSes!New, CsSes!Coro

LEMMA CsSesCancelled ==
  ASSUME NEW f \in [CsSesName -> CsSesCoro], NEW C
  PROVE  /\ CsSes!Cancelled(f, C) \in [CsSesName -> CsSesCoro]
         /\ \A c \in CsSesName :
              /\ CsSes!Cancelled(f, C)[c].at = f[c].at
              /\ CsSes!Cancelled(f, C)[c] = f[c] \/ (f[c].at \notin {"new", "end"} /\ CsSes!Cancelled(f, C)[c].op = "error")
BY DEF CsSes!Cancelled, CsSesCoro

\* How the sender's state may change while the messages stay where they are.
CsSesSender(f) ==
  \/ f["send"] = co["send"]
  \/ f["send"].at = co["send"].at /\ co["send"].at # "end" /\ f["send"].op = "error"
  \/ f["send"].at = "end" /\ f["send"].op = "none"
  \/ f["send"].at \in {"start", "beat"} /\ writing = <<>>
  \/ f["send"].at = "wait" /\ writing = <<>> /\ (list = <<>> \/ f["send"].op # "none")

CsSesOrder(f) == f["con"].at # "end" => f["send"] = CsSes!New

LEMMA CsSesQuiet ==
  ASSUME CsSesInv, co' \in [CsSesName -> CsSesCoro], UNCHANGED <<posted, list, writing, out>>,
         CsSesSender(co'), CsSesOrder(co')
  PROVE  CsSesInv'
<1>1. CsSes!Awaits(co', "send", "wait") => CsSes!Awaits(co, "send", "wait") \/ list = <<>>
  BY DEF CsSes!Awaits, CsSes!Suspended, CsSes!Coro, CsSesInv, CsSesTypes, CsSesCoro, CsSesSender, CsSesName
<1> QED BY <1>1 DEF CsSesInv, CsSesTypes, CsSes!Awaits, CsSesSender, CsSesOrder

\* Start, the cancellations of a stop, and the end of a coroutine.
LEMMA CsSesLeaves ==
  ASSUME CsSesInv, NEW c \in CsSesName, CsSes!Leaves(c), co[c].at # "new",
         c = "con" => co["send"].at = "new"
  PROVE  co' \in [CsSesName -> CsSesCoro] /\ CsSesSender(co') /\ CsSesOrder(co')
<1> DEFINE ended == [co EXCEPT ![c] = CsSes!Ended]
<1>0. co \in [CsSesName -> CsSesCoro]
  BY DEF CsSesInv, CsSesTypes
<1>1. CASE ~run
  BY <1>0, <1>1 DEF CsSes!Leaves, CsSes!Ended, CsSes!New, CsSes!Coro, CsSesInv, CsSesName, CsSesCoro, CsSesSender, CsSesOrder
<1>2. CASE run
  <2>1. PICK f \in [CsSesName -> CsSesCoro] :
            /\ co' = [f EXCEPT ![c] = CsSes!Ended]
            /\ \A x \in CsSesName : /\ f[x].at = co[x].at
                                    /\ f[x] = co[x] \/ (co[x].at \notin {"new", "end"} /\ f[x].op = "error")
    BY <1>0, <1>2, CsSesCancelled DEF CsSes!Leaves, CsSes!Aborted
  <2> QED BY <1>0, <2>1 DEF CsSes!Ended, CsSes!New, CsSes!Coro, CsSesInv, CsSesName, CsSesCoro, CsSesSender, CsSesOrder
<1> QED BY <1>1, <1>2

LEMMA CsSesStep ==
  ASSUME CsSesInv, CsSes!Next
  PROVE  CsSesInv'
<1>0. /\ co \in [CsSesName -> CsSesCoro]
      /\ posted \in Seq(Nat) /\ list \in Seq(Nat) /\ writing \in Seq(Nat) /\ out \in Seq(Nat)
      /\ InOrder(out, writing, list, posted)
  BY DEF CsSesInv, CsSesTypes
<1>c. \A at, op : CsSes!Coro(at, op).at = at /\ CsSes!Coro(at, op).op = op
  BY DEF CsSes!Coro
<1>d. /\ \A c, at : CsSes!Awaits(co, c, at) => co[c].at = at /\ co[c].op = "none"
      /\ \A at : CsSes!Suspended(at).at = at /\ CsSes!Suspended(at).op = "none"
      /\ CsSes!Spawned.at = "start" /\ CsSes!Ended.at = "end" /\ CsSes!Ended.op = "none"
      /\ CsSes!New.at = "new" /\ CsSes!New.op = "none"
  BY <1>c DEF CsSes!Awaits, CsSes!Suspended, CsSes!Spawned, CsSes!Ended, CsSes!New
<1>e. /\ \A at \in {"start", "connect", "wait", "beat", "write", "head", "body"} : CsSes!Suspended(at) \in CsSesCoro
      /\ CsSes!Spawned \in CsSesCoro /\ CsSes!Ended \in CsSesCoro
      /\ \A x \in CsSesCoro, op \in {"none", "ok", "error"} :
           [x EXCEPT !.op = op] \in CsSesCoro /\ [x EXCEPT !.op = op].at = x.at /\ [x EXCEPT !.op = op].op = op
  BY DEF CsSes!Suspended, CsSes!Spawned, CsSes!Ended, CsSes!Coro, CsSesCoro
<1>1. CASE CsSes!Start
  <2>1. co["con"].at = "new" /\ co' = [co EXCEPT !["con"] = CsSes!Spawned] /\ UNCHANGED <<posted, list, writing, out>>
    BY <1>1, <1>d DEF CsSes!Start, CsSes!data
  <2>2. co' \in [CsSesName -> CsSesCoro] /\ co'["con"].at = "start" /\ co'["send"] = co["send"]
    BY <1>0, <1>d, <1>e, <2>1 DEF CsSesName
  <2> QED BY <2>1, <2>2, CsSesQuiet DEF CsSesInv, CsSesSender, CsSesOrder
<1>2. CASE CsSes!SendMsg
  <2>1. posted' = Append(posted, CsSes!Calls + 1) /\ UNCHANGED <<co, list, writing, out>>
    BY <1>2 DEF CsSes!SendMsg
  <2>2. posted' \in Seq(Nat) /\ InOrder(out, writing, list, posted')
    BY <1>0, <2>1, InOrderMoves DEF CsSes!Calls
  <2> QED BY <2>1, <2>2 DEF CsSesInv, CsSesTypes, CsSes!Awaits
<1>3. CASE CsSes!Queue
  <2>1. posted # <<>> /\ posted' = Tail(posted) /\ list' = Append(list, Head(posted)) /\ co' = CsSes!Woken
        /\ UNCHANGED <<writing, out>>
    BY <1>3 DEF CsSes!Queue
  <2>2. posted' \in Seq(Nat) /\ list' \in Seq(Nat) /\ InOrder(out, writing, list', posted')
    BY <1>0, <2>1, InOrderMoves
  <2>3. /\ co' \in [CsSesName -> CsSesCoro] /\ co'["con"].at = co["con"].at /\ co'["send"].at = co["send"].at
        /\ co'["send"] = co["send"] \/ (co["send"].at = "wait" /\ co'["send"].op = "error")
        /\ co["send"].at = "wait" => co'["send"].op # "none"
    BY <1>0, <2>1 DEF CsSes!Woken, CsSes!Cancelled, CsSesName, CsSesCoro
  <2>4. ~CsSes!Awaits(co', "send", "wait")
    BY <1>c, <2>3 DEF CsSes!Awaits, CsSes!Suspended
  <2>5. co["send"].at # "wait" => co'["send"] = co["send"]
    BY <2>1 DEF CsSes!Woken
  <2> QED BY <1>d, <2>1, <2>2, <2>3, <2>4, <2>5 DEF CsSesInv, CsSesTypes
<1>4. CASE CsSes!StopCall \/ CsSes!StopHandler
  <2>1. UNCHANGED <<posted, list, writing, out>>
    BY <1>4 DEF CsSes!StopCall, CsSes!StopHandler, CsSes!data
  <2>2. co' = co \/ \E C : co' = CsSes!Cancelled(co, C)
    BY <1>4 DEF CsSes!StopCall, CsSes!StopHandler, CsSes!Aborted
  <2>3. /\ co' \in [CsSesName -> CsSesCoro] /\ co'["con"].at = co["con"].at /\ co'["send"].at = co["send"].at
        /\ co'["send"] = co["send"] \/ (co["send"].at \notin {"new", "end"} /\ co'["send"].op = "error")
    BY <1>0, <2>2, CsSesCancelled DEF CsSesName
  <2> QED BY <1>d, <2>1, <2>3, CsSesQuiet DEF CsSesInv, CsSesSender, CsSesOrder
<1>5. CASE CsSes!Connects
  <2>1. UNCHANGED <<posted, list, writing, out>>
    BY <1>5 DEF CsSes!Connects, CsSes!Leaves, CsSes!data
  <2>2. co["con"].op # "none" /\ co["con"].at \in {"start", "connect"}
    BY <1>5, <1>c DEF CsSes!Connects, CsSes!Resumes
  <2>3. co["send"].at = "new" /\ writing = <<>>
    BY <1>d, <2>2 DEF CsSesInv
  <2>4. CASE co' = CsSes!Goes(co, "con", "connect")
    <3>1. co' = [co EXCEPT !["con"] = CsSes!Suspended("connect")]
      BY <2>4 DEF CsSes!Goes
    <3>2. co' \in [CsSesName -> CsSesCoro] /\ co'["send"] = co["send"] /\ co["con"].at # "end"
      BY <1>0, <1>e, <2>2, <3>1 DEF CsSesName
    <3> QED BY <2>1, <3>2, CsSesQuiet DEF CsSesInv, CsSesSender, CsSesOrder
  <2>5. CASE co' = [con |-> CsSes!Ended, send |-> CsSes!Spawned, recv |-> CsSes!Spawned]
    <3>1. co' = [c \in CsSesName |-> IF c = "con" THEN CsSes!Ended ELSE CsSes!Spawned]
      BY <2>5 DEF CsSesName
    <3>2. co' \in [CsSesName -> CsSesCoro] /\ co'["con"].at = "end" /\ co'["send"].at = "start"
      BY <1>d, <1>e, <3>1 DEF CsSesName
    <3> QED BY <2>1, <2>3, <3>2, CsSesQuiet DEF CsSesSender, CsSesOrder
  <2>6. CASE CsSes!Leaves("con")
    <3>1. "con" \in CsSesName /\ co["con"].at # "new"
      BY <2>2 DEF CsSesName
    <3> QED BY <2>1, <2>3, <2>6, <3>1, CsSesLeaves, CsSesQuiet
  <2> QED BY <1>5, <2>4, <2>5, <2>6 DEF CsSes!Connects
<1>6. CASE CsSes!Receives
  <2>1. UNCHANGED <<posted, list, writing, out>>
    BY <1>6 DEF CsSes!Receives, CsSes!RecvGoesOn, CsSes!RecvLeaves, CsSes!Leaves, CsSes!data
  <2>2. CASE CsSes!RecvGoesOn
    <3>1. \E at \in {"head", "body"} : co' = [co EXCEPT !["recv"] = CsSes!Suspended(at)]
      BY <2>2 DEF CsSes!RecvGoesOn, CsSes!Goes
    <3>2. co' \in [CsSesName -> CsSesCoro] /\ co'["con"] = co["con"] /\ co'["send"] = co["send"]
      BY <1>0, <1>e, <3>1 DEF CsSesName
    <3> QED BY <2>1, <3>2, CsSesQuiet DEF CsSesInv, CsSesSender, CsSesOrder
  <2>3. CASE CsSes!RecvLeaves
    <3>1. CsSes!Leaves("recv") /\ "recv" \in CsSesName
      BY <2>3 DEF CsSes!RecvLeaves, CsSesName
    <3>2. CASE co["recv"].at # "new"
      BY <2>1, <3>1, <3>2, CsSesLeaves, CsSesQuiet
    <3>3. CASE co["recv"].at = "new"
      <4>1. PICK f \in [CsSesName -> CsSesCoro] :
                /\ co' = [f EXCEPT !["recv"] = CsSes!Ended]
                /\ \A x \in CsSesName : /\ f[x].at = co[x].at
                                        /\ f[x] = co[x] \/ (co[x].at \notin {"new", "end"} /\ f[x].op = "error")
        BY <1>0, <3>1, CsSesCancelled DEF CsSes!Leaves, CsSes!Aborted
      <4>2. /\ co' \in [CsSesName -> CsSesCoro] /\ co'["con"].at = co["con"].at /\ co'["send"].at = co["send"].at
            /\ co'["send"] = co["send"] \/ (co["send"].at \notin {"new", "end"} /\ co'["send"].op = "error")
        BY <1>0, <1>e, <4>1 DEF CsSesName
      <4> QED BY <1>d, <2>1, <4>2, CsSesQuiet DEF CsSesInv, CsSesSender, CsSesOrder
    <3> QED BY <3>2, <3>3
  <2> QED BY <1>6, <2>2, <2>3 DEF CsSes!Receives
<1>7. CASE CsSes!SendWrites \/ CsSes!SendWaits
  <2>1. co["send"].at \notin {"new", "end"} /\ (co["send"].at = "write" => co["send"].op = "ok")
    BY <1>7, <1>c DEF CsSes!SendWrites, CsSes!SendWaits, CsSes!SenderLooks
  <2>2. writing = <<>> /\ co["con"].at = "end"
    BY <1>d, <2>1 DEF CsSesInv
  <2>3. CASE CsSes!SendWrites
    <3>1. writing' = list /\ list' = <<>> /\ co' = [co EXCEPT !["send"] = CsSes!Suspended("write")] /\ UNCHANGED <<posted, out>>
      BY <2>3 DEF CsSes!SendWrites, CsSes!Swapped, CsSes!Goes
    <3>2. InOrder(out, writing', list', posted) /\ list' \in Seq(Nat)
      BY <1>0, <2>2, <3>1, InOrderMoves
    <3>3. co' \in [CsSesName -> CsSesCoro] /\ co'["con"] = co["con"] /\ co'["send"] = CsSes!Suspended("write")
      BY <1>0, <1>e, <3>1 DEF CsSesName
    <3> QED BY <1>0, <1>d, <2>2, <3>1, <3>2, <3>3 DEF CsSesInv, CsSesTypes
  <2>4. CASE CsSes!SendWaits
    <3>1. list = <<>> /\ co' = [co EXCEPT !["send"] = CsSes!Suspended("wait")] /\ UNCHANGED <<posted, list, writing, out>>
      BY <2>4 DEF CsSes!SendWaits, CsSes!Goes, CsSes!data
    <3>2. co' \in [CsSesName -> CsSesCoro] /\ co'["con"] = co["con"] /\ co'["send"] = CsSes!Suspended("wait")
      BY <1>0, <1>e, <3>1 DEF CsSesName
    <3> QED BY <1>d, <2>2, <3>1, <3>2, CsSesQuiet DEF CsSesSender, CsSesOrder
  <2> QED BY <1>7, <2>3, <2>4
<1>8. CASE CsSes!SendBeats
  <2>1. /\ co["send"].at = "wait" /\ co' = [co EXCEPT !["send"] = CsSes!Suspended("beat")]
        /\ UNCHANGED <<posted, list, writing, out>>
    BY <1>8, <1>c DEF CsSes!SendBeats, CsSes!Goes, CsSes!data
  <2>2. co' \in [CsSesName -> CsSesCoro] /\ co'["con"] = co["con"] /\ co'["send"] = CsSes!Suspended("beat")
    BY <1>0, <1>e, <2>1 DEF CsSesName
  <2>3. writing = <<>> /\ co["con"].at = "end"
    BY <1>d, <2>1 DEF CsSesInv
  <2> QED BY <1>d, <2>1, <2>2, <2>3, CsSesQuiet DEF CsSesSender, CsSesOrder
<1>9. CASE CsSes!SendLeaves
  <2>1. CsSes!Leaves("send") /\ co["send"].op # "none" /\ UNCHANGED <<posted, list, writing, out>>
    BY <1>9 DEF CsSes!SendLeaves, CsSes!Resumes, CsSes!Leaves, CsSes!data
  <2>2. co' = [co EXCEPT !["send"] = CsSes!Ended] \/ co' = [CsSes!Aborted EXCEPT !["send"] = CsSes!Ended]
    BY <2>1 DEF CsSes!Leaves
  <2>3. /\ co' \in [CsSesName -> CsSesCoro] /\ co'["con"].at = co["con"].at
        /\ co'["send"].at = "end" /\ co'["send"].op = "none"
    <3>1. CsSes!Aborted \in [CsSesName -> CsSesCoro] /\ CsSes!Aborted["con"].at = co["con"].at
      BY <1>0, CsSesCancelled DEF CsSes!Aborted, CsSesName
    <3>2. CASE co' = [co EXCEPT !["send"] = CsSes!Ended]
      BY <1>0, <1>d, <1>e, <3>2 DEF CsSesName
    <3>3. CASE co' = [CsSes!Aborted EXCEPT !["send"] = CsSes!Ended]
      BY <1>d, <1>e, <3>1, <3>3 DEF CsSesName
    <3> QED BY <2>2, <3>2, <3>3
  <2>4. co["con"].at = "end"
    BY <1>d, <2>1 DEF CsSesInv
  <2> QED BY <2>1, <2>3, <2>4, CsSesQuiet DEF CsSesSender, CsSesOrder
<1>10. CASE CsSes!ConnectDone \/ CsSes!ReadDone
  <2>1. UNCHANGED <<posted, list, writing, out>>
    BY <1>10 DEF CsSes!ConnectDone, CsSes!ReadDone, CsSes!data
  <2>2. \E c \in {"con", "recv"}, op \in {"ok", "error"} : co' = [co EXCEPT ![c].op = op]
    BY <1>10 DEF CsSes!ConnectDone, CsSes!ReadDone, CsSes!Outcomes
  <2>3. PICK c \in {"con", "recv"}, op \in {"ok", "error"} : co' = [co EXCEPT ![c] = [co[c] EXCEPT !.op = op]]
    BY <2>2
  <2>4. co' \in [CsSesName -> CsSesCoro] /\ co'["con"].at = co["con"].at /\ co'["send"] = co["send"]
    <3>1. c \in CsSesName /\ c # "send" /\ co[c] \in CsSesCoro /\ op \in {"none", "ok", "error"}
      BY <1>0 DEF CsSesName
    <3>2. [co[c] EXCEPT !.op = op] \in CsSesCoro /\ [co[c] EXCEPT !.op = op].at = co[c].at
      BY <1>e, <3>1
    <3> QED BY <1>0, <2>3, <3>1, <3>2 DEF CsSesName
  <2> QED BY <2>1, <2>4, CsSesQuiet DEF CsSesInv, CsSesSender, CsSesOrder
<1>11. CASE CsSes!WriteDone
  <2>1. co["send"].at \in {"write", "beat"} /\ co["send"].op = "none" /\ UNCHANGED <<posted, list>>
    BY <1>11, <1>d DEF CsSes!WriteDone
  <2>2. PICK op \in {"ok", "error"} :
            /\ co' = [co EXCEPT !["send"] = [co["send"] EXCEPT !.op = op]]
            /\ IF op = "ok" THEN out' = out \o writing /\ writing' = <<>> ELSE UNCHANGED <<out, writing>>
    BY <1>11 DEF CsSes!WriteDone, CsSes!Outcomes
  <2>3. /\ co' \in [CsSesName -> CsSesCoro] /\ co'["con"] = co["con"]
        /\ co'["send"].at = co["send"].at /\ co'["send"].op = op
    <3>1. "send" \in CsSesName /\ co["send"] \in CsSesCoro /\ op \in {"none", "ok", "error"}
      BY <1>0 DEF CsSesName
    <3>2. /\ [co["send"] EXCEPT !.op = op] \in CsSesCoro /\ [co["send"] EXCEPT !.op = op].at = co["send"].at
          /\ [co["send"] EXCEPT !.op = op].op = op
      BY <3>1 DEF CsSesCoro
    <3> QED BY <1>0, <2>2, <3>1, <3>2 DEF CsSesName
  <2>4. out' \in Seq(Nat) /\ writing' \in Seq(Nat) /\ InOrder(out', writing', list, posted)
    <3>1. out \o writing \in Seq(Nat) /\ InOrder(out \o writing, <<>>, list, posted) /\ <<>> \in Seq(Nat)
      BY <1>0, InOrderMoves
    <3>2. (out' = out \o writing /\ writing' = <<>>) \/ (out' = out /\ writing' = writing)
      BY <2>2
    <3>3. CASE out' = out \o writing /\ writing' = <<>>
      BY <3>1, <3>3
    <3>4. CASE out' = out /\ writing' = writing
      BY <1>0, <3>4
    <3> QED BY <3>2, <3>3, <3>4
  <2>5. ~CsSes!Awaits(co', "send", "wait")
    BY <1>c, <2>1, <2>3 DEF CsSes!Awaits, CsSes!Suspended
  <2>6. writing' # <<>> => co'["send"].at = "write" /\ co'["send"].op # "ok"
    BY <2>1, <2>2, <2>3 DEF CsSesInv
  <2>7. co["send"] # CsSes!New /\ co["con"].at = "end"
    BY <1>d, <2>1 DEF CsSesInv
  <2> QED BY <1>0, <2>1, <2>3, <2>4, <2>5, <2>6, <2>7 DEF CsSesInv, CsSesTypes
<1>12. CASE CsSes!HeartBeatDue
  <2>1. /\ co["send"].at = "wait" /\ UNCHANGED <<posted, list, writing, out>>
        /\ co' = [co EXCEPT !["send"] = [co["send"] EXCEPT !.op = "ok"]]
    BY <1>12, <1>d DEF CsSes!HeartBeatDue, CsSes!data
  <2>2. /\ co' \in [CsSesName -> CsSesCoro] /\ co'["con"] = co["con"]
        /\ co'["send"].at = "wait" /\ co'["send"].op = "ok"
    BY <1>0, <1>e, <2>1 DEF CsSesName
  <2>3. writing = <<>> /\ co["con"].at = "end"
    BY <1>d, <2>1 DEF CsSesInv
  <2> QED BY <2>1, <2>2, <2>3, CsSesQuiet DEF CsSesSender, CsSesOrder
<1> QED
  BY <1>1, <1>2, <1>3, <1>4, <1>5, <1>6, <1>7, <1>8, <1>9, <1>10, <1>11, <1>12 DEF CsSes!Next, CsSes!Sends

LEMMA CsSesHolds == CsSesInv => CsSes!NothingLost
BY DEF CsSesInv, CsSes!NothingLost, CsSes!Calls, InOrder, Count

-----------------------------------------------------------------------------
(***************************************************************************)
(* The log client's session: its one coroutine.                            *)
(***************************************************************************)
LogSesCoro == [at : {"new", "start", "connect", "wait", "write", "end"}, op : {"none", "ok", "error"}]

LogSesInv ==
  /\ co \in [{"timer"} -> LogSesCoro]
  /\ posted \in Seq(Nat) /\ list \in Seq(Nat) /\ writing \in Seq(Nat) /\ out \in Seq(Nat)
  /\ InOrder(out, writing, list, posted)
  /\ writing # <<>> => (co["timer"].at = "write" /\ co["timer"].op # "ok") \/ co["timer"].at = "end"
  /\ co["timer"].at = "end" => co["timer"].op = "none"

LEMMA LogSesInit == LogSes!Init => LogSesInv
<1> SUFFICES ASSUME LogSes!Init PROVE LogSesInv
  OBVIOUS
<1>1. /\ posted = <<>> /\ list = <<>> /\ writing = <<>> /\ out = <<>>
      /\ co = [c \in {"timer"} |-> [at |-> "new", op |-> "none"]]
  BY DEF LogSes!Init, LogSes!New, LogSes!Coro
<1>2. InOrder(<<>>, <<>>, <<>>, <<>>)
  BY DEF InOrder, Count
<1> QED BY <1>1, <1>2 DEF LogSesInv, LogSesCoro

\* How the coroutine may go on while the logs stay where they are.
LogSesGoesOn(x) ==
  \/ x = co["timer"]
  \/ x.at = co["timer"].at /\ co["timer"].at # "end" /\ x.op = "error"
  \/ x.at = "end" /\ x.op = "none"
  \/ x.at # "end" /\ writing = <<>>

LEMMA LogSesQuiet ==
  ASSUME LogSesInv, NEW x \in LogSesCoro, co' = [co EXCEPT !["timer"] = x], LogSesGoesOn(x),
         UNCHANGED <<posted, list, writing, out>>
  PROVE  LogSesInv'
<1>1. co' \in [{"timer"} -> LogSesCoro] /\ co'["timer"] = x
  BY DEF LogSesInv
<1> QED BY <1>1 DEF LogSesInv, LogSesGoesOn

LEMMA LogSesStep ==
  ASSUME LogSesInv, LogSes!Next
  PROVE  LogSesInv'
<1>0. /\ co \in [{"timer"} -> LogSesCoro] /\ co["timer"] \in LogSesCoro
      /\ posted \in Seq(Nat) /\ list \in Seq(Nat) /\ writing \in Seq(Nat) /\ out \in Seq(Nat)
      /\ InOrder(out, writing, list, posted)
  BY DEF LogSesInv
<1>c. \A at, op : LogSes!Coro(at, op).at = at /\ LogSes!Coro(at, op).op = op
  BY DEF LogSes!Coro
<1>d. /\ \A at : LogSes!Awaits(co, "timer", at) => co["timer"].at = at /\ co["timer"].op = "none"
      /\ LogSes!Spawned.at = "start" /\ LogSes!Ended.at = "end" /\ LogSes!Ended.op = "none" /\ LogSes!New.at = "new"
      /\ \A at : LogSes!Suspended(at).at = at /\ LogSes!Suspended(at).op = "none"
  BY <1>c DEF LogSes!Awaits, LogSes!Suspended, LogSes!Spawned, LogSes!Ended, LogSes!New
<1>e. /\ \A at \in {"connect", "wait", "write"} : LogSes!Suspended(at) \in LogSesCoro
      /\ LogSes!Spawned \in LogSesCoro /\ LogSes!Ended \in LogSesCoro
  BY DEF LogSes!Suspended, LogSes!Spawned, LogSes!Ended, LogSes!Coro, LogSesCoro
\* A coroutine whose outcome is known, or which has not run, writes nothing.
<1>w. co["timer"].op = "ok" \/ co["timer"].at \notin {"write", "end"} => writing = <<>>
  BY DEF LogSesInv
<1>1. CASE LogSes!Start
  <2>1. /\ co["timer"].at = "new" /\ co' = [co EXCEPT !["timer"] = LogSes!Spawned]
        /\ UNCHANGED <<posted, list, writing, out>>
    BY <1>1, <1>d DEF LogSes!Start, LogSes!logs
  <2>2. LogSesGoesOn(LogSes!Spawned)
    BY <1>d, <1>w, <2>1 DEF LogSesGoesOn
  <2> QED BY <1>e, <2>1, <2>2, LogSesQuiet
<1>2. CASE LogSes!LogToSvr
  <2>1. posted' = Append(posted, LogSes!Calls + 1) /\ UNCHANGED <<co, list, writing, out>>
    BY <1>2 DEF LogSes!LogToSvr
  <2>2. posted' \in Seq(Nat) /\ InOrder(out, writing, list, posted')
    BY <1>0, <2>1, InOrderMoves DEF LogSes!Calls
  <2> QED BY <2>1, <2>2 DEF LogSesInv
<1>3. CASE LogSes!Queue
  <2>1. posted # <<>> /\ posted' = Tail(posted) /\ list' = Append(list, Head(posted)) /\ UNCHANGED <<co, writing, out>>
    BY <1>3 DEF LogSes!Queue
  <2>2. posted' \in Seq(Nat) /\ list' \in Seq(Nat) /\ InOrder(out, writing, list', posted')
    BY <1>0, <2>1, InOrderMoves
  <2> QED BY <2>1, <2>2 DEF LogSesInv
<1>4. CASE LogSes!StopCall
  BY <1>4 DEF LogSes!StopCall, LogSes!logs, LogSesInv
<1>5. CASE LogSes!StopHandler
  <2>1. co' = LogSes!Cancelled(co, {"timer"}) /\ UNCHANGED <<posted, list, writing, out>>
    BY <1>5 DEF LogSes!StopHandler, LogSes!logs
  <2>2. \/ co' = co
        \/ co["timer"].at # "end" /\ co' = [co EXCEPT !["timer"] = [co["timer"] EXCEPT !.op = "error"]]
    BY <1>0, <2>1 DEF LogSes!Cancelled
  <2>3. CASE co' = co
    BY <2>1, <2>3 DEF LogSesInv
  <2>4. CASE co["timer"].at # "end" /\ co' = [co EXCEPT !["timer"] = [co["timer"] EXCEPT !.op = "error"]]
    <3>1. [co["timer"] EXCEPT !.op = "error"] \in LogSesCoro /\ LogSesGoesOn([co["timer"] EXCEPT !.op = "error"])
      BY <1>0, <2>4 DEF LogSesCoro, LogSesGoesOn
    <3> QED BY <2>1, <2>4, <3>1, LogSesQuiet
  <2> QED BY <2>2, <2>3, <2>4
<1>6. CASE LogSes!Connects
  <2>1. co["timer"].at = "start" /\ co' = [co EXCEPT !["timer"] = LogSes!Suspended("connect")]
        /\ UNCHANGED <<posted, list, writing, out>>
    BY <1>6, <1>d DEF LogSes!Connects, LogSes!Goes, LogSes!logs
  <2>2. LogSesGoesOn(LogSes!Suspended("connect"))
    BY <1>d, <1>w, <2>1 DEF LogSesGoesOn
  <2> QED BY <1>e, <2>1, <2>2, LogSesQuiet
<1>7. CASE LogSes!Rests
  <2>1. co["timer"].op = "ok" /\ co' = [co EXCEPT !["timer"] = LogSes!Suspended("wait")]
        /\ UNCHANGED <<posted, list, writing, out>>
    BY <1>7 DEF LogSes!Rests, LogSes!Goes, LogSes!logs
  <2>2. LogSesGoesOn(LogSes!Suspended("wait"))
    BY <1>d, <1>w, <2>1 DEF LogSesGoesOn
  <2> QED BY <1>e, <2>1, <2>2, LogSesQuiet
<1>8. CASE LogSes!Writes
  <2>1. /\ co["timer"].op = "ok" /\ co' = [co EXCEPT !["timer"] = LogSes!Suspended("write")]
        /\ writing' = list /\ list' = <<>> /\ UNCHANGED <<posted, out>>
    BY <1>8, <1>c DEF LogSes!Writes, LogSes!Swapped, LogSes!Goes
  <2>2. InOrder(out, writing', list', posted) /\ list' \in Seq(Nat)
    BY <1>0, <1>w, <2>1, InOrderMoves
  <2>3. co' \in [{"timer"} -> LogSesCoro] /\ co'["timer"] = LogSes!Suspended("write")
    BY <1>0, <1>e, <2>1
  <2> QED BY <1>0, <1>d, <2>1, <2>2, <2>3 DEF LogSesInv
<1>9. CASE LogSes!Leaves
  <2>1. co' = [co EXCEPT !["timer"] = LogSes!Ended] /\ UNCHANGED <<posted, list, writing, out>>
    BY <1>9 DEF LogSes!Leaves, LogSes!logs
  <2>2. LogSesGoesOn(LogSes!Ended)
    BY <1>d DEF LogSesGoesOn
  <2> QED BY <1>e, <2>1, <2>2, LogSesQuiet
<1>10. CASE LogSes!IoDone
  <2>1. PICK at \in {"connect", "write"}, op \in {"ok", "error"} :
            /\ LogSes!Awaits(co, "timer", at)
            /\ co' = [co EXCEPT !["timer"] = [co["timer"] EXCEPT !.op = op]]
            /\ IF at = "write" /\ op = "ok" THEN out' = out \o writing /\ writing' = <<>>
               ELSE UNCHANGED <<out, writing>>
    BY <1>10 DEF LogSes!IoDone
  <2>2. UNCHANGED <<posted, list>> /\ co["timer"].at = at /\ co["timer"].op = "none"
    BY <1>10, <1>d, <2>1 DEF LogSes!IoDone
  <2>3. /\ co' \in [{"timer"} -> LogSesCoro] /\ co'["timer"].at = at /\ co'["timer"].op = op
    <3>1. [co["timer"] EXCEPT !.op = op] \in LogSesCoro /\ [co["timer"] EXCEPT !.op = op].at = at
          /\ [co["timer"] EXCEPT !.op = op].op = op
      BY <1>0, <2>2 DEF LogSesCoro
    <3> QED BY <1>0, <2>1, <3>1
  <2>4. CASE at = "write" /\ op = "ok"
    <3>1. out' = out \o writing /\ writing' = <<>>
      BY <2>1, <2>4
    <3>2. out' \in Seq(Nat) /\ writing' \in Seq(Nat) /\ InOrder(out', writing', list, posted)
      BY <1>0, <3>1, InOrderMoves
    <3> QED BY <1>0, <2>2, <2>3, <2>4, <3>1, <3>2 DEF LogSesInv
  <2>5. CASE ~(at = "write" /\ op = "ok")
    <3>1. UNCHANGED <<out, writing>> /\ (at = "write" => op # "ok")
      BY <2>1, <2>5
    <3>2. writing # <<>> => at = "write"
      BY <1>w, <2>2
    <3> QED BY <1>0, <2>2, <2>3, <3>1, <3>2 DEF LogSesInv
  <2> QED BY <2>4, <2>5
<1>11. CASE LogSes!TimerFires
  <2>1. /\ co["timer"].at = "wait" /\ UNCHANGED <<posted, list, writing, out>>
        /\ co' = [co EXCEPT !["timer"] = [co["timer"] EXCEPT !.op = "ok"]]
    BY <1>11, <1>d DEF LogSes!TimerFires, LogSes!logs
  <2>2. [co["timer"] EXCEPT !.op = "ok"] \in LogSesCoro /\ LogSesGoesOn([co["timer"] EXCEPT !.op = "ok"])
    BY <1>0, <1>w, <2>1 DEF LogSesCoro, LogSesGoesOn
  <2> QED BY <2>1, <2>2, LogSesQuiet
<1> QED
  BY <1>1, <1>2, <1>3, <1>4, <1>5, <1>6, <1>7, <1>8, <1>9, <1>10, <1>11 DEF LogSes!Next, LogSes!Ticks

LEMMA LogSesHolds == LogSesInv => LogSes!LogsInOrder
BY DEF LogSesInv, LogSes!LogsInOrder, LogSes!Calls, InOrder, Count

-----------------------------------------------------------------------------
(***************************************************************************)
(* The pool of clients.  An endpoint is its own hash.                      *)
(***************************************************************************)
PoolTypes ==
  /\ run \in BOOLEAN /\ due \in BOOLEAN
  /\ made \in 0..MaxMade
  /\ map \in [Endpoint -> 0..MaxMade]
  /\ IsFiniteSet(Pool!Used(map)) /\ Cardinality(Pool!Used(map)) <= MaxClient
  /\ crun \in [Pool!Client -> BOOLEAN]
  /\ DOMAIN addr = Pool!Client
  /\ DOMAIN got = {"ep", "client"} /\ got.client \in 0..MaxMade

\* A running client is in the map, under the address it was made for; no
\* client has two entries.
PoolInv ==
  /\ PoolTypes
  /\ \A e \in Endpoint : map[e] <= made /\ (map[e] # 0 => addr[map[e]] = e)
  /\ \A c \in Pool!Client : crun[c] => \E e \in Endpoint : map[e] = c
  /\ ~run /\ ~due => \A c \in Pool!Client : ~crun[c]
  /\ got.client # 0 => got.client <= made /\ addr[got.client] = got.ep

LEMMA PoolCardinality == \A S : Pool!Cardinality(S) = Cardinality(S)
BY Zenon DEF Pool!Cardinality, Cardinality

LEMMA PoolHash ==
  /\ Pool!Hash = Endpoint
  /\ \A e \in Endpoint : EndpointHash[e] = e
  /\ \A mp : Pool!Used(mp) = {e \in Endpoint : mp[e] # 0}
  /\ Pool!Client = 1..MaxMade /\ MaxMade \in Nat /\ MaxClient \in Nat
BY ClientsAssumption DEF Pool!Hash, EndpointHash, Pool!Used, Pool!NoClient, Pool!Client

LEMMA PoolInit == Pool!Init => PoolInv
<1> SUFFICES ASSUME Pool!Init PROVE PoolInv
  OBVIOUS
<1>1. /\ run = TRUE /\ due = FALSE /\ made = 0
      /\ map = [h \in Endpoint |-> 0]
      /\ crun = [c \in Pool!Client |-> FALSE]
      /\ DOMAIN addr = Pool!Client
      /\ DOMAIN got = {"ep", "client"} /\ got.client = 0
  BY PoolHash DEF Pool!Init, Pool!NoClient
<1>2. Pool!Used(map) = {}
  BY <1>1, PoolHash
<1>3. IsFiniteSet(Pool!Used(map)) /\ Cardinality(Pool!Used(map)) <= MaxClient
  BY <1>2, PoolHash, FS_EmptySet
<1>4. PoolTypes
  <2>1. crun \in [Pool!Client -> BOOLEAN]
    BY <1>1
  <2>2. 0 \in 0..MaxMade /\ map \in [Endpoint -> 0..MaxMade]
    BY <1>1, PoolHash
  <2> QED BY <1>1, <1>3, <2>1, <2>2 DEF PoolTypes
<1>5. \A c \in Pool!Client : ~crun[c]
  BY <1>1
<1> QED BY <1>1, <1>4, <1>5 DEF PoolInv

\* What is kept of the map to make room for the client at h.
LEMMA PoolRoom ==
  ASSUME PoolInv, NEW h \in Endpoint, run => ~Pool!Usable(h)
  PROVE  /\ Pool!Room(h) \in [Endpoint -> 0..MaxMade] /\ Pool!Room(h)[h] = 0
         /\ \A e \in Endpoint : Pool!Room(h)[e] = 0 \/ Pool!Room(h)[e] = map[e]
         /\ run => \A e \in Endpoint : map[e] # 0 /\ crun[map[e]] => Pool!Room(h)[e] = map[e]
         /\ IsFiniteSet(Pool!Used(Pool!Room(h))) /\ Cardinality(Pool!Used(Pool!Room(h))) \in Nat
         /\ Cardinality(Pool!Used(Pool!Room(h))) <= MaxClient
         /\ ~Pool!Full(Pool!Room(h)) => Cardinality(Pool!Used(Pool!Room(h))) < MaxClient
<1> DEFINE room == Pool!Room(h)
<1>1. room = [k \in Endpoint |-> IF k # h /\ (~Pool!Full(Pool!Without(h)) \/ Pool!Usable(k)) THEN map[k] ELSE 0]
  BY PoolHash DEF Pool!Room, Pool!NoClient
<1>2. /\ room \in [Endpoint -> 0..MaxMade] /\ room[h] = 0
      /\ \A e \in Endpoint : room[e] = 0 \/ room[e] = map[e]
  BY <1>1, PoolHash DEF PoolInv, PoolTypes
<1>3. run => \A e \in Endpoint : map[e] # 0 /\ crun[map[e]] => room[e] = map[e]
  BY <1>1 DEF Pool!Usable, Pool!NoClient
<1>4. Pool!Used(room) \subseteq Pool!Used(map)
  BY <1>2, PoolHash
<1>5. /\ IsFiniteSet(Pool!Used(map)) /\ Cardinality(Pool!Used(map)) \in Nat
      /\ Cardinality(Pool!Used(map)) <= MaxClient
  BY FS_CardinalityType DEF PoolInv, PoolTypes
<1>6. /\ IsFiniteSet(Pool!Used(room)) /\ Cardinality(Pool!Used(room)) \in Nat
      /\ Cardinality(Pool!Used(room)) <= Cardinality(Pool!Used(map))
  BY <1>4, <1>5, FS_Subset, FS_CardinalityType
<1>7. Cardinality(Pool!Used(room)) <= MaxClient
  BY <1>5, <1>6, PoolHash
<1>8. ~Pool!Full(room) => Cardinality(Pool!Used(room)) < MaxClient
  BY <1>6, PoolHash, PoolCardinality DEF Pool!Full
<1> QED BY <1>2, <1>3, <1>6, <1>7, <1>8

LEMMA PoolStep ==
  ASSUME PoolInv, Pool!Next
  PROVE  PoolInv'
<1>0. /\ PoolTypes /\ Pool!Client = 1..MaxMade /\ MaxMade \in Nat
      /\ made \in 0..MaxMade /\ map \in [Endpoint -> 0..MaxMade] /\ crun \in [Pool!Client -> BOOLEAN]
      /\ DOMAIN addr = Pool!Client
  BY PoolHash DEF PoolInv, PoolTypes
<1>1. ASSUME NEW e \in Endpoint, Pool!GetClient(e), UNCHANGED <<run, due>> PROVE PoolInv'
  <2>h. EndpointHash[e] = e
    BY PoolHash
  <2>1. CASE /\ run /\ Pool!Usable(e)
             /\ got' = [ep |-> e, client |-> map[e]] /\ UNCHANGED <<map, made, crun, addr>>
    <3>1. map[e] # 0 /\ map[e] \in 0..MaxMade /\ map[e] <= made /\ addr[map[e]] = e
      BY <1>0, <2>1 DEF Pool!Usable, Pool!NoClient, PoolInv
    <3>2. got'.client = map[e] /\ got'.ep = e /\ DOMAIN got' = {"ep", "client"}
      BY <2>1
    <3>3. PoolTypes'
      BY <1>0, <1>1, <2>1, <3>1, <3>2 DEF PoolTypes, Pool!Used
    <3> QED BY <1>1, <2>1, <3>1, <3>2, <3>3 DEF PoolInv
  <2>2. CASE /\ run /\ ~Pool!Usable(e) /\ ~Pool!Full(Pool!Room(e)) /\ made < MaxMade
             /\ made' = made + 1
             /\ crun' = [crun EXCEPT ![made'] = TRUE] /\ addr' = [addr EXCEPT ![made'] = e]
             /\ map' = [Pool!Room(e) EXCEPT ![e] = made']
             /\ got' = [ep |-> e, client |-> made']
    <3> DEFINE room == Pool!Room(e)
    <3>1. /\ room \in [Endpoint -> 0..MaxMade] /\ room[e] = 0
          /\ \A k \in Endpoint : room[k] = 0 \/ room[k] = map[k]
          /\ \A k \in Endpoint : map[k] # 0 /\ crun[map[k]] => room[k] = map[k]
          /\ IsFiniteSet(Pool!Used(room)) /\ Cardinality(Pool!Used(room)) \in Nat
          /\ Cardinality(Pool!Used(room)) < MaxClient
      BY <2>2, PoolRoom
    <3>2. made' \in 1..MaxMade
      BY <1>0, <2>2
    <3>3. /\ map' \in [Endpoint -> 0..MaxMade] /\ map'[e] = made'
          /\ \A k \in Endpoint : k # e => map'[k] = room[k]
      BY <2>2, <3>1, <3>2
    <3>4. Pool!Used(map') = Pool!Used(room) \cup {e} /\ e \notin Pool!Used(room)
      BY <3>1, <3>2, <3>3, PoolHash
    <3>5. IsFiniteSet(Pool!Used(map')) /\ Cardinality(Pool!Used(map')) <= MaxClient
      <4>1. Cardinality(Pool!Used(map')) = Cardinality(Pool!Used(room)) + 1 /\ IsFiniteSet(Pool!Used(map'))
        BY <3>1, <3>4, FS_AddElement
      <4> QED BY <3>1, <4>1, PoolHash
    <3>6. /\ crun' \in [Pool!Client -> BOOLEAN] /\ DOMAIN addr' = Pool!Client
          /\ addr'[made'] = e /\ \A c \in Pool!Client : c # made' => addr'[c] = addr[c] /\ crun'[c] = crun[c]
      BY <1>0, <2>2, <3>2
    <3>7. got'.client = made' /\ got'.ep = e /\ DOMAIN got' = {"ep", "client"}
      BY <2>2
    <3>8. PoolTypes'
      BY <1>0, <1>1, <3>2, <3>3, <3>5, <3>6, <3>7 DEF PoolTypes
    <3>9. \A k \in Endpoint : map'[k] <= made' /\ (map'[k] # 0 => addr'[map'[k]] = k)
      <4> SUFFICES ASSUME NEW k \in Endpoint, k # e, map'[k] # 0
                   PROVE  map'[k] <= made' /\ addr'[map'[k]] = k
        BY <1>0, <3>2, <3>3, <3>6
      <4>1. map'[k] = map[k] /\ map[k] # 0 /\ map[k] <= made /\ map[k] \in Pool!Client /\ addr[map[k]] = k
        BY <1>0, <3>1, <3>3 DEF PoolInv
      <4> QED BY <1>0, <2>2, <3>6, <4>1
    <3>10. \A c \in Pool!Client : crun'[c] => \E k \in Endpoint : map'[k] = c
      <4> SUFFICES ASSUME NEW c \in Pool!Client, crun'[c], c # made' PROVE \E k \in Endpoint : map'[k] = c
        BY <3>3
      <4>1. PICK k \in Endpoint : map[k] = c
        BY <3>6 DEF PoolInv
      <4>2. map[k] # 0 /\ crun[map[k]]
        BY <1>0, <3>6, <4>1
      <4>3. k # e
        BY <3>1, <4>2
      <4> QED BY <3>1, <3>3, <4>1, <4>2, <4>3
    <3> QED BY <1>1, <2>2, <3>6, <3>7, <3>8, <3>9, <3>10 DEF PoolInv
  <2>3. CASE /\ run => ~Pool!Usable(e) /\ Pool!Full(Pool!Room(e))
             /\ map' = IF run THEN Pool!Room(e) ELSE map
             /\ got' = [ep |-> e, client |-> 0] /\ UNCHANGED <<made, crun, addr>>
    <3>1. /\ map' \in [Endpoint -> 0..MaxMade]
          /\ \A k \in Endpoint : map'[k] = 0 \/ map'[k] = map[k]
          /\ \A k \in Endpoint : map[k] # 0 /\ crun[map[k]] => map'[k] = map[k]
          /\ IsFiniteSet(Pool!Used(map')) /\ Cardinality(Pool!Used(map')) <= MaxClient
      <4>1. CASE run
        BY <2>3, <4>1, PoolRoom
      <4>2. CASE ~run
        BY <1>0, <2>3, <4>2 DEF PoolTypes
      <4> QED BY <4>1, <4>2
    <3>2. got'.client = 0 /\ DOMAIN got' = {"ep", "client"}
      BY <2>3
    <3>3. PoolTypes'
      BY <1>0, <1>1, <2>3, <3>1, <3>2 DEF PoolTypes
    <3>4. \A k \in Endpoint : map'[k] <= made' /\ (map'[k] # 0 => addr'[map'[k]] = k)
      BY <1>0, <2>3, <3>1 DEF PoolInv
    <3>5. \A c \in Pool!Client : crun'[c] => \E k \in Endpoint : map'[k] = c
      <4> SUFFICES ASSUME NEW c \in Pool!Client, crun[c] PROVE \E k \in Endpoint : map'[k] = c
        BY <2>3
      <4>1. PICK k \in Endpoint : map[k] = c
        BY DEF PoolInv
      <4> QED BY <1>0, <3>1, <4>1
    <3> QED BY <1>1, <2>3, <3>2, <3>3, <3>4, <3>5 DEF PoolInv
  <2> QED BY <1>1, <2>h, <2>1, <2>2, <2>3 DEF Pool!GetClient, Pool!NoClient
<1>2. CASE Pool!Stop
  BY <1>2 DEF Pool!Stop, PoolInv, PoolTypes, Pool!Used
<1>3. CASE Pool!StopHandler
  <2>1. /\ due' = FALSE /\ UNCHANGED <<run, made, addr, got>>
        /\ crun' = [c \in Pool!Client |-> crun[c] /\ \A h \in Endpoint : map[h] # c]
        /\ map' = [h \in Endpoint |-> 0]
    BY <1>3, PoolHash DEF Pool!StopHandler, Pool!NoClient
  <2>2. \A c \in Pool!Client : crun'[c] = FALSE
    BY <1>0, <2>1 DEF PoolInv
  <2>3. Pool!Used(map') = {}
    BY <2>1, PoolHash
  <2>4. IsFiniteSet(Pool!Used(map')) /\ Cardinality(Pool!Used(map')) <= MaxClient
    BY <2>3, FS_EmptySet, PoolHash
  <2>5. PoolTypes'
    <3>1. crun' \in [Pool!Client -> BOOLEAN] /\ map' \in [Endpoint -> 0..MaxMade]
      BY <1>0, <2>1, <2>2
    <3> QED BY <1>0, <2>1, <2>4, <3>1 DEF PoolTypes
  <2>6. /\ \A k \in Endpoint : map'[k] = 0
        /\ \A c \in Pool!Client : ~crun'[c]
    BY <2>1, <2>2
  <2>7. ASSUME NEW k \in Endpoint PROVE map'[k] <= made' /\ (map'[k] # 0 => addr'[map'[k]] = k)
    <3>1. map'[k] = 0 /\ made' \in Nat
      BY <1>0, <2>1, <2>6
    <3> QED BY <3>1
  <2>8. got'.client # 0 => got'.client <= made' /\ addr'[got'.client] = got'.ep
    BY <2>1, Zenon DEF PoolInv
  <2> QED BY <2>5, <2>6, <2>7, <2>8, Zenon DEF PoolInv
<1>4. ASSUME NEW c \in Pool!Client, Pool!ClientStops(c) PROVE PoolInv'
  <2>1. crun' = [crun EXCEPT ![c] = FALSE] /\ UNCHANGED <<run, due, map, made, addr, got>>
    BY <1>4 DEF Pool!ClientStops
  <2>2. PoolTypes'
    BY <1>0, <2>1 DEF PoolTypes, Pool!Used
  <2> QED BY <1>0, <2>1, <2>2 DEF PoolInv
<1> QED BY <1>1, <1>2, <1>3, <1>4 DEF Pool!Next

LEMMA PoolHolds == PoolInv => Pool!ClientsArePooled
<1> SUFFICES ASSUME PoolInv PROVE Pool!ClientsArePooled
  OBVIOUS
<1>1. Pool!Cardinality(Pool!Used(map)) <= MaxClient
  BY PoolCardinality DEF PoolInv, PoolTypes
<1>2. ASSUME NEW c \in Pool!Client, crun[c]
      PROVE  \E h \in Pool!Hash : map[h] = c /\ h = EndpointHash[addr[c]]
  <2>1. PICK e \in Endpoint : map[e] = c
    BY <1>2 DEF PoolInv
  <2>2. c # 0
    BY PoolHash
  <2> QED BY <2>1, <2>2, PoolHash DEF PoolInv
<1> QED BY <1>1, <1>2 DEF Pool!ClientsArePooled, PoolInv, Pool!NoClient

-----------------------------------------------------------------------------
(***************************************************************************)
(* The HTTP client.                                                        *)
(***************************************************************************)
HttpUses == {"enter", "resolve", "connect", "write", "read"}
HttpCoro ==
  [at : {"resolve", "connect", "write", "read"}, op : {"none", "ok", "error"}]
    \cup [at : {"pick", "enter"}, op : {"ok"}] \cup [at : {"new", "end"}, op : {"none"}]
HttpTimer == [at : {"new", "start", "wait", "end"}, op : {"none", "ok", "error"}]
HttpSession ==
  [run : BOOLEAN, idle : BOOLEAN, first : BOOLEAN, open : BOOLEAN, due : SUBSET {"sock", "mgr"},
   timer : HttpTimer, wire : Seq(Msg)]

HttpTypes ==
  /\ run \in BOOLEAN /\ due \in BOOLEAN
  /\ pool \in Seq(Http!Session) /\ Len(pool) <= MaxSession
  /\ made \in 0..Cardinality(Msg)
  /\ ses \in [Http!Session -> HttpSession]
  /\ co \in [Msg -> HttpCoro]
  /\ on \in [Msg -> Http!Session \cup {0}]
  /\ DOMAIN result = Msg

\* Call c uses session s.
Uses(c, s) == co[c].at \in HttpUses /\ on[c] = s

\* Each call has made one session at most.
Began == {c \in Msg : co[c].at \notin {"new", "pick"}}
HttpMade == made <= Cardinality(Began)

\* What the server still has to answer on the session of c.
Owed(c) == IF co[c].at = "read" \/ co[c] = Http!Coro("write", "ok") THEN <<c>> ELSE <<>>

\* A session in use has one user, whose request is the only one on its
\* connection.
HttpCalls ==
  \A c \in Msg :
    /\ co[c].at \in {"new", "pick"} => on[c] = 0
    /\ co[c].at \in HttpUses => /\ on[c] \in 1..made /\ ~ses[on[c]].idle
                                /\ ses[on[c]].wire = Owed(c)
                                /\ \A d \in Msg : co[d].at \in HttpUses /\ on[d] = on[c] => d = c
    /\ result[c] \in {c, "none", "failed"}

\* A session that nobody uses and that may be used again owes nothing.
HttpSessions ==
  \A s \in Http!Session :
    /\ ses[s].run => s <= made /\ s \in Range(pool) /\ (run \/ due)
    /\ ses[s].run /\ (\A c \in Msg : ~Uses(c, s)) => ses[s].wire = <<>>
    /\ s > made => ~ses[s].idle /\ ses[s].wire = <<>>

HttpInv == HttpTypes /\ HttpMade /\ HttpCalls /\ HttpSessions

LEMMA HttpCardinality ==
  /\ Http!Session = 1..Cardinality(Msg) /\ Cardinality(Msg) \in Nat /\ IsFiniteSet(Msg)
  /\ MaxSession \in Nat
<1>1. \A S : Http!Cardinality(S) = Cardinality(S)
  BY Zenon DEF Http!Cardinality, Cardinality
<1> QED BY <1>1, ClientsAssumption, FS_CardinalityType DEF Http!Session

LEMMA HttpInit == Http!Init => HttpInv
<1> SUFFICES ASSUME Http!Init PROVE HttpInv
  OBVIOUS
<1> DEFINE fresh == [run |-> FALSE, idle |-> FALSE, first |-> TRUE, open |-> FALSE,
                     due |-> {}, timer |-> [at |-> "new", op |-> "none"], wire |-> <<>>]
<1>1. /\ run = TRUE /\ due = FALSE /\ pool = <<>> /\ made = 0
      /\ ses = [s \in Http!Session |-> fresh]
      /\ co = [c \in Msg |-> [at |-> "new", op |-> "none"]]
      /\ on = [c \in Msg |-> 0]
      /\ result = [c \in Msg |-> "none"]
  BY DEF Http!Init, Http!New, Http!Coro, Http!NoSession
<1>2. HttpTypes
  <2>1. fresh \in HttpSession
    BY DEF HttpSession, HttpTimer
  <2>2. co \in [Msg -> HttpCoro]
    BY <1>1 DEF HttpCoro
  <2>3. pool \in Seq(Http!Session) /\ Len(pool) <= MaxSession /\ made \in 0..Cardinality(Msg)
    BY <1>1, HttpCardinality
  <2> HIDE DEF fresh
  <2>4. ses \in [Http!Session -> HttpSession] /\ on \in [Msg -> Http!Session \cup {0}] /\ DOMAIN result = Msg
    BY <1>1, <2>1
  <2> QED BY <1>1, <2>2, <2>3, <2>4 DEF HttpTypes
<1>3. HttpMade
  <2>1. Began = {}
    BY <1>1 DEF Began
  <2> QED BY <1>1, <2>1, FS_EmptySet DEF HttpMade
<1>4. HttpCalls
  BY <1>1 DEF HttpCalls, HttpUses
<1>5. HttpSessions
  BY <1>1 DEF HttpSessions
<1> QED BY <1>2, <1>3, <1>4, <1>5 DEF HttpInv

\* No call that began is forgotten.
LEMMA HttpBegan ==
  ASSUME HttpMade, UNCHANGED made, made \in Nat, \A c \in Msg : c \in Began => c \in Began'
  PROVE  HttpMade'
<1>1. Began \subseteq Began' /\ Began' \subseteq Msg
  BY DEF Began
<1>2. IsFiniteSet(Began') /\ Cardinality(Began') \in Nat
  BY <1>1, HttpCardinality, FS_Subset, FS_CardinalityType
<1>3. Cardinality(Began) \in Nat /\ Cardinality(Began) <= Cardinality(Began')
  BY <1>1, <1>2, FS_Subset, FS_CardinalityType
<1> QED BY <1>2, <1>3 DEF HttpMade

\* What a step does that takes no session and ends no call.
LEMMA HttpStill ==
  ASSUME HttpInv, UNCHANGED <<made, on, result>>, HttpTypes',
         \A c \in Msg : co'[c] = co[c] \/ (/\ co'[c].at = co[c].at
                                           /\ co[c].op = "none" /\ co'[c].op = "error"),
         \A s \in Http!Session :
           /\ ses'[s].idle = ses[s].idle /\ ses'[s].wire = ses[s].wire
           /\ ses'[s].run => ses[s].run /\ s \in Range(pool') /\ (run' \/ due')
  PROVE  HttpInv'
<1>0. HttpTypes /\ HttpMade /\ HttpCalls /\ HttpSessions
  BY DEF HttpInv
<1>c. \A at, op : Http!Coro(at, op).at = at /\ Http!Coro(at, op).op = op
  BY DEF Http!Coro
<1>1. \A c \in Msg : co'[c].at = co[c].at
  OBVIOUS
<1>2. \A c \in Msg, s \in Http!Session : Uses(c, s)' <=> Uses(c, s)
  BY <1>1 DEF Uses
<1>3. \A c \in Msg : co[c].at \in HttpUses => Owed(c)' = Owed(c)
  BY <1>1, <1>c DEF Owed
<1>4. HttpMade'
  BY <1>0, <1>1, HttpBegan, HttpCardinality DEF HttpTypes, Began
<1>5. HttpCalls'
  <2> SUFFICES ASSUME NEW c \in Msg
               PROVE  /\ co'[c].at \in {"new", "pick"} => on'[c] = 0
                      /\ co'[c].at \in HttpUses =>
                           /\ on'[c] \in 1..made' /\ ~ses'[on'[c]].idle
                           /\ ses'[on'[c]].wire = Owed(c)'
                           /\ \A d \in Msg : co'[d].at \in HttpUses /\ on'[d] = on'[c] => d = c
                      /\ result'[c] \in {c, "none", "failed"}
    BY DEF HttpCalls
  <2>1. CASE co[c].at \in HttpUses
    <3>1. /\ on[c] \in 1..made /\ ~ses[on[c]].idle /\ ses[on[c]].wire = Owed(c)
          /\ \A d \in Msg : co[d].at \in HttpUses /\ on[d] = on[c] => d = c
          /\ result[c] \in {c, "none", "failed"}
      BY <1>0, <2>1 DEF HttpCalls
    <3>2. on[c] \in Http!Session
      BY <1>0, <3>1, HttpCardinality DEF HttpTypes
    <3>3. co[c].at \notin {"new", "pick"}
      BY <2>1 DEF HttpUses
    <3> QED BY <1>1, <1>3, <2>1, <3>1, <3>2, <3>3
  <2>2. CASE co[c].at \notin HttpUses
    BY <1>0, <1>1, <2>2 DEF HttpCalls
  <2> QED BY <2>1, <2>2
<1>6. HttpSessions'
  BY <1>0, <1>2 DEF HttpSessions
<1> QED BY <1>4, <1>5, <1>6 DEF HttpInv

\* Call c goes on with the session that it uses.
LEMMA HttpUse ==
  ASSUME HttpInv, NEW c \in Msg, co[c].at \in HttpUses, NEW x \in HttpCoro, x.at \in HttpUses,
         co' = [co EXCEPT ![c] = x], UNCHANGED <<run, due, pool, made, on, result>>,
         ses' \in [Http!Session -> HttpSession],
         \A t \in Http!Session : t # on[c] => ses'[t] = ses[t],
         ses'[on[c]].run = ses[on[c]].run, ses'[on[c]].idle = ses[on[c]].idle,
         ses'[on[c]].wire = IF x.at = "read" \/ x = Http!Coro("write", "ok") THEN <<c>> ELSE <<>>
  PROVE  HttpInv'
<1>0. HttpTypes /\ HttpMade /\ HttpCalls /\ HttpSessions /\ co \in [Msg -> HttpCoro]
  BY DEF HttpInv, HttpTypes
<1>1. /\ co' \in [Msg -> HttpCoro] /\ co'[c] = x
      /\ \A d \in Msg : d # c => co'[d] = co[d]
  BY <1>0
<1>2. HttpTypes'
  BY <1>0, <1>1 DEF HttpTypes
<1>3. /\ \A d \in Msg : co'[d].at \in HttpUses <=> co[d].at \in HttpUses
      /\ \A d \in Msg, s \in Http!Session : Uses(d, s)' <=> Uses(d, s)
  BY <1>1 DEF Uses
<1>4. HttpMade'
  <2>1. \A d \in Msg : d \in Began => d \in Began'
    BY <1>1 DEF Began, HttpUses
  <2> QED BY <1>0, <2>1, HttpBegan, HttpCardinality DEF HttpTypes
<1>5. /\ on[c] \in 1..made /\ ~ses[on[c]].idle /\ on[c] \in Http!Session
      /\ \A d \in Msg : co[d].at \in HttpUses /\ on[d] = on[c] => d = c
  BY <1>0, HttpCardinality DEF HttpCalls, HttpTypes
<1>6. HttpCalls'
  <2> SUFFICES ASSUME NEW d \in Msg
               PROVE  /\ co'[d].at \in {"new", "pick"} => on'[d] = 0
                      /\ co'[d].at \in HttpUses =>
                           /\ on'[d] \in 1..made' /\ ~ses'[on'[d]].idle
                           /\ ses'[on'[d]].wire = Owed(d)'
                           /\ \A f \in Msg : co'[f].at \in HttpUses /\ on'[f] = on'[d] => f = d
                      /\ result'[d] \in {d, "none", "failed"}
    BY DEF HttpCalls
  <2>1. CASE d = c
    <3>1. Owed(c)' = IF x.at = "read" \/ x = Http!Coro("write", "ok") THEN <<c>> ELSE <<>>
      BY <1>1 DEF Owed
    <3> QED BY <1>0, <1>1, <1>3, <1>5, <2>1, <3>1 DEF HttpCalls, HttpUses
  <2>2. CASE d # c /\ co[d].at \in HttpUses
    <3>1. /\ on[d] \in 1..made /\ ~ses[on[d]].idle /\ ses[on[d]].wire = Owed(d)
          /\ \A f \in Msg : co[f].at \in HttpUses /\ on[f] = on[d] => f = d
          /\ on[d] \in Http!Session /\ result[d] \in {d, "none", "failed"}
      BY <1>0, <2>2, HttpCardinality DEF HttpCalls, HttpTypes
    <3>2. on[d] # on[c] /\ Owed(d)' = Owed(d)
      BY <1>1, <1>5, <2>2, <3>1 DEF Owed
    <3>3. co'[d].at \notin {"new", "pick"}
      BY <1>1, <2>2 DEF HttpUses
    <3> QED BY <1>3, <3>1, <3>2, <3>3
  <2>3. CASE d # c /\ co[d].at \notin HttpUses
    BY <1>0, <1>1, <2>3 DEF HttpCalls
  <2> QED BY <2>1, <2>2, <2>3
<1>7. HttpSessions'
  <2> SUFFICES ASSUME NEW s \in Http!Session
               PROVE  /\ ses'[s].run => s <= made' /\ s \in Range(pool') /\ (run' \/ due')
                      /\ ses'[s].run /\ (\A d \in Msg : ~Uses(d, s)') => ses'[s].wire = <<>>
                      /\ s > made' => ~ses'[s].idle /\ ses'[s].wire = <<>>
    BY DEF HttpSessions
  <2>1. CASE s = on[c]
    <3>1. Uses(c, s)'
      BY <1>3, <2>1 DEF Uses
    <3>2. ~(s > made)
      BY <1>0, <1>5, <2>1 DEF HttpTypes
    <3> QED BY <1>0, <2>1, <3>1, <3>2 DEF HttpSessions
  <2>2. CASE s # on[c]
    BY <1>0, <1>3, <2>2 DEF HttpSessions
  <2> QED BY <2>1, <2>2
<1> QED BY <1>2, <1>4, <1>6, <1>7 DEF HttpInv

\* Call c ends: it leaves its session, which owes nothing if it still runs.
LEMMA HttpLeave ==
  ASSUME HttpInv, NEW c \in Msg, co[c].at \in HttpUses, co' = [co EXCEPT ![c] = Http!Ended],
         UNCHANGED <<run, due, pool, made, on>>,
         NEW r \in {c, "failed"}, result' = [result EXCEPT ![c] = r],
         ses' \in [Http!Session -> HttpSession],
         \A t \in Http!Session : t # on[c] => ses'[t] = ses[t],
         ses'[on[c]].run => ses[on[c]].run /\ ses'[on[c]].wire = <<>>
  PROVE  HttpInv'
<1>0. HttpTypes /\ HttpMade /\ HttpCalls /\ HttpSessions /\ co \in [Msg -> HttpCoro]
  BY DEF HttpInv, HttpTypes
<1>1. /\ co' \in [Msg -> HttpCoro] /\ co'[c].at = "end"
      /\ \A d \in Msg : d # c => co'[d] = co[d]
  BY <1>0 DEF Http!Ended, Http!Coro, HttpCoro
<1>2. HttpTypes'
  BY <1>0, <1>1 DEF HttpTypes
<1>3. /\ on[c] \in 1..made /\ on[c] \in Http!Session
      /\ \A d \in Msg : co[d].at \in HttpUses /\ on[d] = on[c] => d = c
  BY <1>0, HttpCardinality DEF HttpCalls, HttpTypes
<1>4. /\ \A d \in Msg : co'[d].at \in HttpUses <=> d # c /\ co[d].at \in HttpUses
      /\ \A d \in Msg, s \in Http!Session : s # on[c] => (Uses(d, s)' <=> Uses(d, s))
  BY <1>1 DEF Uses, HttpUses
<1>5. HttpMade'
  <2>1. \A d \in Msg : d \in Began => d \in Began'
    BY <1>1 DEF Began, HttpUses
  <2> QED BY <1>0, <2>1, HttpBegan, HttpCardinality DEF HttpTypes
<1>6. HttpCalls'
  <2> SUFFICES ASSUME NEW d \in Msg
               PROVE  /\ co'[d].at \in {"new", "pick"} => on'[d] = 0
                      /\ co'[d].at \in HttpUses =>
                           /\ on'[d] \in 1..made' /\ ~ses'[on'[d]].idle
                           /\ ses'[on'[d]].wire = Owed(d)'
                           /\ \A f \in Msg : co'[f].at \in HttpUses /\ on'[f] = on'[d] => f = d
                      /\ result'[d] \in {d, "none", "failed"}
    BY DEF HttpCalls
  <2>1. CASE d = c
    BY <1>0, <1>1, <2>1 DEF HttpTypes, HttpUses
  <2>2. CASE d # c /\ co[d].at \in HttpUses
    <3>1. /\ on[d] \in 1..made /\ ~ses[on[d]].idle /\ ses[on[d]].wire = Owed(d)
          /\ \A f \in Msg : co[f].at \in HttpUses /\ on[f] = on[d] => f = d
          /\ on[d] \in Http!Session /\ result[d] \in {d, "none", "failed"}
      BY <1>0, <2>2, HttpCardinality DEF HttpCalls, HttpTypes
    <3>2. on[d] # on[c] /\ Owed(d)' = Owed(d) /\ result'[d] = result[d]
      BY <1>0, <1>1, <1>3, <2>2, <3>1 DEF Owed, HttpTypes
    <3>3. co'[d].at \notin {"new", "pick"}
      BY <1>1, <2>2 DEF HttpUses
    <3> QED BY <1>4, <3>1, <3>2, <3>3
  <2>3. CASE d # c /\ co[d].at \notin HttpUses
    BY <1>0, <1>1, <2>3 DEF HttpCalls, HttpTypes
  <2> QED BY <2>1, <2>2, <2>3
<1>7. HttpSessions'
  <2> SUFFICES ASSUME NEW s \in Http!Session
               PROVE  /\ ses'[s].run => s <= made' /\ s \in Range(pool') /\ (run' \/ due')
                      /\ ses'[s].run /\ (\A d \in Msg : ~Uses(d, s)') => ses'[s].wire = <<>>
                      /\ s > made' => ~ses'[s].idle /\ ses'[s].wire = <<>>
    BY DEF HttpSessions
  <2>1. CASE s = on[c]
    <3>1. ~(s > made)
      BY <1>0, <1>3, <2>1 DEF HttpTypes
    <3> QED BY <1>0, <2>1, <3>1 DEF HttpSessions
  <2>2. CASE s # on[c]
    <3>1. \A d \in Msg : Uses(d, s)' <=> Uses(d, s)
      BY <1>4, <2>2
    <3> QED BY <1>0, <2>2, <3>1 DEF HttpSessions
  <2> QED BY <2>1, <2>2
<1> QED BY <1>2, <1>5, <1>6, <1>7 DEF HttpInv

\* Call c takes session s, which nobody uses and which owes nothing.
LEMMA HttpTake ==
  ASSUME HttpInv, NEW c \in Msg, co[c].at = "pick", co' = [co EXCEPT ![c] = Http!Coro("enter", "ok")],
         NEW s \in Http!Session, on' = [on EXCEPT ![c] = s],
         run, UNCHANGED <<run, due, result>>,
         \/ made' = made /\ s <= made
         \/ made' = made + 1 /\ s = made',
         pool' \in Seq(Http!Session), Len(pool') <= MaxSession,
         \A t \in Http!Session : ses'[t].run => t \in Range(pool'),
         ses' \in [Http!Session -> HttpSession],
         \A t \in Http!Session : t # s => ses'[t] = ses[t],
         ~ses'[s].idle, ses'[s].wire = <<>>,
         \A d \in Msg : ~Uses(d, s)
  PROVE  HttpInv'
<1>0. HttpTypes /\ HttpMade /\ HttpCalls /\ HttpSessions /\ co \in [Msg -> HttpCoro] /\ made \in Nat
  BY HttpCardinality DEF HttpInv, HttpTypes
<1>c. Http!Coro("enter", "ok").at = "enter" /\ Http!Coro("enter", "ok") \in HttpCoro
  BY DEF Http!Coro, HttpCoro
<1>1. /\ co' \in [Msg -> HttpCoro] /\ co'[c] = Http!Coro("enter", "ok") /\ co'[c].at = "enter"
      /\ \A d \in Msg : d # c => co'[d] = co[d] /\ on'[d] = on[d]
      /\ on' \in [Msg -> Http!Session \cup {0}] /\ on'[c] = s
  BY <1>0, <1>c DEF HttpTypes
<1>2. made' \in Nat /\ made <= made' /\ s \in 1..made' /\ made' <= Cardinality(Msg)
  BY <1>0, HttpCardinality DEF HttpTypes
<1>3. HttpTypes'
  BY <1>0, <1>1, <1>2, HttpCardinality DEF HttpTypes
<1>4. HttpMade'
  <2>1. Began' = Began \cup {c} /\ c \notin Began /\ Began \subseteq Msg
    BY <1>1 DEF Began
  <2>2. IsFiniteSet(Began) /\ Cardinality(Began) \in Nat
    BY <2>1, HttpCardinality, FS_Subset, FS_CardinalityType
  <2>3. Cardinality(Began') = Cardinality(Began) + 1
    BY <2>1, <2>2, FS_AddElement
  <2> QED BY <1>0, <2>2, <2>3 DEF HttpMade
<1>5. /\ \A d \in Msg : co'[d].at \in HttpUses <=> d = c \/ co[d].at \in HttpUses
      /\ \A d \in Msg : co[d].at \in HttpUses => d # c /\ on[d] # s
      /\ \A d \in Msg, t \in Http!Session : t # s => (Uses(d, t)' <=> Uses(d, t))
  BY <1>1 DEF Uses, HttpUses
<1>6. HttpCalls'
  <2> SUFFICES ASSUME NEW d \in Msg
               PROVE  /\ co'[d].at \in {"new", "pick"} => on'[d] = 0
                      /\ co'[d].at \in HttpUses =>
                           /\ on'[d] \in 1..made' /\ ~ses'[on'[d]].idle
                           /\ ses'[on'[d]].wire = Owed(d)'
                           /\ \A f \in Msg : co'[f].at \in HttpUses /\ on'[f] = on'[d] => f = d
                      /\ result'[d] \in {d, "none", "failed"}
    BY DEF HttpCalls
  <2>1. CASE d = c
    <3>1. Owed(c)' = <<>>
      BY <1>1 DEF Owed, Http!Coro
    <3>2. \A f \in Msg : co'[f].at \in HttpUses /\ on'[f] = s => f = c
      BY <1>1, <1>5
    <3> QED BY <1>0, <1>1, <1>2, <2>1, <3>1, <3>2 DEF HttpCalls
  <2>2. CASE d # c /\ co[d].at \in HttpUses
    <3>1. /\ on[d] \in 1..made /\ ~ses[on[d]].idle /\ ses[on[d]].wire = Owed(d)
          /\ \A f \in Msg : co[f].at \in HttpUses /\ on[f] = on[d] => f = d
          /\ on[d] \in Http!Session /\ result[d] \in {d, "none", "failed"}
      BY <1>0, <2>2, HttpCardinality DEF HttpCalls, HttpTypes
    <3>2. on[d] # s /\ Owed(d)' = Owed(d) /\ on'[d] = on[d]
      BY <1>1, <1>5, <2>2 DEF Owed
    <3>3. co'[d].at \notin {"new", "pick"}
      BY <1>1, <2>2 DEF HttpUses
    <3>4. \A f \in Msg : co'[f].at \in HttpUses /\ on'[f] = on'[d] => f = d
      BY <1>1, <1>5, <3>1, <3>2
    <3>5. on[d] \in 1..made'
      BY <1>0, <1>2, <3>1
    <3> QED BY <3>1, <3>2, <3>3, <3>4, <3>5
  <2>3. CASE d # c /\ co[d].at \notin HttpUses
    BY <1>0, <1>1, <2>3 DEF HttpCalls
  <2> QED BY <2>1, <2>2, <2>3
<1>7. HttpSessions'
  <2> SUFFICES ASSUME NEW t \in Http!Session
               PROVE  /\ ses'[t].run => t <= made' /\ t \in Range(pool') /\ (run' \/ due')
                      /\ ses'[t].run /\ (\A d \in Msg : ~Uses(d, t)') => ses'[t].wire = <<>>
                      /\ t > made' => ~ses'[t].idle /\ ses'[t].wire = <<>>
    BY DEF HttpSessions
  <2>0. t \in Nat
    BY HttpCardinality
  <2>1. CASE t = s
    BY <1>2, <2>1
  <2>2. CASE t # s
    <3>1. \A d \in Msg : Uses(d, t)' <=> Uses(d, t)
      BY <1>5, <2>2
    <3>2. /\ ses[t].run => t <= made
          /\ t > made => ~ses[t].idle /\ ses[t].wire = <<>>
          /\ ses[t].run /\ (\A d \in Msg : ~Uses(d, t)) => ses[t].wire = <<>>
      BY <1>0 DEF HttpSessions
    <3>3. (t <= made => t <= made') /\ (t > made' => t > made)
      BY <1>0, <1>2, <2>0
    <3> QED BY <2>2, <3>1, <3>2, <3>3
  <2> QED BY <2>1, <2>2
<1> QED BY <1>3, <1>4, <1>6, <1>7 DEF HttpInv

-----------------------------------------------------------------------------
\* What the scan of the pool chooses and leaves.
LEMMA HttpScan ==
  ASSUME pool \in Seq(Http!Session)
  PROVE  /\ Http!Alive \in Seq(Http!Session) /\ Len(Http!Alive) <= Len(pool)
         /\ \A t \in Http!Session : t \in Range(pool) /\ ses[t].run => t \in Range(Http!Alive)
         /\ Http!Chosen # 0 =>
              /\ Http!Chosen \in 1..Len(pool) /\ Http!Usable(pool[Http!Chosen])
              /\ Http!Kept \in Seq(Http!Session) /\ Len(Http!Kept) <= Len(pool)
              /\ \A t \in Http!Session : t \in Range(pool) /\ ses[t].run => t \in Range(Http!Kept)
<1>1. \A q, S : Http!Erased(q, S) = Filtered(q, S)
  BY DEF Http!Erased, Filtered
<1>2. \A t \in Http!Session : ses[t].run => t \notin Http!Dead
  BY DEF Http!Dead
<1>3. /\ Http!Alive \in Seq(Http!Session) /\ Len(Http!Alive) <= Len(pool)
      /\ Range(Http!Alive) = Range(pool) \ Http!Dead
  BY <1>1, FilteredFacts DEF Http!Alive
<1>4. ASSUME Http!Chosen # 0
      PROVE  /\ Http!Chosen \in 1..Len(pool) /\ Http!Usable(pool[Http!Chosen])
             /\ Http!Kept \in Seq(Http!Session) /\ Len(Http!Kept) <= Len(pool)
             /\ \A t \in Http!Session : t \in Range(pool) /\ ses[t].run => t \in Range(Http!Kept)
  <2> DEFINE I == {i \in 1..Len(pool) : Http!Usable(pool[i])}
             n == Http!Chosen
             before == SubSeq(pool, 1, n - 1)
             from == SubSeq(pool, n, Len(pool))
  <2>1. n = IF I # {} THEN Http!Min(I) ELSE 0
    BY DEF Http!Chosen, Http!SelectInSeq
  <2>2. I # {} /\ n = Http!Min(I)
    BY <1>4, <2>1
  <2>3. n \in I
    <3>1. I \subseteq Nat
      OBVIOUS
    <3> HIDE DEF I
    <3>2. \E x \in I : \A y \in I : x <= y
      BY <2>2, <3>1, Least
    <3> QED BY <2>2, <3>2 DEF Http!Min
  <2>4. n \in 1..Len(pool) /\ Http!Usable(pool[n])
    BY <2>3
  <2>5. /\ before \in Seq(Http!Session) /\ Len(before) = n - 1
        /\ \A i \in 1..(n - 1) : i \in DOMAIN before /\ before[i] = pool[i]
        /\ from \in Seq(Http!Session) /\ Len(from) = Len(pool) - n + 1
        /\ \A i \in n..Len(pool) : i - n + 1 \in DOMAIN from /\ from[i - n + 1] = pool[i]
    <3> HIDE DEF n
    <3> QED BY <2>4
  <2>6. Range(pool) \subseteq Range(before) \cup Range(from)
    <3> HIDE DEF before, from, n
    <3> SUFFICES ASSUME NEW i \in 1..Len(pool) PROVE pool[i] \in Range(before) \cup Range(from)
      <4>1. DOMAIN pool = 1..Len(pool)
        OBVIOUS
      <4> QED BY <4>1 DEF Range
    <3>1. CASE i < n
      <4>1. i \in DOMAIN before /\ before[i] = pool[i]
        BY <2>4, <2>5, <3>1
      <4> QED BY <4>1 DEF Range
    <3>2. CASE ~(i < n)
      <4>1. i - n + 1 \in DOMAIN from /\ from[i - n + 1] = pool[i]
        BY <2>4, <2>5, <3>2
      <4> QED BY <4>1 DEF Range
    <3> QED BY <3>1, <3>2
  <2> DEFINE left == Filtered(before, Http!Dead)
  <2>7. Http!Kept = left \o from
    BY <1>1 DEF Http!Kept
  <2>8. left \in Seq(Http!Session) /\ Len(left) <= Len(before) /\ Range(left) = Range(before) \ Http!Dead
    BY <2>5, FilteredFacts
  <2> HIDE DEF left, before, from, n
  <2>9. left \o from \in Seq(Http!Session) /\ Range(left \o from) = Range(left) \cup Range(from)
    BY <2>5, <2>8, ConcatOnce
  <2>10. Len(left \o from) <= Len(pool)
    BY <2>4, <2>5, <2>8
  <2>11. \A t \in Http!Session : t \in Range(pool) /\ ses[t].run => t \in Range(left \o from)
    BY <1>2, <2>6, <2>8, <2>9
  <2> QED BY <2>4, <2>7, <2>9, <2>10, <2>11 DEF n
<1> QED BY <1>2, <1>3, <1>4

-----------------------------------------------------------------------------
\* A step of session s alone.
LEMMA HttpOne ==
  ASSUME HttpInv, NEW s \in Http!Session, NEW S \in HttpSession, ses' = [ses EXCEPT ![s] = S],
         S.idle = ses[s].idle, S.wire = ses[s].wire, S.run => ses[s].run,
         UNCHANGED <<run, due, pool, made, on, result>>,
         co' \in [Msg -> HttpCoro],
         \A c \in Msg : co'[c] = co[c] \/ (/\ co'[c].at = co[c].at
                                           /\ co[c].op = "none" /\ co'[c].op = "error")
  PROVE  HttpInv'
<1>0. HttpTypes /\ HttpSessions /\ ses \in [Http!Session -> HttpSession]
  BY DEF HttpInv, HttpTypes
<1>1. /\ ses' \in [Http!Session -> HttpSession] /\ ses'[s] = S
      /\ \A t \in Http!Session : t # s => ses'[t] = ses[t]
  BY <1>0
<1>2. HttpTypes'
  BY <1>0, <1>1 DEF HttpTypes
<1>3. \A t \in Http!Session :
        /\ ses'[t].idle = ses[t].idle /\ ses'[t].wire = ses[t].wire
        /\ ses'[t].run => ses[t].run /\ t \in Range(pool') /\ (run' \/ due')
  BY <1>0, <1>1 DEF HttpSessions
<1> QED BY <1>2, <1>3, HttpStill

LEMMA HttpCoros ==
  /\ \A at, op : Http!Coro(at, op).at = at /\ Http!Coro(at, op).op = op
  /\ \A at : Http!Suspended(at).at = at /\ Http!Suspended(at).op = "none"
  /\ \A at \in {"resolve", "connect", "write", "read"} :
       Http!Suspended(at) \in HttpCoro /\ Http!Suspended(at) # Http!Coro("write", "ok")
  /\ Http!Ended \in HttpCoro /\ Http!Ended.at = "end"
  /\ Http!Spawned \in HttpTimer /\ Http!Ended \in HttpTimer /\ Http!Suspended("wait") \in HttpTimer
BY DEF Http!Coro, Http!Suspended, Http!Ended, Http!Spawned, HttpCoro, HttpTimer

\* What a call that has a session knows of it.
LEMMA HttpOwn ==
  ASSUME HttpInv, NEW c \in Msg, co[c].at \in HttpUses
  PROVE  /\ on[c] \in Http!Session /\ on[c] \in 1..made /\ ses[on[c]] \in HttpSession
         /\ ~ses[on[c]].idle /\ ses[on[c]].wire = Owed(c)
BY HttpCardinality DEF HttpInv, HttpTypes, HttpCalls

LEMMA HttpPicks ==
  ASSUME HttpInv, NEW c \in Msg, Http!HttpSendRecvCo(c) \/ Http!PickIdle(c) \/ Http!PickNew(c) \/ Http!PickNone(c)
  PROVE  HttpInv'
<1>0. /\ HttpTypes /\ HttpMade /\ HttpCalls /\ HttpSessions /\ co \in [Msg -> HttpCoro]
      /\ pool \in Seq(Http!Session) /\ made \in Nat /\ ses \in [Http!Session -> HttpSession]
      /\ Len(pool) <= MaxSession /\ MaxSession \in Nat
  BY HttpCardinality DEF HttpInv, HttpTypes
<1>c. Http!New.at = "new" /\ Http!Coro("pick", "ok").at = "pick" /\ Http!Coro("pick", "ok") \in HttpCoro
  BY DEF Http!New, Http!Coro, HttpCoro
\* A step by which c neither takes nor leaves a session.
<1>q. ASSUME co[c].at \in {"new", "pick"}, NEW x \in HttpCoro, x.at \in {"pick", "end"}, co' = [co EXCEPT ![c] = x],
             UNCHANGED <<run, due, made, ses, on>>, pool' \in Seq(Http!Session), Len(pool') <= MaxSession,
             \A t \in Http!Session : t \in Range(pool) /\ ses[t].run => t \in Range(pool'),
             result' = result \/ (x.at = "end" /\ result' = [result EXCEPT ![c] = "failed"])
      PROVE  HttpInv'
  <2>1. /\ co' \in [Msg -> HttpCoro] /\ co'[c] = x
        /\ \A d \in Msg : d # c => co'[d] = co[d]
        /\ x.at = "pick" => on[c] = 0
        /\ x.at \notin HttpUses /\ co[c].at \notin HttpUses
    BY <1>0, <1>q DEF HttpCalls, HttpUses
  <2>2. HttpTypes'
    BY <1>0, <1>q, <2>1 DEF HttpTypes
  <2>3. HttpMade'
    <3>1. \A d \in Msg : d \in Began => d \in Began'
      BY <1>q, <2>1 DEF Began
    <3> QED BY <1>0, <1>q, <3>1, HttpBegan
  <2>4. /\ \A d \in Msg : co'[d].at \in HttpUses <=> co[d].at \in HttpUses
        /\ \A d \in Msg, s \in Http!Session : Uses(d, s)' <=> Uses(d, s)
        /\ \A d \in Msg : co[d].at \in HttpUses => Owed(d)' = Owed(d)
    BY <1>q, <2>1 DEF Uses, Owed
  <2>5. HttpCalls'
    <3>1. \A d \in Msg : result'[d] = result[d] \/ (d = c /\ result'[d] = "failed")
      BY <1>0, <1>q DEF HttpTypes
    <3>2. \A d \in Msg : co'[d].at \in {"new", "pick"} => on[d] = 0
      BY <1>0, <1>q, <2>1 DEF HttpCalls
    <3> QED BY <1>0, <1>q, <2>4, <3>1, <3>2 DEF HttpCalls
  <2>6. HttpSessions'
    BY <1>0, <1>q, <2>4 DEF HttpSessions
  <2> QED BY <2>2, <2>3, <2>5, <2>6 DEF HttpInv
<1>1. CASE Http!HttpSendRecvCo(c)
  <2>1. /\ co[c].at = "new" /\ co' = [co EXCEPT ![c] = Http!Coro("pick", "ok")]
        /\ UNCHANGED <<run, due, pool, made, ses, on, result>>
    BY <1>1, <1>c DEF Http!HttpSendRecvCo
  <2> QED BY <1>0, <1>c, <1>q, <2>1
<1>2. CASE Http!PickIdle(c)
  <2> DEFINE s == pool[Http!Chosen]
  <2>1. /\ co[c].at = "pick" /\ run /\ Http!Chosen # 0 /\ pool' = Http!Kept
        /\ ses' = [ses EXCEPT ![s] = [ses[s] EXCEPT !.idle = FALSE]]
        /\ on' = [on EXCEPT ![c] = s]
        /\ co' = [co EXCEPT ![c] = Http!Coro("enter", "ok")]
        /\ UNCHANGED <<run, due, made, result>>
    BY <1>2, <1>c DEF Http!PickIdle
  <2>2. /\ Http!Chosen \in 1..Len(pool) /\ ses[s].run /\ ses[s].idle
        /\ pool' \in Seq(Http!Session) /\ Len(pool') <= Len(pool)
        /\ \A t \in Http!Session : t \in Range(pool) /\ ses[t].run => t \in Range(pool')
    BY <1>0, <2>1, HttpScan DEF Http!Usable
  <2>3. s \in Http!Session /\ Len(pool') <= MaxSession
    BY <1>0, <2>2
  <2> HIDE DEF s
  <2>4. \A d \in Msg : ~Uses(d, s)
    BY <1>0, <2>2 DEF HttpCalls, Uses
  <2>5. s <= made /\ ses[s].wire = <<>>
    BY <1>0, <2>2, <2>3, <2>4 DEF HttpSessions
  <2>6. /\ ses' \in [Http!Session -> HttpSession] /\ \A t \in Http!Session : t # s => ses'[t] = ses[t]
        /\ ses'[s] = [ses[s] EXCEPT !.idle = FALSE]
    <3>1. ses[s] \in HttpSession
      BY <1>0, <2>3
    <3>2. [ses[s] EXCEPT !.idle = FALSE] \in HttpSession
      BY <3>1 DEF HttpSession
    <3> QED BY <1>0, <2>1, <2>3, <3>2
  <2>7. ~ses'[s].idle /\ ses'[s].wire = <<>> /\ (ses'[s].run <=> ses[s].run)
    BY <1>0, <2>3, <2>5, <2>6 DEF HttpSession
  <2>8. \A t \in Http!Session : ses'[t].run => t \in Range(pool')
    BY <1>0, <2>2, <2>6, <2>7 DEF HttpSessions
  <2> QED BY <2>1, <2>2, <2>3, <2>4, <2>5, <2>6, <2>7, <2>8, HttpTake
<1>3. CASE Http!PickNew(c)
  <2> DEFINE s == made + 1
             alive == Http!Alive
  <2>1. /\ co[c].at = "pick" /\ run /\ Len(alive) < MaxSession
        /\ made' = s /\ pool' = Append(alive, s)
        /\ ses' = [ses EXCEPT ![s].run = TRUE, ![s].timer = Http!Spawned]
        /\ on' = [on EXCEPT ![c] = s]
        /\ co' = [co EXCEPT ![c] = Http!Coro("enter", "ok")]
        /\ UNCHANGED <<run, due, result>>
    BY <1>3, <1>c DEF Http!PickNew
  <2>2. s \in Http!Session
    <3>1. Began \subseteq Msg /\ c \notin Began
      BY <2>1 DEF Began
    <3>2. IsFiniteSet(Began) /\ Cardinality(Began) \in Nat
      BY <3>1, HttpCardinality, FS_Subset, FS_CardinalityType
    <3>3. IsFiniteSet(Began \cup {c}) /\ Cardinality(Began \cup {c}) = Cardinality(Began) + 1
      BY <3>1, <3>2, FS_AddElement
    <3>4. Cardinality(Began \cup {c}) <= Cardinality(Msg)
      <4>1. Began \cup {c} \subseteq Msg
        BY <3>1
      <4> QED BY <4>1, HttpCardinality, FS_Subset
    <3> QED BY <1>0, <3>2, <3>3, <3>4, HttpCardinality DEF HttpMade
  <2>3. /\ alive \in Seq(Http!Session)
        /\ \A t \in Http!Session : t \in Range(pool) /\ ses[t].run => t \in Range(alive)
    BY <1>0, HttpScan
  <2> HIDE DEF alive
  <2>4. pool' \in Seq(Http!Session) /\ Len(pool') <= MaxSession /\ Range(pool') = Range(alive) \cup {s}
    <3>1. Append(alive, s) \in Seq(Http!Session) /\ Range(Append(alive, s)) = Range(alive) \cup {s}
      BY <2>2, <2>3, AppendOnce
    <3>2. Len(Append(alive, s)) = Len(alive) + 1 /\ Len(alive) \in Nat
      BY <2>3
    <3> QED BY <1>0, <2>1, <3>1, <3>2
  <2>5. ~ses[s].idle /\ ses[s].wire = <<>> /\ ses[s] \in HttpSession
    BY <1>0, <2>2 DEF HttpSessions
  <2>6. \A d \in Msg : ~Uses(d, s)
    BY <1>0 DEF HttpCalls, Uses
  <2> DEFINE S == [ses[s] EXCEPT !.run = TRUE, !.timer = Http!Spawned]
  <2>7. S \in HttpSession /\ ~S.idle /\ S.wire = <<>>
    BY <2>5, HttpCoros DEF HttpSession
  <2>8. /\ ses' \in [Http!Session -> HttpSession] /\ ses'[s] = S
        /\ \A t \in Http!Session : t # s => ses'[t] = ses[t]
    <3>1. ses' = [ses EXCEPT ![s] = S]
      BY <1>0, <2>1, <2>2, <2>5 DEF HttpSession
    <3> HIDE DEF S, s
    <3> QED BY <1>0, <2>2, <2>7, <3>1
  <2>9. \A t \in Http!Session : ses'[t].run => t \in Range(pool')
    <3> SUFFICES ASSUME NEW t \in Http!Session, t # s, ses[t].run PROVE t \in Range(pool')
      BY <2>2, <2>4, <2>8
    <3> QED BY <1>0, <2>3, <2>4 DEF HttpSessions
  <2> HIDE DEF S, s
  <2> QED BY <2>1, <2>2, <2>4, <2>6, <2>7, <2>8, <2>9, HttpTake DEF s
<1>4. CASE Http!PickNone(c)
  <2>1. /\ co[c].at = "pick" /\ co' = [co EXCEPT ![c] = Http!Ended]
        /\ result' = [result EXCEPT ![c] = "failed"]
        /\ pool' = IF run THEN Http!Alive ELSE pool
        /\ UNCHANGED <<run, due, made, ses, on>>
    BY <1>4, <1>c DEF Http!PickNone, Http!Fails
  <2>2. /\ pool' \in Seq(Http!Session) /\ Len(pool') <= MaxSession
        /\ \A t \in Http!Session : t \in Range(pool) /\ ses[t].run => t \in Range(pool')
    <3>1. /\ Http!Alive \in Seq(Http!Session) /\ Len(Http!Alive) <= Len(pool)
          /\ \A t \in Http!Session : t \in Range(pool) /\ ses[t].run => t \in Range(Http!Alive)
      BY <1>0, HttpScan
    <3>2. Len(Http!Alive) <= MaxSession
      BY <1>0, <3>1
    <3> QED BY <1>0, <2>1, <3>1, <3>2
  <2>3. Http!Ended \in HttpCoro /\ Http!Ended.at = "end"
    BY HttpCoros
  <2> QED BY <1>q, <2>1, <2>2, <2>3
<1> QED BY <1>1, <1>2, <1>3, <1>4

LEMMA HttpCallSteps ==
  ASSUME HttpInv, NEW c \in Msg, Http!Enters(c) \/ Http!GoesOn(c) \/ Http!Returns(c) \/ Http!GivesUp(c) \/ Http!IoDone(c)
  PROVE  HttpInv'
<1> DEFINE s == on[c]
<1>0. /\ co \in [Msg -> HttpCoro] /\ co[c] \in HttpCoro /\ ses \in [Http!Session -> HttpSession]
      /\ on \in [Msg -> Http!Session \cup {0}]
  BY DEF HttpInv, HttpTypes
\* c uses its session s, of which the step changes the fields of S alone.
<1>u. ASSUME co[c].at \in HttpUses, NEW S \in HttpSession, ses' = [ses EXCEPT ![s] = S]
      PROVE  /\ ses' \in [Http!Session -> HttpSession] /\ ses'[s] = S
             /\ \A t \in Http!Session : t # s => ses'[t] = ses[t]
  <2>1. s \in Http!Session
    BY <1>u, HttpOwn
  <2> HIDE DEF s
  <2> QED BY <1>0, <1>u, <2>1
<1>1. CASE Http!Enters(c)
  <2>1. co[c].at = "enter" /\ co[c].at \in HttpUses /\ UNCHANGED <<run, due, pool, made, on>>
    BY <1>1, HttpCoros DEF Http!Enters, HttpUses
  <2>2. s \in Http!Session /\ ses[s] \in HttpSession /\ ses[s].wire = <<>>
    <3>1. co[c] # Http!Coro("write", "ok")
      BY <2>1 DEF Http!Coro
    <3>2. Owed(c) = <<>>
      BY <2>1, <3>1 DEF Owed
    <3> QED BY <2>1, <3>2, HttpOwn
  <2>3. CASE ses[s].run
    <3>1. PICK at \in {"resolve", "write"} : co' = [co EXCEPT ![c] = Http!Suspended(at)]
      BY <1>1, <2>3 DEF Http!Enters, Http!Goes
    <3>2. ses' = [ses EXCEPT ![s] = [ses[s] EXCEPT !.first = FALSE]] /\ UNCHANGED result
      BY <1>1, <2>3 DEF Http!Enters
    <3>3. /\ [ses[s] EXCEPT !.first = FALSE] \in HttpSession
          /\ [ses[s] EXCEPT !.first = FALSE].run = ses[s].run /\ [ses[s] EXCEPT !.first = FALSE].idle = ses[s].idle
          /\ [ses[s] EXCEPT !.first = FALSE].wire = <<>>
      BY <2>2 DEF HttpSession
    <3>4. /\ Http!Suspended(at) \in HttpCoro /\ Http!Suspended(at) # Http!Coro("write", "ok")
          /\ Http!Suspended(at).at \in HttpUses /\ Http!Suspended(at).at # "read"
      BY HttpCoros DEF HttpUses
    <3> QED BY <1>u, <2>1, <3>1, <3>2, <3>3, <3>4, HttpUse
  <2>4. CASE ~ses[s].run
    <3>1. /\ co' = [co EXCEPT ![c] = Http!Ended] /\ result' = [result EXCEPT ![c] = "failed"]
          /\ UNCHANGED ses
      BY <1>1, <2>4 DEF Http!Enters, Http!Fails
    <3> QED BY <1>0, <2>1, <2>2, <3>1, HttpLeave
  <2> QED BY <2>3, <2>4
<1>2. CASE Http!GoesOn(c)
  <2>1. /\ co[c].op = "ok" /\ co[c].at \in {"resolve", "connect", "write"} /\ co[c].at \in HttpUses
        /\ UNCHANGED <<run, due, pool, made, on, result>>
    BY <1>2 DEF Http!GoesOn, Http!After, HttpUses
  <2>2. s \in Http!Session /\ ses[s] \in HttpSession /\ ses[s].wire = Owed(c)
    BY <2>1, HttpOwn
  <2> DEFINE next == Http!After[co[c].at]
             S == [ses[s] EXCEPT !.open = @ \/ co[c].at = "resolve"]
  <2>3. /\ next \in {"connect", "write", "read"} /\ (next = "read" <=> co[c].at = "write")
        /\ co' = [co EXCEPT ![c] = Http!Suspended(next)] /\ ses' = [ses EXCEPT ![s] = S]
    BY <1>2, <2>1 DEF Http!GoesOn, Http!Goes, Http!After
  <2>4. S \in HttpSession /\ S.run = ses[s].run /\ S.idle = ses[s].idle /\ S.wire = Owed(c)
    BY <2>2 DEF HttpSession
  <2> HIDE DEF next, S
  <2>5. Owed(c) = IF next = "read" THEN <<c>> ELSE <<>>
    <3>1. co[c].at = "write" <=> co[c] = Http!Coro("write", "ok")
      BY <1>0, <2>1 DEF HttpCoro, Http!Coro
    <3> QED BY <2>1, <2>3, <3>1 DEF Owed
  <2>6. /\ Http!Suspended(next) \in HttpCoro /\ Http!Suspended(next) # Http!Coro("write", "ok")
        /\ Http!Suspended(next).at = next /\ next \in HttpUses
    BY <2>3, HttpCoros DEF HttpUses
  <2> QED BY <1>u, <2>1, <2>3, <2>4, <2>5, <2>6, HttpUse
<1>3. CASE Http!Returns(c)
  <2>1. /\ co[c].at = "read" /\ co[c].at \in HttpUses /\ UNCHANGED <<run, due, pool, made, on>>
        /\ co' = [co EXCEPT ![c] = Http!Ended]
        /\ result' = [result EXCEPT ![c] = Head(ses[s].wire)]
    BY <1>3, HttpCoros DEF Http!Returns, HttpUses
  <2>2. s \in Http!Session /\ ses[s] \in HttpSession /\ ses[s].wire = <<c>>
    BY <2>1, HttpOwn DEF Owed
  <2> DEFINE B(eof) == IF eof THEN Http!Stopped(ses[s]) ELSE ses[s]
             S(eof) == Http!Freed(B(eof))
  <2>3. PICK eof \in BOOLEAN : ses' = [ses EXCEPT ![s] = S(eof)]
    BY <1>3 DEF Http!Returns
  <2>4. B(eof) \in HttpSession /\ (B(eof).run => ses[s].run) /\ B(eof).wire = <<c>>
    BY <2>2 DEF Http!Stopped, HttpSession
  <2>5. S(eof) \in HttpSession /\ S(eof).wire = <<>> /\ (S(eof).run => ses[s].run)
    <3> HIDE DEF B
    <3>1. Tail(B(eof).wire) = <<>> /\ <<>> \in Seq(Msg)
      BY <2>4
    <3> QED BY <2>4, <3>1 DEF HttpSession, Http!Freed
  <2> HIDE DEF S
  <2>6. /\ ses' \in [Http!Session -> HttpSession] /\ ses'[s] = S(eof)
        /\ \A t \in Http!Session : t # s => ses'[t] = ses[t]
    BY <1>u, <2>1, <2>3, <2>5
  <2>7. Head(ses[s].wire) = c
    BY <2>2
  <2> QED BY <2>1, <2>5, <2>6, <2>7, HttpLeave
<1>4. CASE Http!GivesUp(c)
  <2>1. /\ co[c].at \in HttpUses /\ UNCHANGED <<run, due, pool, made, on>>
        /\ co' = [co EXCEPT ![c] = Http!Ended] /\ result' = [result EXCEPT ![c] = "failed"]
        /\ ses' = [ses EXCEPT ![s] = Http!Stopped(ses[s])]
    BY <1>4 DEF Http!GivesUp, Http!Fails, Http!Io, HttpUses
  <2>2. s \in Http!Session /\ ses[s] \in HttpSession
    BY <2>1, HttpOwn
  <2>3. Http!Stopped(ses[s]) \in HttpSession /\ ~Http!Stopped(ses[s]).run
    BY <2>2 DEF Http!Stopped, HttpSession
  <2> QED BY <1>u, <2>1, <2>3, HttpLeave
<1>5. CASE Http!IoDone(c)
  <2>1. /\ co[c].at \in {"resolve", "connect", "write", "read"} /\ co[c].at \in HttpUses /\ co[c].op = "none"
        /\ UNCHANGED <<run, due, pool, made, on, result>>
    BY <1>5 DEF Http!IoDone, Http!Io, HttpUses
  <2>2. s \in Http!Session /\ ses[s] \in HttpSession /\ ses[s].wire = IF co[c].at = "read" THEN <<c>> ELSE <<>>
    BY <2>1, HttpOwn, HttpCoros DEF Owed
  <2>3. PICK op \in {"ok", "error"} :
          /\ co' = [co EXCEPT ![c] = [co[c] EXCEPT !.op = op]]
          /\ ses' = IF co[c].at = "write" /\ op = "ok"
                    THEN [ses EXCEPT ![s] = [ses[s] EXCEPT !.wire = Append(ses[s].wire, c)]] ELSE ses
    BY <1>5 DEF Http!IoDone
  <2> DEFINE x == [co[c] EXCEPT !.op = op]
             S == IF co[c].at = "write" /\ op = "ok" THEN [ses[s] EXCEPT !.wire = Append(ses[s].wire, c)] ELSE ses[s]
  <2>4. x \in HttpCoro /\ x.at = co[c].at /\ (x = Http!Coro("write", "ok") <=> co[c].at = "write" /\ op = "ok")
    BY <1>0, <2>1 DEF HttpCoro, Http!Coro
  <2>5. ses' = [ses EXCEPT ![s] = S]
    <3>1. CASE co[c].at = "write" /\ op = "ok"
      BY <2>3, <3>1
    <3>2. CASE ~(co[c].at = "write" /\ op = "ok")
      <4>1. ses' = ses /\ S = ses[s]
        BY <2>3, <3>2
      <4> HIDE DEF s, S
      <4> QED BY <1>0, <2>2, <4>1
    <3> QED BY <3>1, <3>2
  <2>6. /\ S \in HttpSession /\ S.run = ses[s].run /\ S.idle = ses[s].idle
        /\ S.wire = IF x.at = "read" \/ x = Http!Coro("write", "ok") THEN <<c>> ELSE <<>>
    <3>1. CASE co[c].at = "write" /\ op = "ok"
      <4>1. ses[s].wire = <<>> /\ S = [ses[s] EXCEPT !.wire = <<c>>] /\ <<c>> \in Seq(Msg)
        BY <2>2, <3>1
      <4>2. [ses[s] EXCEPT !.wire = <<c>>] \in HttpSession
        BY <2>2, <4>1 DEF HttpSession
      <4> QED BY <2>2, <2>4, <3>1, <4>1, <4>2 DEF HttpSession
    <3>2. CASE ~(co[c].at = "write" /\ op = "ok")
      <4>1. S = ses[s]
        BY <3>2
      <4> QED BY <2>2, <2>4, <3>2, <4>1
    <3> QED BY <3>1, <3>2
  <2>7. co' = [co EXCEPT ![c] = x]
    BY <2>3
  <2> HIDE DEF S, x
  <2>8. /\ ses' \in [Http!Session -> HttpSession] /\ ses'[s] = S
        /\ \A t \in Http!Session : t # s => ses'[t] = ses[t]
    BY <1>u, <2>1, <2>5, <2>6
  <2> QED BY <2>1, <2>4, <2>6, <2>7, <2>8, HttpUse
<1> QED BY <1>1, <1>2, <1>3, <1>4, <1>5

\* The operations that a closed stream aborts.
LEMMA HttpAborted ==
  ASSUME HttpInv, NEW s
  PROVE  /\ Http!Aborted(s) \in [Msg -> HttpCoro]
         /\ \A c \in Msg : \/ Http!Aborted(s)[c] = co[c]
                           \/ /\ Http!Aborted(s)[c].at = co[c].at
                              /\ co[c].op = "none" /\ Http!Aborted(s)[c].op = "error"
<1>0. co \in [Msg -> HttpCoro]
  BY DEF HttpInv, HttpTypes
<1> DEFINE f == Http!Aborted(s)
           hit(c) == co[c].op = "none" /\ co[c].at \in {"connect", "write", "read"}
<1>1. /\ DOMAIN f = Msg
      /\ \A c \in Msg : f[c] = co[c] \/ (hit(c) /\ f[c] = [co[c] EXCEPT !.op = "error"])
  BY <1>0 DEF Http!Aborted, Http!Cancelled, Http!Io
<1>2. \A c \in Msg : hit(c) => /\ [co[c] EXCEPT !.op = "error"] \in HttpCoro
                               /\ [co[c] EXCEPT !.op = "error"].at = co[c].at
                               /\ [co[c] EXCEPT !.op = "error"].op = "error"
  BY <1>0 DEF HttpCoro
<1>3. f = [c \in Msg |-> f[c]]
  BY <1>0 DEF Http!Aborted, Http!Cancelled
<1> HIDE DEF f
<1>4. f \in [Msg -> HttpCoro]
  BY <1>0, <1>1, <1>2, <1>3
<1> QED BY <1>1, <1>2, <1>4 DEF f

LEMMA HttpSessionSteps ==
  ASSUME HttpInv, NEW s \in Http!Session, Http!SessionStep(s)
  PROVE  HttpInv'
<1>0. /\ co \in [Msg -> HttpCoro] /\ ses \in [Http!Session -> HttpSession] /\ ses[s] \in HttpSession
  BY DEF HttpInv, HttpTypes
<1>1. CASE Http!Ticks(s)
  <2>1. ses' = [ses EXCEPT ![s] = Http!Ticked(ses[s])] /\ UNCHANGED <<run, due, pool, made, co, on, result>>
    BY <1>1 DEF Http!Ticks
  <2>2. /\ Http!Ticked(ses[s]) \in HttpSession /\ Http!Ticked(ses[s]).idle = ses[s].idle
        /\ Http!Ticked(ses[s]).wire = ses[s].wire /\ (Http!Ticked(ses[s]).run => ses[s].run)
    BY <1>0, HttpCoros DEF Http!Ticked, HttpSession
  <2> QED BY <1>0, <2>1, <2>2, HttpOne
<1>2. CASE Http!SockStops(s)
  <2> DEFINE S == [ses[s] EXCEPT !.due = ses[s].due \ {"sock"}, !.open = FALSE]
  <2>1. ses' = [ses EXCEPT ![s] = S]
    BY <1>0, <1>2 DEF Http!SockStops, HttpSession
  <2>2. co' = Http!Aborted(s) /\ UNCHANGED <<run, due, pool, made, on, result>>
    BY <1>2 DEF Http!SockStops
  <2>3. S \in HttpSession /\ S.idle = ses[s].idle /\ S.wire = ses[s].wire /\ S.run = ses[s].run
    BY <1>0 DEF HttpSession
  <2> HIDE DEF S
  <2> QED BY <2>1, <2>2, <2>3, HttpAborted, HttpOne
<1>3. CASE Http!MgrStops(s)
  <2> DEFINE T == IF ses[s].timer = Http!Suspended("wait") THEN Http!Coro("wait", "error") ELSE ses[s].timer
             S == [ses[s] EXCEPT !.due = ses[s].due \ {"mgr"}, !.timer = T]
  <2>0. T \in HttpTimer
    BY <1>0 DEF HttpSession, HttpTimer, Http!Coro
  <2>1. ses' = [ses EXCEPT ![s] = S]
    BY <1>0, <1>3 DEF Http!MgrStops, HttpSession
  <2>2. UNCHANGED <<run, due, pool, made, co, on, result>>
    BY <1>3 DEF Http!MgrStops
  <2> HIDE DEF T
  <2>3. S \in HttpSession /\ S.idle = ses[s].idle /\ S.wire = ses[s].wire /\ S.run = ses[s].run
    BY <1>0, <2>0 DEF HttpSession
  <2> HIDE DEF S
  <2> QED BY <1>0, <2>1, <2>2, <2>3, HttpOne
<1>4. CASE Http!TimerFires(s)
  <2> DEFINE T == [ses[s].timer EXCEPT !.op = "ok"]
             S == [ses[s] EXCEPT !.timer = T]
  <2>0. T \in HttpTimer
    BY <1>0 DEF HttpSession, HttpTimer
  <2>1. ses' = [ses EXCEPT ![s] = S] /\ UNCHANGED <<run, due, pool, made, co, on, result>>
    BY <1>4 DEF Http!TimerFires
  <2> HIDE DEF T
  <2>2. S \in HttpSession /\ S.idle = ses[s].idle /\ S.wire = ses[s].wire /\ S.run = ses[s].run
    BY <1>0, <2>0 DEF HttpSession
  <2> HIDE DEF S
  <2> QED BY <1>0, <2>1, <2>2, HttpOne
<1> QED BY <1>1, <1>2, <1>3, <1>4 DEF Http!SessionStep

LEMMA HttpStep ==
  ASSUME HttpInv, Http!Next
  PROVE  HttpInv'
<1>0. HttpTypes /\ HttpSessions /\ ses \in [Http!Session -> HttpSession] /\ MaxSession \in Nat
  BY HttpCardinality DEF HttpInv, HttpTypes
<1>1. CASE Http!Stop
  <2>1. run' = FALSE /\ due' = TRUE /\ UNCHANGED <<pool, made, ses, co, on, result>>
    BY <1>1 DEF Http!Stop
  <2>2. HttpTypes'
    BY <1>0, <2>1 DEF HttpTypes
  <2> QED BY <1>0, <2>1, <2>2, HttpStill DEF HttpSessions
<1>2. CASE Http!StopHandler
  <2>1. /\ due' = FALSE /\ pool' = <<>> /\ UNCHANGED <<run, made, co, on, result>>
        /\ ses' = [s \in Http!Session |->
                     IF (\E i \in 1..Len(pool) : pool[i] = s) /\ ses[s].run
                     THEN [ses[s] EXCEPT !.run = FALSE, !.due = {"sock", "mgr"}] ELSE ses[s]]
    BY <1>2 DEF Http!StopHandler, Http!Contains
  <2>2. ses' \in [Http!Session -> HttpSession]
    <3>1. \A S \in HttpSession : [S EXCEPT !.run = FALSE, !.due = {"sock", "mgr"}] \in HttpSession
      BY DEF HttpSession
    <3> QED BY <1>0, <2>1, <3>1
  <2>3. HttpTypes'
    <3>1. pool' \in Seq(Http!Session) /\ Len(pool') <= MaxSession
      <4>1. pool' = <<>>
        BY <2>1
      <4>2. \A S : <<>> \in Seq(S) /\ Len(<<>>) = 0
        OBVIOUS
      <4> QED BY <1>0, <4>1, <4>2
    <3>2. due' \in BOOLEAN
      BY <2>1
    <3> QED BY <1>0, <2>1, <2>2, <3>1, <3>2 DEF HttpTypes
  <2>4. \A s \in Http!Session : ses'[s].idle = ses[s].idle /\ ses'[s].wire = ses[s].wire /\ ~ses'[s].run
    <3> SUFFICES ASSUME NEW s \in Http!Session
                 PROVE  ses'[s].idle = ses[s].idle /\ ses'[s].wire = ses[s].wire /\ ~ses'[s].run
      OBVIOUS
    <3>1. ses[s] \in HttpSession
      BY <1>0
    <3>2. ses[s].run => \E i \in 1..Len(pool) : pool[i] = s
      <4>1. DOMAIN pool = 1..Len(pool)
        BY <1>0 DEF HttpTypes
      <4> QED BY <1>0, <4>1 DEF HttpSessions, Range
    <3>3. CASE ses[s].run
      <4>1. ses'[s] = [ses[s] EXCEPT !.run = FALSE, !.due = {"sock", "mgr"}]
        BY <2>1, <3>2, <3>3
      <4> QED BY <3>1, <4>1 DEF HttpSession
    <3>4. CASE ~ses[s].run
      <4>1. ses'[s] = ses[s]
        BY <2>1, <3>4
      <4> QED BY <3>4, <4>1
    <3> QED BY <3>3, <3>4
  <2> QED BY <2>1, <2>3, <2>4, HttpStill
<1> QED BY <1>1, <1>2, HttpPicks, HttpCallSteps, HttpSessionSteps DEF Http!Next, Http!CallStep

LEMMA HttpHolds == HttpInv => Http!CallsAreSeparate
<1> SUFFICES ASSUME HttpInv PROVE Http!CallsAreSeparate
  OBVIOUS
<1>1. ASSUME NEW c \in Msg, co[c].at \notin HttpUses, on[c] # 0 PROVE co[c] = Http!Ended
  <2>1. co[c] \in HttpCoro /\ co[c].at \notin {"new", "pick"}
    BY <1>1 DEF HttpInv, HttpTypes, HttpCalls
  <2> QED BY <1>1, <2>1 DEF HttpCoro, HttpUses, Http!Ended, Http!Coro
<1>2. \A c, d \in Msg : c # d /\ on[c] = on[d] /\ on[c] # 0 => co[c] = Http!Ended \/ co[d] = Http!Ended
  BY <1>1 DEF HttpInv, HttpCalls
<1>3. DOMAIN pool = 1..Len(pool) /\ Len(pool) <= MaxSession
  BY DEF HttpInv, HttpTypes
<1>4. \A s \in Http!Session : ses[s].run => Http!Contains(pool, s) /\ (run \/ due)
  BY <1>3 DEF HttpInv, HttpSessions, Http!Contains, Range
<1> QED BY <1>2, <1>3, <1>4 DEF Http!CallsAreSeparate, HttpInv, HttpCalls, Http!NoSession

-----------------------------------------------------------------------------
(***************************************************************************)
(* The signals.                                                            *)
(***************************************************************************)
\* A thread that is owed its return is awake, and a LightSignalAtomic keeps its
\* flag while one is: no such thread goes back to sleep.
SignalInv ==
  /\ atomic \in BOOLEAN /\ flag \in BOOLEAN
  /\ where \in [Thread -> {"idle", "sleep", "woken", "notify"}]
  /\ owed \subseteq {t \in Thread : where[t] = "woken"}
  /\ atomic /\ owed # {} => flag
  /\ (\E t \in Thread : where[t] = "notify") => atomic
  /\ flag /\ Tools!Asleep # {} => \E t \in Thread : where[t] = "notify"

LEMMA SignalInit == Tools!SignalInit => SignalInv
BY DEF Tools!SignalInit, SignalInv, Tools!Asleep

LEMMA SignalStep ==
  ASSUME SignalInv, Tools!SignalNext
  PROVE  SignalInv'
<1> USE DEF SignalInv, Tools!Asleep
<1>0. PICK t \in Thread : \/ Tools!Wait(t) \/ Tools!Notify(t) \/ Tools!NotifyAll(t)
                          \/ Tools!Returns(t) \/ Tools!WakesUp(t) \/ Tools!Reset(t)
  BY DEF Tools!SignalNext
<1>1. CASE Tools!Wait(t)
  BY <1>1 DEF Tools!Wait
<1>2. CASE Tools!Notify(t)
  <2>1. CASE atomic
    BY <1>2, <2>1 DEF Tools!Notify
  <2>2. CASE ~atomic
    BY <1>2, <2>2 DEF Tools!Notify, Tools!Woken
  <2> QED BY <2>1, <2>2
<1>3. CASE Tools!NotifyAll(t)
  BY <1>3 DEF Tools!NotifyAll, Tools!Woken
<1>4. CASE Tools!Returns(t)
  BY <1>4 DEF Tools!Returns
<1>5. CASE Tools!WakesUp(t)
  BY <1>5 DEF Tools!WakesUp
<1>6. CASE Tools!Reset(t)
  BY <1>6 DEF Tools!Reset
<1> QED BY <1>0, <1>1, <1>2, <1>3, <1>4, <1>5, <1>6

LEMMA SignalHolds == SignalInv => Tools!NotifiedReturn
BY DEF SignalInv, Tools!NotifiedReturn, Tools!Asleep

-----------------------------------------------------------------------------
(***************************************************************************)
(* The coroutine scheduler.                                                *)
(***************************************************************************)
\* As long as the user is careful and quick Resumes have broken nothing, the
\* flag tells where the coroutine is, and what the user has seen is every
\* value but the one that waits for it.
CoroInv ==
  /\ careful \in BOOLEAN /\ broken \in BOOLEAN
  /\ value \in Nat /\ seen \in Seq(Nat)
  /\ careful /\ ~broken =>
       /\ body \in {"run", "stored", "parked", "done"} /\ user \in {"new", "seen", "exchange"}
       /\ state = IF body = "run" THEN "RUN" ELSE IF body = "done" THEN "END" ELSE "YIELD"
       /\ user # "new" => state # "RUN"
       /\ user = "exchange" => state = "YIELD"
       /\ seen = Count(Len(seen))
       /\ value = Len(seen) + (IF user = "new" /\ state # "RUN" THEN 1 ELSE 0)

LEMMA CoroInit == Tools!CoroInit => CoroInv
<1>1. Count(0) = <<>> /\ Len(<<>>) = 0 /\ <<>> \in Seq(Nat)
  BY CountIs
<1> SUFFICES ASSUME Tools!CoroInit PROVE CoroInv
  OBVIOUS
<1>2. /\ state = "RUN" /\ body = "run" /\ value = 0 /\ user = "new" /\ seen = <<>>
      /\ careful = TRUE /\ broken = FALSE
  BY DEF Tools!CoroInit
<1>3. seen = Count(Len(seen)) /\ Len(seen) = 0 /\ seen \in Seq(Nat)
  BY <1>1, <1>2
<1>4. value = Len(seen) + 0
  BY <1>2, <1>3
<1>5. /\ body \in {"run", "stored", "parked", "done"} /\ user \in {"new", "seen", "exchange"}
      /\ state = IF body = "run" THEN "RUN" ELSE IF body = "done" THEN "END" ELSE "YIELD"
      /\ (user # "new" => state # "RUN") /\ (user = "exchange" => state = "YIELD")
  BY <1>2
<1>6. value = Len(seen) + (IF user = "new" /\ state # "RUN" THEN 1 ELSE 0)
  BY <1>2, <1>4
<1>7. careful \in BOOLEAN /\ broken \in BOOLEAN /\ value \in Nat
  BY <1>2
<1> QED BY <1>3, <1>5, <1>6, <1>7 DEF CoroInv

LEMMA CoroStep ==
  ASSUME CoroInv, Tools!CoroNext
  PROVE  CoroInv'
<1>1. CASE Tools!Gives
  BY <1>1 DEF Tools!Gives, CoroInv
<1>2. CASE Tools!Suspends
  BY <1>2 DEF Tools!Suspends, CoroInv
<1>3. CASE Tools!Get
  <2>1. CASE user = "new"
    <3>1. seen' = Append(seen, value) /\ seen' \in Seq(Nat) /\ Len(seen') = Len(seen) + 1
      BY <1>3, <2>1 DEF Tools!Get, CoroInv
    <3>2. ASSUME careful, ~broken PROVE seen' = Count(Len(seen'))
      <4>1. value = Len(seen) + 1 /\ seen = Count(Len(seen)) /\ Len(seen) \in Nat
        BY <1>3, <2>1, <3>2 DEF Tools!Get, CoroInv
      <4>2. Append(Count(Len(seen)), Len(seen) + 1) = Count(Len(seen) + 1)
        BY <4>1, CountIs
      <4> QED BY <3>1, <4>1, <4>2
    <3> QED BY <1>3, <2>1, <3>1, <3>2 DEF Tools!Get, CoroInv
  <2>2. CASE user # "new"
    BY <1>3, <2>2 DEF Tools!Get, CoroInv
  <2> QED BY <2>1, <2>2
<1>4. CASE Tools!Resume
  BY <1>4 DEF Tools!Resume, CoroInv
<1>5. CASE Tools!Exchange
  BY <1>5 DEF Tools!Exchange, CoroInv
<1> QED BY <1>1, <1>2, <1>3, <1>4, <1>5 DEF Tools!CoroNext

LEMMA CoroHolds == CoroInv => Tools!ValuesInOrder
<1> SUFFICES ASSUME CoroInv, careful, ~broken
             PROVE  seen = [i \in DOMAIN seen |-> i] /\ (state = "RUN" <=> body = "run")
  BY DEF Tools!ValuesInOrder
<1>1. seen = Count(Len(seen)) /\ DOMAIN seen = 1..Len(seen)
  BY DEF CoroInv
<1> QED BY <1>1 DEF CoroInv, Count

-----------------------------------------------------------------------------
(***************************************************************************)
(* The guids.                                                              *)
(***************************************************************************)
LEMMA ToolsCardinality == \A S : Tools!Cardinality(S) = Cardinality(S)
BY Zenon DEF Tools!Cardinality, Cardinality

LEMMA SeqElements ==
  ASSUME NEW S, NEW q \in Seq(S)
  PROVE  Len(q) \in Nat /\ DOMAIN q = 1..Len(q) /\ \A i \in 1..Len(q) : q[i] \in S
OBVIOUS

\* The guids given in second t, and the order of their fields.
GivenAt(t) == {i \in DOMAIN issued : issued[i].t = t}
Earlier(g, h) == g.t < h.t \/ (g.t = h.t /\ g.ins < h.ins)

\* As long as no second is crowded, the last guid is the latest one, and its
\* instance number counts the guids of its second: the next one does not wrap.
GuidInv ==
  /\ guid \in [t : Nat, ins : Nat] /\ issued \in Seq([t : Nat, ins : Nat])
  /\ IF issued = <<>> THEN guid.t = 0 ELSE guid.t \in Time
  /\ ~Tools!Crowded =>
       /\ guid.ins < InstNum /\ \A i \in DOMAIN issued : issued[i].ins < InstNum
       /\ issued # <<>> => guid = issued[Len(issued)] /\ Cardinality(GivenAt(guid.t)) = guid.ins + 1
       /\ \A i, j \in DOMAIN issued : i < j => Earlier(issued[i], issued[j])

LEMMA GuidInit == Tools!GuidInit => GuidInv
BY ToolsAssumption DEF Tools!GuidInit, GuidInv

LEMMA GuidStep ==
  ASSUME GuidInv, Tools!GuidNext
  PROVE  GuidInv'
<1> DEFINE n == Len(issued)
<1>0. PICK now \in Time : Tools!GetGuid(now)
  BY DEF Tools!GuidNext
<1>1. /\ InstNum \in Nat /\ InstNum > 0 /\ now \in Nat /\ now > 0
      /\ n \in Nat /\ DOMAIN issued = 1..n /\ guid.t \in Nat /\ guid.ins \in Nat
      /\ \A i \in 1..n : issued[i].t \in Nat /\ issued[i].ins \in Nat
  <2>1. guid \in [t : Nat, ins : Nat] /\ issued \in Seq([t : Nat, ins : Nat])
    BY DEF GuidInv
  <2>2. n \in Nat /\ DOMAIN issued = 1..n /\ \A i \in 1..n : issued[i] \in [t : Nat, ins : Nat]
    BY <2>1, SeqElements
  <2> QED BY <2>1, <2>2, ToolsAssumption
<1>2. /\ guid' = IF now > guid.t THEN [t |-> now, ins |-> 0]
                 ELSE [guid EXCEPT !.ins = (guid.ins + 1) % InstNum]
      /\ issued' = Append(issued, guid')
  BY <1>0 DEF Tools!GetGuid
<1>3. guid'.t \in Nat /\ guid'.ins \in Nat /\ guid' \in [t : Nat, ins : Nat]
  <2>1. (guid.ins + 1) % InstNum \in Nat
    BY <1>1
  <2>2. guid \in [t : Nat, ins : Nat]
    BY DEF GuidInv
  <2> QED BY <1>1, <1>2, <2>1, <2>2
<1>5. /\ issued' \in Seq([t : Nat, ins : Nat]) /\ Len(issued') = n + 1 /\ DOMAIN issued' = 1..(n + 1)
      /\ \A i \in 1..n : issued'[i] = issued[i]
      /\ issued'[n + 1] = guid'
  <2>1. issued \in Seq([t : Nat, ins : Nat])
    BY DEF GuidInv
  <2> QED BY <1>2, <1>3, <2>1
<1>6. ASSUME NEW t PROVE GivenAt(t)' = IF guid'.t = t THEN GivenAt(t) \cup {n + 1} ELSE GivenAt(t)
  <2>1. \A i : i \in 1..(n + 1) <=> i \in 1..n \/ i = n + 1
    BY <1>1
  <2> QED BY <1>1, <1>5, <2>1 DEF GivenAt
<1>7. ASSUME NEW t PROVE IsFiniteSet(GivenAt(t)) /\ Cardinality(GivenAt(t)) \in Nat /\ n + 1 \notin GivenAt(t)
  <2>1. GivenAt(t) \subseteq 1..n
    BY <1>1 DEF GivenAt
  <2>2. IsFiniteSet(1..n)
    BY <1>1, FS_Interval
  <2> QED BY <1>1, <2>1, <2>2, FS_Subset, FS_CardinalityType
<1>8. ASSUME NEW t PROVE Cardinality(GivenAt(t)') = Cardinality(GivenAt(t)) + (IF guid'.t = t THEN 1 ELSE 0)
  BY <1>6, <1>7, FS_AddElement
<1>9. /\ Tools!Crowded <=> \E t \in Time : Cardinality(GivenAt(t)) > InstNum
      /\ Tools!Crowded' <=> \E t \in Time : Cardinality(GivenAt(t)') > InstNum
  BY ToolsCardinality DEF Tools!Crowded, GivenAt
<1>10. Tools!Crowded => Tools!Crowded'
  <2> SUFFICES ASSUME NEW t \in Time, Cardinality(GivenAt(t)) > InstNum
               PROVE  Cardinality(GivenAt(t)') > InstNum
    BY <1>9
  <2>1. Cardinality(GivenAt(t)) \in Nat
    BY <1>7
  <2> QED BY <1>1, <1>8, <2>1
<1>11. CASE now > guid.t
  <2>1. guid' = [t |-> now, ins |-> 0] /\ guid'.t = now /\ guid'.ins = 0
    BY <1>2, <1>11
  <2>3. ASSUME ~Tools!Crowded'
        PROVE  /\ \A i \in 1..n : issued[i].t < now
               /\ \A i, j \in DOMAIN issued' : i < j => Earlier(issued'[i], issued'[j])
               /\ \A i \in DOMAIN issued' : issued'[i].ins < InstNum
    <3>1. ~Tools!Crowded
      BY <1>10, <2>3
    <3>2. ASSUME NEW i \in 1..n PROVE issued[i].t < now
      <4>1. guid = issued[n] /\ n \in 1..n
        BY <1>1, <3>1, <3>2 DEF GuidInv
      <4>2. i = n \/ Earlier(issued[i], issued[n])
        <5>1. i \in DOMAIN issued /\ n \in DOMAIN issued /\ (i < n \/ i = n)
          <6> HIDE DEF n
          <6> QED BY <1>1, <4>1
        <5>2. \A k, j \in DOMAIN issued : k < j => Earlier(issued[k], issued[j])
          BY <3>1 DEF GuidInv
        <5> HIDE DEF n
        <5> QED BY <5>1, <5>2
      <4>3. issued[i].t \in Nat /\ guid.t \in Nat /\ now \in Nat
        BY <1>1
      <4>4. issued[i].t = guid.t \/ issued[i].t < guid.t
        BY <4>1, <4>2 DEF Earlier
      <4> QED BY <1>11, <4>3, <4>4
    <3>3. ASSUME NEW i \in DOMAIN issued', NEW j \in DOMAIN issued', i < j
          PROVE  Earlier(issued'[i], issued'[j])
      <4>1. CASE j = n + 1
        <5>1. i \in 1..n /\ issued'[i] = issued[i] /\ issued'[j] = guid'
          BY <1>1, <1>5, <3>3, <4>1
        <5>2. issued'[i].t < issued'[j].t
          BY <2>1, <3>2, <5>1
        <5> QED BY <5>2 DEF Earlier
      <4>2. CASE j # n + 1
        <5>1. i \in DOMAIN issued /\ j \in DOMAIN issued /\ issued'[i] = issued[i] /\ issued'[j] = issued[j]
          BY <1>1, <1>5, <3>3, <4>2
        <5> QED BY <3>1, <3>3, <5>1 DEF GuidInv
      <4> QED BY <4>1, <4>2
    <3>4. ASSUME NEW i \in DOMAIN issued' PROVE issued'[i].ins < InstNum
      <4>1. CASE i = n + 1
        BY <1>1, <1>5, <2>1, <4>1
      <4>2. CASE i # n + 1
        <5>1. i \in DOMAIN issued /\ issued'[i] = issued[i]
          BY <1>1, <1>5, <4>2
        <5> QED BY <3>1, <5>1 DEF GuidInv
      <4> QED BY <4>1, <4>2
    <3> QED BY <3>2, <3>3, <3>4
  <2>4. ASSUME ~Tools!Crowded' PROVE Cardinality(GivenAt(now)') = 1
    <3>1. GivenAt(now) = {}
      BY <1>1, <2>3, <2>4 DEF GivenAt
    <3> QED BY <1>8, <2>1, <3>1, FS_EmptySet
  <2>5. issued' # <<>> /\ GivenAt(guid.t)' = GivenAt(now)'
    BY <1>5, <2>1
  <2> QED BY <1>1, <1>3, <1>5, <2>1, <2>3, <2>4, <2>5 DEF GuidInv
<1>12. CASE ~(now > guid.t)
  <2>1. guid' = [guid EXCEPT !.ins = (guid.ins + 1) % InstNum] /\ guid'.t = guid.t
        /\ guid'.ins = (guid.ins + 1) % InstNum
    BY <1>2, <1>12 DEF GuidInv
  <2>2. ASSUME ~Tools!Crowded'
        PROVE  /\ n > 0 /\ guid = issued[n] /\ guid.t \in Time
               /\ guid'.ins = guid.ins + 1 /\ guid.ins + 1 < InstNum
               /\ Cardinality(GivenAt(guid.t)') = guid'.ins + 1
    <3>1. ~Tools!Crowded
      BY <1>10, <2>2
    <3>2. issued # <<>> /\ guid = issued[n] /\ n > 0
      <4>1. issued # <<>>
        <5>1. guid.t # 0
          <6>1. now \in Nat /\ now > 0 /\ guid.t \in Nat
            BY <1>1
          <6> QED BY <1>12, <6>1
        <5> QED BY <5>1 DEF GuidInv
      <4>2. n # 0
        BY <4>1 DEF GuidInv
      <4> QED BY <1>1, <3>1, <4>1, <4>2 DEF GuidInv
    <3>3. guid.t \in Time
      BY <3>2 DEF GuidInv
    <3>4. Cardinality(GivenAt(guid.t)) = guid.ins + 1
      BY <3>1, <3>2 DEF GuidInv
    <3>5. Cardinality(GivenAt(guid.t)') = guid.ins + 2
      <4>1. \A t : guid'.t = t => Cardinality({i \in DOMAIN issued' : issued'[i].t = t}) = Cardinality(GivenAt(t)) + 1
        BY <1>8 DEF GivenAt
      <4> QED BY <1>1, <2>1, <3>4, <4>1 DEF GivenAt
    <3>6. guid.ins + 2 <= InstNum
      <4>1. \A t \in Time : ~(Cardinality({i \in DOMAIN issued' : issued'[i].t = t}) > InstNum)
        BY <1>9, <2>2 DEF GivenAt
      <4>2. ~(Cardinality(GivenAt(guid.t)') > InstNum)
        BY <2>1, <3>3, <4>1 DEF GivenAt
      <4> QED BY <1>1, <3>5, <4>2
    <3>7. (guid.ins + 1) % InstNum = guid.ins + 1
      <4>1. \A x, y \in Nat : x < y => x % y = x
        OBVIOUS
      <4>2. guid.ins + 1 \in Nat /\ guid.ins + 1 < InstNum
        BY <1>1, <3>6
      <4> QED BY <1>1, <4>1, <4>2
    <3> QED BY <1>1, <2>1, <3>2, <3>3, <3>5, <3>6, <3>7
  <2>3. ASSUME ~Tools!Crowded'
        PROVE  /\ \A i, j \in DOMAIN issued' : i < j => Earlier(issued'[i], issued'[j])
               /\ \A i \in DOMAIN issued' : issued'[i].ins < InstNum
    <3>1. ~Tools!Crowded /\ issued # <<>>
      BY <1>10, <2>2, <2>3
    <3>2. \A i \in DOMAIN issued' : i = n + 1 \/ (i \in DOMAIN issued /\ issued'[i] = issued[i])
      BY <1>1, <1>5
    <3>3. ASSUME NEW i \in DOMAIN issued', NEW j \in DOMAIN issued', i < j
          PROVE  Earlier(issued'[i], issued'[j])
      <4>0. i \in DOMAIN issued /\ issued'[i] = issued[i]
        BY <1>1, <1>5, <3>3
      <4>1. CASE j = n + 1
        <5>1. n \in DOMAIN issued /\ issued[n] = guid /\ (i = n \/ i < n)
          BY <1>1, <2>2, <2>3, <4>0
        <5>2. i = n \/ Earlier(issued[i], issued[n])
          BY <3>1, <4>0, <5>1 DEF GuidInv
        <5>3. issued'[j] = guid' /\ guid'.t = guid.t /\ guid'.ins > guid.ins
          <6>1. guid'.ins = guid.ins + 1
            BY <2>2, <2>3
          <6> QED BY <1>1, <1>5, <2>1, <4>1, <6>1
        <5>4. issued[i].t \in Nat /\ issued[i].ins \in Nat /\ guid.t \in Nat /\ guid.ins \in Nat
          BY <1>1, <4>0
        <5>5. issued[i] = guid \/ Earlier(issued[i], guid)
          BY <5>1, <5>2
        <5> QED BY <1>3, <4>0, <5>3, <5>4, <5>5 DEF Earlier
      <4>2. CASE j # n + 1
        BY <3>1, <3>2, <3>3, <4>0, <4>2 DEF GuidInv
      <4> QED BY <4>1, <4>2
    <3>4. ASSUME NEW i \in DOMAIN issued' PROVE issued'[i].ins < InstNum
      <4>1. CASE i = n + 1
        BY <1>5, <2>2, <2>3, <4>1
      <4>2. CASE i # n + 1
        BY <3>1, <3>2, <4>2 DEF GuidInv
      <4> QED BY <4>1, <4>2
    <3> QED BY <3>3, <3>4
  <2>4. ~Tools!Crowded' => guid'.ins < InstNum /\ Cardinality(GivenAt(guid.t)') = guid'.ins + 1
    BY <1>1, <2>2
  <2>5. guid'.t \in Time
    <3>1. now \in Nat /\ now > 0 /\ guid.t \in Nat
      BY <1>1
    <3>2. guid.t # 0
      BY <1>12, <3>1
    <3> QED BY <2>1, <3>2 DEF GuidInv
  <2>6. issued' # <<>>
    BY <1>1, <1>5
  <2> QED BY <1>3, <1>5, <2>6, <2>3, <2>4, <2>5 DEF GuidInv
<1> QED BY <1>11, <1>12

\* The fields are in the order of the ids.
LEMMA GuidHolds == GuidInv => Tools!GuidsIncrease
<1> SUFFICES ASSUME GuidInv, ~Tools!Crowded,
                    NEW i \in DOMAIN issued, NEW j \in DOMAIN issued, i < j
             PROVE  Tools!Id(issued[i]) < Tools!Id(issued[j])
  BY DEF Tools!GuidsIncrease
<1> DEFINE g == issued[i]
           h == issued[j]
<1>1. /\ g.t \in Nat /\ g.ins \in Nat /\ h.t \in Nat /\ h.ins \in Nat /\ InstNum \in Nat
      /\ g.ins < InstNum /\ h.ins < InstNum /\ Earlier(g, h)
  <2>1. g \in [t : Nat, ins : Nat] /\ h \in [t : Nat, ins : Nat]
    BY SeqElements DEF GuidInv
  <2>2. g.ins < InstNum /\ h.ins < InstNum /\ Earlier(g, h)
    BY DEF GuidInv
  <2> QED BY <2>1, <2>2, ToolsAssumption
<1>2. ASSUME NEW x \in Nat, NEW y \in Nat, NEW m \in Nat, x < y PROVE x * m + m <= y * m
  <2>1. y = x + 1 + (y - x - 1) /\ y - x - 1 \in Nat
    BY <1>2
  <2>2. \A d \in Nat : (x + 1 + d) * m = x * m + m + d * m /\ d * m \in Nat
    OBVIOUS
  <2> QED BY <2>1, <2>2
<1>3. \A x, m \in Nat : x * m \in Nat
  OBVIOUS
<1> HIDE DEF g, h
<1>4. CASE g.t < h.t
  <2>1. g.t * InstNum + InstNum <= h.t * InstNum
    BY <1>1, <1>2, <1>4
  <2> QED BY <1>1, <1>3, <2>1 DEF Tools!Id, g, h
<1>5. CASE g.t = h.t /\ g.ins < h.ins
  BY <1>1, <1>3, <1>5 DEF Tools!Id, g, h
<1> QED BY <1>1, <1>4, <1>5 DEF Earlier

-----------------------------------------------------------------------------
(***************************************************************************)
(* The ring buffer.                                                        *)
(***************************************************************************)
\* Until it strays, the array holds the queue from the read position on.
RingInv ==
  /\ strayed \in BOOLEAN
  /\ ~strayed =>
       /\ fifo \in Seq(Item) /\ DOMAIN content = 0..(BufSize - 1)
       /\ wpos \in 0..(BufSize - 1) /\ rpos \in 0..(BufSize - 1)
       /\ Len(fifo) = Arrays!Size
       /\ \A pos \in 0..(Arrays!Size - 1) : content[Arrays!Wrapped(rpos + pos)] = fifo[pos + 1]

LEMMA RingInit == Arrays!RingInit => RingInv
<1> SUFFICES ASSUME Arrays!RingInit PROVE RingInv
  OBVIOUS
<1>1. /\ strayed = FALSE /\ wpos = 0 /\ rpos = 0 /\ fifo = <<>> /\ DOMAIN content = 0..(BufSize - 1)
  BY DEF Arrays!RingInit
<1>2. Arrays!Size = 0 /\ 0 \in 0..(BufSize - 1) /\ <<>> \in Seq(Item) /\ Len(<<>>) = 0
  BY <1>1, ToolsAssumption DEF Arrays!Size
<1>3. 0..(0 - 1) = {}
  OBVIOUS
<1> QED BY <1>1, <1>2, <1>3 DEF RingInv

\* The positions from one on: adding to a position and wrapping it.
LEMMA WrappedIn ==
  ASSUME NEW p \in 0..(BufSize - 1), NEW d \in 0..(BufSize - 1)
  PROVE  /\ Arrays!Wrapped(p + d) \in 0..(BufSize - 1)
         /\ \A e \in 0..(BufSize - 1 - d) : Arrays!Wrapped(Arrays!Wrapped(p + d) + e) = Arrays!Wrapped(p + d + e)
BY ToolsAssumption DEF Arrays!Wrapped

LEMMA SizeIn ==
  ASSUME RingInv, ~strayed
  PROVE  /\ Arrays!Size \in 0..(BufSize - 1) /\ Arrays!Size + Arrays!UnusedCapacity = BufSize - 1
         /\ Arrays!Empty <=> Arrays!Size = 0
         /\ Arrays!Full <=> Arrays!Size = BufSize - 1
         /\ Arrays!Wrapped(rpos + Arrays!Size) = wpos
<1>1. wpos \in 0..(BufSize - 1) /\ rpos \in 0..(BufSize - 1) /\ BufSize \in Nat \ {0}
  BY ToolsAssumption DEF RingInv
<1> QED BY <1>1 DEF Arrays!Size, Arrays!UnusedCapacity, Arrays!Empty, Arrays!Full, Arrays!Wrapped

LEMMA Joined ==
  ASSUME NEW S, NEW p \in Seq(S), NEW q \in Seq(S)
  PROVE  /\ p \o q \in Seq(S) /\ Len(p \o q) = Len(p) + Len(q)
         /\ \A i \in 1..(Len(p) + Len(q)) : (p \o q)[i] = IF i <= Len(p) THEN p[i] ELSE q[i - Len(p)]
OBVIOUS

LEMMA LenIn ==
  ASSUME NEW S, NEW q \in Seq(S)
  PROVE  Len(q) \in Nat
OBVIOUS

LEMMA OneIs ==
  ASSUME NEW S, NEW q \in Seq(S), NEW x \in S
  PROVE  <<x>> \in Seq(S) /\ Len(<<x>>) = 1 /\ <<x>>[1] = x /\ q \o <<x>> = Append(q, x)
OBVIOUS

LEMMA Taken ==
  ASSUME NEW S, NEW q \in Seq(S), NEW k \in 0..Len(q)
  PROVE  /\ SubSeq(q, k + 1, Len(q)) \in Seq(S) /\ Len(SubSeq(q, k + 1, Len(q))) = Len(q) - k
         /\ \A i \in 1..(Len(q) - k) : SubSeq(q, k + 1, Len(q))[i] = q[k + i]
OBVIOUS

\* The cells from position r up to w, across the end of the array.
Gap(w, r) == IF w >= r THEN w - r ELSE w + BufSize - r

LEMMA GapGrows ==
  ASSUME NEW w \in 0..(BufSize - 1), NEW r \in 0..(BufSize - 1), NEW k \in Nat, Gap(w, r) + k <= BufSize - 1
  PROVE  Arrays!Wrapped(w + k) \in 0..(BufSize - 1) /\ Gap(Arrays!Wrapped(w + k), r) = Gap(w, r) + k
<1>t. BufSize \in Nat \ {0} /\ w \in Int /\ r \in Int /\ k \in Nat /\ 0 <= w /\ 0 <= r /\ w < BufSize /\ r < BufSize
  BY ToolsAssumption
<1>1. CASE w + k < BufSize
  <2>1. Arrays!Wrapped(w + k) = w + k
    BY <1>t, <1>1 DEF Arrays!Wrapped
  <2>2. w + k \in 0..(BufSize - 1) /\ Gap(w + k, r) = Gap(w, r) + k
    BY <1>t, <1>1 DEF Gap
  <2> QED BY <2>1, <2>2, Zenon
<1>2. CASE ~(w + k < BufSize)
  <2>1. Arrays!Wrapped(w + k) = w + k - BufSize
    BY <1>t, <1>2 DEF Arrays!Wrapped
  <2>2. w + k - BufSize \in 0..(BufSize - 1) /\ Gap(w + k - BufSize, r) = Gap(w, r) + k
    BY <1>t, <1>2 DEF Gap
  <2> QED BY <2>1, <2>2, Zenon
<1> QED BY <1>1, <1>2

LEMMA GapShrinks ==
  ASSUME NEW w \in 0..(BufSize - 1), NEW r \in 0..(BufSize - 1), NEW k \in 0..Gap(w, r)
  PROVE  Arrays!Wrapped(r + k) \in 0..(BufSize - 1) /\ Gap(w, Arrays!Wrapped(r + k)) = Gap(w, r) - k
<1>t. /\ BufSize \in Nat \ {0} /\ w \in Int /\ r \in Int /\ 0 <= w /\ 0 <= r /\ w < BufSize /\ r < BufSize
      /\ k \in Nat /\ Gap(w, r) \in Int /\ k <= Gap(w, r)
  BY ToolsAssumption DEF Gap
<1>1. CASE r + k < BufSize
  <2>1. Arrays!Wrapped(r + k) = r + k
    BY <1>t, <1>1 DEF Arrays!Wrapped
  <2>2. r + k \in 0..(BufSize - 1) /\ Gap(w, r + k) = Gap(w, r) - k
    BY <1>t, <1>1 DEF Gap
  <2> QED BY <2>1, <2>2, Zenon
<1>2. CASE ~(r + k < BufSize)
  <2>1. Arrays!Wrapped(r + k) = r + k - BufSize
    BY <1>t, <1>2 DEF Arrays!Wrapped
  <2>2. r + k - BufSize \in 0..(BufSize - 1) /\ Gap(w, r + k - BufSize) = Gap(w, r) - k
    BY <1>t, <1>2 DEF Gap
  <2> QED BY <2>1, <2>2, Zenon
<1> QED BY <1>1, <1>2

\* Until it strays, the array and its positions are what they should be.
LEMMA RingIs ==
  ASSUME RingInv, ~strayed
  PROVE  /\ wpos \in 0..(BufSize - 1) /\ rpos \in 0..(BufSize - 1) /\ BufSize \in Nat \ {0}
         /\ fifo \in Seq(Item) /\ Len(fifo) = Arrays!Size /\ DOMAIN content = 0..(BufSize - 1)
         /\ \A pos \in 0..(Arrays!Size - 1) : content[Arrays!Wrapped(rpos + pos)] = fifo[pos + 1]
<1>1. BufSize \in Nat \ {0}
  BY ToolsAssumption
<1> QED BY <1>1, Zenon DEF RingInv

\* Values that are put behind the queue, into the unused part of the array.
LEMMA RingPuts ==
  ASSUME RingInv, ~strayed, NEW s \in Seq(Item), Len(s) <= Arrays!UnusedCapacity,
         wpos' = Arrays!Wrapped(wpos + Len(s)), rpos' = rpos, fifo' = fifo \o s,
         DOMAIN content' = 0..(BufSize - 1),
         \A pos \in 0..(Arrays!Size - 1) :
            content'[Arrays!Wrapped(rpos + pos)] = content[Arrays!Wrapped(rpos + pos)],
         \A i \in 1..Len(s) : content'[Arrays!Wrapped(wpos + i - 1)] = s[i],
         strayed' \in BOOLEAN
  PROVE  RingInv'
<1> DEFINE n == Arrays!Size
           k == Len(s)
<1>1. /\ wpos \in 0..(BufSize - 1) /\ rpos \in 0..(BufSize - 1) /\ BufSize \in Nat \ {0}
      /\ fifo \in Seq(Item) /\ Len(fifo) = n /\ k \in Nat
      /\ \A pos \in 0..(n - 1) : content[Arrays!Wrapped(rpos + pos)] = fifo[pos + 1]
  <2>1. k \in Nat
    BY LenIn, Zenon
  <2> HIDE DEF k
  <2> QED BY <2>1, RingIs, Zenon
<1>2. /\ n \in 0..(BufSize - 1) /\ n + k \in 0..(BufSize - 1) /\ Arrays!Wrapped(rpos + n) = wpos
  <2>1. n \in 0..(BufSize - 1) /\ Arrays!Wrapped(rpos + n) = wpos /\ n + Arrays!UnusedCapacity = BufSize - 1
    BY SizeIn
  <2>2. k <= Arrays!UnusedCapacity /\ Arrays!UnusedCapacity \in Int
    BY <1>1 DEF Arrays!UnusedCapacity
  <2> HIDE DEF n, k
  <2> QED BY <1>1, <2>1, <2>2
<1>3. wpos' \in 0..(BufSize - 1) /\ Arrays!Size' = n + k
  <2>1. n = Gap(wpos, rpos) /\ Arrays!Size' = Gap(wpos', rpos)
    BY DEF Arrays!Size, Gap
  <2>2. wpos' = Arrays!Wrapped(wpos + k)
    OBVIOUS
  <2> HIDE DEF n, k
  <2>3. n + k <= BufSize - 1
    BY <1>1, <1>2
  <2>4. Arrays!Wrapped(wpos + k) \in 0..(BufSize - 1) /\ Gap(Arrays!Wrapped(wpos + k), rpos) = Gap(wpos, rpos) + k
    <3>1. Gap(wpos, rpos) + k <= BufSize - 1
      BY <2>1, <2>3, Zenon
    <3> QED BY <1>1, <3>1, GapGrows, Zenon
  <2> QED BY <2>1, <2>2, <2>4, Zenon
<1>4. fifo' \in Seq(Item) /\ Len(fifo') = n + k
  <2>1. fifo \o s \in Seq(Item) /\ Len(fifo \o s) = Len(fifo) + Len(s)
    BY <1>1, Joined
  <2> HIDE DEF n
  <2> QED BY <1>1, <2>1
<1>5. ASSUME NEW pos \in 0..(n + k - 1) PROVE content'[Arrays!Wrapped(rpos + pos)] = fifo'[pos + 1]
  <2>1. CASE pos < n
    <3>1. pos \in 0..(n - 1) /\ pos + 1 \in 1..n
      <4> HIDE DEF n, k
      <4> QED BY <1>1, <1>2, <1>5, <2>1
    <3>2. fifo'[pos + 1] = fifo[pos + 1]
      BY <1>1, <3>1
    <3> QED BY <1>1, <3>1, <3>2
  <2>2. CASE ~(pos < n)
    <3>1. pos - n + 1 \in 1..k /\ pos = n + (pos - n) /\ pos - n \in 0..(BufSize - 1 - n)
      <4> HIDE DEF n, k
      <4> QED BY <1>1, <1>2, <1>5, <2>2
    <3>2. Arrays!Wrapped(rpos + pos) = Arrays!Wrapped(wpos + (pos - n))
      <4>1. \A e \in 0..(BufSize - 1 - n) : Arrays!Wrapped(Arrays!Wrapped(rpos + n) + e) = Arrays!Wrapped(rpos + n + e)
        <5> HIDE DEF n, k
        <5> QED BY <1>1, <1>2, WrappedIn
      <4>2. rpos + n + (pos - n) = rpos + pos
        <5> HIDE DEF n, k
        <5> QED BY <1>1, <1>2, <1>5
      <4> HIDE DEF n, k
      <4> QED BY <1>2, <3>1, <4>1, <4>2
    <3>3. content'[Arrays!Wrapped(wpos + (pos - n))] = s[pos - n + 1]
      <4>1. wpos + (pos - n + 1) - 1 = wpos + (pos - n)
        <5> HIDE DEF n, k
        <5> QED BY <1>1, <1>2, <1>5
      <4> HIDE DEF n
      <4> QED BY <3>1, <4>1
    <3>4. fifo'[pos + 1] = s[pos - n + 1]
      <4>1. pos + 1 \in 1..(Len(fifo) + Len(s)) /\ ~(pos + 1 <= Len(fifo)) /\ pos + 1 - Len(fifo) = pos - n + 1
        <5> HIDE DEF n
        <5> QED BY <1>1, <1>2, <1>5, <2>2
      <4>2. (fifo \o s)[pos + 1] = IF pos + 1 <= Len(fifo) THEN fifo[pos + 1] ELSE s[pos + 1 - Len(fifo)]
        <5> HIDE DEF n
        <5> QED BY <1>1, <4>1, Joined
      <4> HIDE DEF n
      <4> QED BY <4>1, <4>2
    <3> QED BY <3>2, <3>3, <3>4
  <2> QED BY <2>1, <2>2
<1>6. rpos' \in 0..(BufSize - 1) /\ Arrays!Wrapped(rpos + 0)' = Arrays!Wrapped(rpos + 0)
  BY <1>1 DEF Arrays!Wrapped
<1>7. \A pos \in 0..(n + k - 1) : content'[Arrays!Wrapped(rpos' + pos)] = fifo'[pos + 1]
  BY <1>5
<1>8. \A pos \in 0..(Arrays!Size' - 1) : content'[Arrays!Wrapped(rpos' + pos)] = fifo'[pos + 1]
  <2>1. Arrays!Size' = n + k
    BY <1>3
  <2>2. 0..(Arrays!Size' - 1) = 0..(n + k - 1)
    <3>1. n \in Nat /\ k \in Nat
      BY <1>1, <1>2
    <3> HIDE DEF n, k
    <3> QED BY <2>1, <3>1
  <2> HIDE DEF n, k
  <2> QED BY <1>7, <2>2
<1>9. Len(fifo') = Arrays!Size'
  BY <1>3, <1>4
<1> HIDE DEF n, k
<1> QED BY <1>3, <1>4, <1>6, <1>8, <1>9 DEF RingInv, Arrays!Wrapped

\* Values that are taken from the front.
LEMMA RingTakes ==
  ASSUME RingInv, ~strayed, NEW k \in 0..Arrays!Size,
         rpos' = Arrays!Wrapped(rpos + k), wpos' = wpos, content' = content, strayed' = strayed,
         fifo' = SubSeq(fifo, k + 1, Len(fifo))
  PROVE  RingInv'
<1> DEFINE n == Arrays!Size
<1>1. /\ wpos \in 0..(BufSize - 1) /\ rpos \in 0..(BufSize - 1) /\ BufSize \in Nat \ {0}
      /\ fifo \in Seq(Item) /\ Len(fifo) = n /\ n \in 0..(BufSize - 1) /\ k \in 0..n
      /\ DOMAIN content = 0..(BufSize - 1)
      /\ \A pos \in 0..(n - 1) : content[Arrays!Wrapped(rpos + pos)] = fifo[pos + 1]
  BY RingIs, SizeIn, Zenon
<1>2. rpos' \in 0..(BufSize - 1) /\ Arrays!Size' = n - k
  <2>1. n = Gap(wpos, rpos) /\ Arrays!Size' = Gap(wpos, rpos')
    BY DEF Arrays!Size, Gap
  <2>2. rpos' = Arrays!Wrapped(rpos + k)
    OBVIOUS
  <2> HIDE DEF n
  <2>3. Arrays!Wrapped(rpos + k) \in 0..(BufSize - 1) /\ Gap(wpos, Arrays!Wrapped(rpos + k)) = Gap(wpos, rpos) - k
    <3>1. k \in 0..Gap(wpos, rpos)
      BY <1>1, <2>1, Zenon
    <3> QED BY <1>1, <3>1, GapShrinks, Zenon
  <2> QED BY <2>1, <2>2, <2>3, Zenon
<1>3. /\ fifo' \in Seq(Item) /\ Len(fifo') = n - k
      /\ \A i \in 1..(n - k) : fifo'[i] = fifo[k + i]
  <2> HIDE DEF n
  <2>1. /\ SubSeq(fifo, k + 1, Len(fifo)) \in Seq(Item) /\ Len(SubSeq(fifo, k + 1, Len(fifo))) = n - k
        /\ \A i \in 1..(n - k) : SubSeq(fifo, k + 1, Len(fifo))[i] = fifo[k + i]
    BY <1>1, Taken, Zenon
  <2> QED BY <2>1, Zenon
<1>4. ASSUME NEW pos \in 0..(n - k - 1) PROVE content[Arrays!Wrapped(rpos' + pos)] = fifo'[pos + 1]
  <2> HIDE DEF n
  <2>1. k + pos \in 0..(n - 1) /\ pos + 1 \in 1..(n - k) /\ k + (pos + 1) = k + pos + 1
        /\ k \in 0..(BufSize - 1) /\ pos \in 0..(BufSize - 1 - k) /\ rpos + k + pos = rpos + (k + pos)
    BY <1>1, <1>4
  <2>2. Arrays!Wrapped(rpos' + pos) = Arrays!Wrapped(rpos + k + pos)
    BY <1>1, <2>1, WrappedIn
  <2>3. content[Arrays!Wrapped(rpos + (k + pos))] = fifo[k + pos + 1]
    BY <1>1, <2>1, Zenon
  <2>4. fifo'[pos + 1] = fifo[k + (pos + 1)]
    BY <1>3, <2>1, Zenon
  <2> QED BY <2>1, <2>2, <2>3, <2>4, Zenon
<1> HIDE DEF n
<1> QED BY <1>1, <1>2, <1>3, <1>4 DEF RingInv, Arrays!Wrapped

LEMMA RingStep ==
  ASSUME RingInv, Arrays!RingNext
  PROVE  RingInv'
<1> USE DEF Arrays!Wrapped
<1>0. ~strayed
  BY DEF Arrays!RingNext, Arrays!RingPush, Arrays!RingPop, Arrays!PopArray, Arrays!PushArray, Arrays!Clear
<1>t. /\ wpos \in 0..(BufSize - 1) /\ rpos \in 0..(BufSize - 1) /\ BufSize \in Nat \ {0}
      /\ fifo \in Seq(Item) /\ Len(fifo) = Arrays!Size /\ Arrays!Size \in 0..(BufSize - 1)
      /\ DOMAIN content = 0..(BufSize - 1) /\ strayed \in BOOLEAN
  <2>1. strayed \in BOOLEAN
    BY Zenon DEF RingInv
  <2> QED BY <1>0, <2>1, RingIs, SizeIn, Zenon
\* Where the queue stands in the array, nothing is put.
<1>u. ASSUME NEW pos \in 0..(Arrays!Size - 1), NEW d \in 0..(Arrays!UnusedCapacity - 1)
      PROVE  Arrays!Wrapped(rpos + pos) # Arrays!Wrapped(wpos + d)
  BY <1>t, <1>u DEF Arrays!Size, Arrays!UnusedCapacity
<1>s. ASSUME UNCHANGED <<content, wpos, rpos, fifo, strayed>> PROVE RingInv'
  BY <1>s DEF RingInv, Arrays!Size
<1>1. ASSUME NEW x \in Item, Arrays!RingPush(x) PROVE RingInv'
  <2>1. CASE Arrays!Full
    BY <1>1, <1>s, <2>1 DEF Arrays!RingPush
  <2>2. CASE ~Arrays!Full
    <3> DEFINE s == <<x>>
    <3>1. s \in Seq(Item) /\ Len(s) = 1 /\ s[1] = x /\ fifo \o s = Append(fifo, x)
      BY <1>t, OneIs, Zenon
    <3>2. Arrays!UnusedCapacity \in Nat /\ 1 <= Arrays!UnusedCapacity
      BY <1>0, <1>t, <2>2, SizeIn
    <3>3. /\ content' = [content EXCEPT ![wpos] = x] /\ wpos' = Arrays!Wrapped(wpos + 1)
          /\ fifo' = Append(fifo, x) /\ rpos' = rpos /\ strayed' = strayed
      BY <1>1, <2>2 DEF Arrays!RingPush
    <3>4. ASSUME NEW pos \in 0..(Arrays!Size - 1)
          PROVE  content'[Arrays!Wrapped(rpos + pos)] = content[Arrays!Wrapped(rpos + pos)]
      <4>1. Arrays!Wrapped(rpos + pos) # Arrays!Wrapped(wpos + 0)
        BY <1>u, <3>2
      <4>2. Arrays!Wrapped(rpos + pos) \in 0..(BufSize - 1) /\ Arrays!Wrapped(wpos + 0) = wpos
        BY <1>t
      <4> QED BY <1>t, <3>3, <4>1, <4>2
    <3>5. content'[Arrays!Wrapped(wpos + 1 - 1)] = x
      BY <1>t, <3>3
    <3> HIDE DEF s
    <3>6. \A i \in 1..Len(s) : content'[Arrays!Wrapped(wpos + i - 1)] = s[i]
      BY <3>1, <3>5
    <3> QED BY <1>0, <1>t, <3>1, <3>2, <3>3, <3>4, <3>6, RingPuts
  <2> QED BY <2>1, <2>2
<1>2. ASSUME Arrays!RingPop PROVE RingInv'
  <2>1. CASE Arrays!Empty
    BY <1>2, <1>s, <2>1 DEF Arrays!RingPop
  <2>2. CASE ~Arrays!Empty
    <3>1. 1 \in 0..Arrays!Size /\ fifo # <<>>
      BY <1>0, <1>t, <2>2, SizeIn
    <3>2. /\ rpos' = Arrays!Wrapped(rpos + 1) /\ wpos' = wpos /\ content' = content /\ strayed' = strayed
          /\ fifo' = Tail(fifo)
      BY <1>2, <2>2 DEF Arrays!RingPop
    <3>3. Tail(fifo) = SubSeq(fifo, 1 + 1, Len(fifo))
      BY <1>t, <3>1
    <3> QED BY <1>0, <3>1, <3>2, <3>3, RingTakes
  <2> QED BY <2>1, <2>2
<1>3. ASSUME NEW len \in 0..BufSize, Arrays!PopArray(len) PROVE RingInv'
  <2>1. CASE len > Arrays!Size
    BY <1>3, <1>s, <2>1 DEF Arrays!PopArray
  <2>2. CASE ~(len > Arrays!Size)
    <3>1. len \in 0..Arrays!Size
      BY <1>t, <1>3, <2>2
    <3> QED BY <1>0, <1>3, <2>2, <3>1, RingTakes DEF Arrays!PopArray
  <2> QED BY <2>1, <2>2
<1>4. ASSUME NEW n \in 1..BufSize, NEW s \in [1..n -> Item], Arrays!PushArray(s) PROVE RingInv'
  <2> DEFINE first == BufSize - wpos
             straight == wpos + n <= BufSize
  <2>0. s \in Seq(Item) /\ Len(s) = n /\ n \in Nat
    BY <1>4
  <2>1. CASE n > Arrays!UnusedCapacity
    BY <1>4, <1>s, <2>0, <2>1 DEF Arrays!PushArray
  <2>2. CASE ~(n > Arrays!UnusedCapacity)
    <3>1. /\ content' = [i \in 0..(BufSize - 1) |->
                           IF i >= wpos /\ i < wpos + n THEN s[i - wpos + 1]
                           ELSE IF ~straight /\ i < n - first THEN s[i + first + 1] ELSE content[i]]
          /\ wpos' = IF straight THEN wpos + n ELSE n - first
          /\ fifo' = fifo \o s /\ rpos' = rpos
          /\ strayed' = IF straight THEN wpos + n = BufSize ELSE Arrays!SecondPart(n, first) # (n - first) * elem
      BY <1>4, <2>0, <2>2 DEF Arrays!PushArray
    <3>2. strayed' \in BOOLEAN
      BY <3>1
    <3>3. CASE straight /\ wpos + n = BufSize
      BY <3>1, <3>3 DEF RingInv
    <3>4. CASE ~(straight /\ wpos + n = BufSize)
      <4>1. wpos' = Arrays!Wrapped(wpos + n) /\ Arrays!UnusedCapacity \in Nat /\ n <= Arrays!UnusedCapacity
        BY <1>t, <2>0, <2>2, <3>1, <3>4 DEF Arrays!UnusedCapacity
      <4>2. ASSUME NEW pos \in 0..(Arrays!Size - 1)
            PROVE  content'[Arrays!Wrapped(rpos + pos)] = content[Arrays!Wrapped(rpos + pos)]
        <5> DEFINE p == Arrays!Wrapped(rpos + pos)
        <5>1. p \in 0..(BufSize - 1)
          BY <1>t
        <5>2. ~(p >= wpos /\ p < wpos + n) /\ ~(~straight /\ p < n - first)
          BY <1>t, <2>0, <4>1 DEF Arrays!Size, Arrays!UnusedCapacity
        <5>4. content'[p] = IF p >= wpos /\ p < wpos + n THEN s[p - wpos + 1]
                           ELSE IF ~straight /\ p < n - first THEN s[p + first + 1] ELSE content[p]
          <6> HIDE DEF p, first, straight
          <6> QED BY <3>1, <5>1
        <5>5. content'[p] = content[p]
          <6> HIDE DEF p, first
          <6> QED BY <5>2, <5>4
        <5> QED BY <5>5
      <4>3. ASSUME NEW i \in 1..n PROVE content'[Arrays!Wrapped(wpos + i - 1)] = s[i]
        <5> DEFINE p == Arrays!Wrapped(wpos + i - 1)
        <5>1. /\ p \in 0..(BufSize - 1)
              /\ \/ p >= wpos /\ p < wpos + n /\ p - wpos + 1 = i
                 \/ ~(p >= wpos /\ p < wpos + n) /\ ~straight /\ p < n - first /\ p + first + 1 = i
          BY <1>t, <2>0, <4>1 DEF Arrays!UnusedCapacity
        <5>3. content'[p] = IF p >= wpos /\ p < wpos + n THEN s[p - wpos + 1]
                           ELSE IF ~straight /\ p < n - first THEN s[p + first + 1] ELSE content[p]
          <6> HIDE DEF p, first, straight
          <6> QED BY <3>1, <5>1
        <5>4. content'[p] = s[i]
          <6> HIDE DEF p, first
          <6> QED BY <5>1, <5>3
        <5> QED BY <5>4
      <4> HIDE DEF first, straight
      <4> QED BY <1>0, <1>t, <2>0, <3>1, <3>2, <4>1, <4>2, <4>3, RingPuts
    <3> QED BY <3>3, <3>4
  <2> QED BY <2>1, <2>2
<1>5. ASSUME Arrays!Clear PROVE RingInv'
  <2>1. /\ wpos' = 0 /\ rpos' = 0 /\ fifo' = <<>> /\ content' = content /\ strayed' = strayed
    BY <1>5 DEF Arrays!Clear
  <2>2. Arrays!Size' = 0 /\ Len(fifo') = 0 /\ fifo' \in Seq(Item) /\ 0 \in 0..(BufSize - 1) /\ 0..(0 - 1) = {}
    BY <1>t, <2>1 DEF Arrays!Size
  <2>3. \A pos \in 0..(Arrays!Size' - 1) : FALSE
    BY <2>2
  <2> QED BY <1>t, <2>1, <2>2, <2>3 DEF RingInv
<1> QED BY <1>1, <1>2, <1>3, <1>4, <1>5 DEF Arrays!RingNext

LEMMA RingHolds == RingInv => Arrays!RingIsFifo
<1> SUFFICES ASSUME RingInv, ~strayed PROVE Arrays!RingIsFifo
  BY DEF Arrays!RingIsFifo
<1> DEFINE n == Arrays!Size
<1>1. /\ wpos \in 0..(BufSize - 1) /\ rpos \in 0..(BufSize - 1) /\ BufSize \in Nat \ {0}
      /\ fifo \in Seq(Item) /\ Len(fifo) = n /\ n \in 0..(BufSize - 1)
      /\ Arrays!Size + Arrays!UnusedCapacity = Arrays!RingCapacity
      /\ \A pos \in 0..(n - 1) : content[Arrays!Wrapped(rpos + pos)] = fifo[pos + 1]
  BY RingIs, SizeIn, Zenon DEF Arrays!RingCapacity
<1>2. /\ Arrays!Empty = (fifo = <<>>) /\ Arrays!Full = (Len(fifo) = Arrays!RingCapacity)
  <2>1. fifo = <<>> <=> Len(fifo) = 0
    BY <1>1
  <2>2. (Arrays!Empty <=> Len(fifo) = 0) /\ (Arrays!Full <=> Len(fifo) = Arrays!RingCapacity)
    BY <1>1, SizeIn DEF Arrays!RingCapacity
  <2>3. Arrays!Empty \in BOOLEAN /\ Arrays!Full \in BOOLEAN
    BY DEF Arrays!Empty, Arrays!Full
  <2> HIDE DEF n
  <2> QED BY <2>1, <2>2, <2>3
<1>3. ASSUME NEW pos \in 0..(BufSize - 1), NEW len \in 0..(n - pos)
      PROVE  Arrays!GetArray(pos, len) \in {SubSeq(fifo, pos + 1, pos + len), "undefined"}
  <2> DEFINE from == Arrays!Wrapped(rpos + pos)
             read == [i \in 1..len |-> content[Arrays!Wrapped(from + i - 1)]]
             piece == SubSeq(fifo, pos + 1, pos + len)
  <2>1. Arrays!GetArray(pos, len) \in {read, "undefined"}
    BY DEF Arrays!GetArray
  <2>2. piece \in Seq(Item) /\ Len(piece) = len /\ \A i \in 1..len : piece[i] = fifo[pos + i]
    <3> HIDE DEF n
    <3> QED BY <1>1, <1>3
  <2>3. ASSUME NEW i \in 1..len PROVE read[i] = piece[i]
    <3>1. /\ pos + (i - 1) \in 0..(n - 1) /\ pos + (i - 1) + 1 = pos + i /\ i - 1 \in 0..(BufSize - 1 - pos)
          /\ rpos + pos + (i - 1) = rpos + (pos + (i - 1)) /\ from + i - 1 = from + (i - 1)
      <4>1. from \in Int
        BY <1>1 DEF Arrays!Wrapped
      <4> HIDE DEF n, from
      <4> QED BY <1>1, <1>3, <4>1
    <3>2. Arrays!Wrapped(from + (i - 1)) = Arrays!Wrapped(rpos + pos + (i - 1))
      BY <1>1, <3>1, WrappedIn
    <3>3. read[i] = content[Arrays!Wrapped(from + (i - 1))]
      <4> HIDE DEF from
      <4> QED BY <3>1
    <3> HIDE DEF n, from, read, piece
    <3> QED BY <1>1, <2>2, <3>1, <3>2, <3>3
  <2>4. read = piece
    <3> HIDE DEF n, piece
    <3> QED BY <2>2, <2>3
  <2> QED BY <2>1, <2>4
<1>4. Arrays!TopArray(n) \in {fifo, "undefined"}
  <2>1. SubSeq(fifo, 0 + 1, 0 + n) = fifo
    <3> HIDE DEF n
    <3> QED BY <1>1
  <2>2. 0 \in 0..(BufSize - 1) /\ n \in 0..(n - 0)
    <3> HIDE DEF n
    <3> QED BY <1>1
  <2> HIDE DEF n
  <2> QED BY <1>3, <2>1, <2>2 DEF Arrays!TopArray
<1>5. \A pos \in 0..(n - 1) : Arrays!Get(pos) = fifo[pos + 1]
  BY <1>1 DEF Arrays!Get
<1>6. \A pos \in 0..(n - 1) : \A len \in 1..(n - pos) :
         Arrays!GetArray(pos, len) \in {SubSeq(fifo, pos + 1, pos + len), "undefined"}
  <2>1. \A pos \in 0..(n - 1) : pos \in 0..(BufSize - 1) /\ \A len \in 1..(n - pos) : len \in 0..(n - pos)
    <3> HIDE DEF n
    <3> QED BY <1>1
  <2> HIDE DEF n
  <2> QED BY <1>3, <2>1
<1> QED BY <1>1, <1>2, <1>4, <1>5, <1>6 DEF Arrays!RingIsFifo

-----------------------------------------------------------------------------
(***************************************************************************)
(* The heap.                                                               *)
(***************************************************************************)
Vectors(n) == [1..n -> Value]

\* x may stand above y in a heap of the present kind.
Over(x, y) == IF isMin THEN x <= y ELSE x >= y

LEMMA OverOrders ==
  ASSUME NEW x \in Value, NEW y \in Value, isMin \in BOOLEAN
  PROVE  /\ Arrays!Rises(x, y) => Over(x, y)
         /\ ~Arrays!Rises(x, y) => Over(y, x)
         /\ Over(x, x)
         /\ \A z \in Value : Over(x, y) /\ Over(y, z) => Over(x, z)
<1>1. Value \subseteq Int
  BY ToolsAssumption
<1> QED BY <1>1 DEF Arrays!Rises, Over

LEMMA Parents ==
  ASSUME NEW c \in Nat \ {0}
  PROVE  /\ Arrays!ParentIndex(c) \in Nat /\ Arrays!ParentIndex(c) < c
         /\ \A p \in Nat : Arrays!ParentIndex(c) = p <=> c = 2 * p + 1 \/ c = 2 * p + 2
BY DEF Arrays!ParentIndex

LEMMA ArraysCardinality == \A S : Arrays!Cardinality(S) = Cardinality(S)
BY Zenon DEF Arrays!Cardinality, Cardinality

\* A vector that has been made of another by exchanging some of its first len
\* values.
Kept(s, t, n, len) ==
  /\ t \in Vectors(n) /\ Arrays!Count(t) = Arrays!Count(s)
  /\ \A i \in 1..n : i > len => t[i] = s[i]
  /\ \A i \in 1..n : i <= len => \E j \in 1..n : j <= len /\ t[i] = s[j]

LEMMA KeptOn ==
  ASSUME NEW n \in Nat, NEW len \in 0..n, NEW r \in Vectors(n), NEW s, NEW t,
         Kept(r, s, n, len), Kept(s, t, n, len)
  PROVE  Kept(r, t, n, len)
<1>1. ASSUME NEW i \in 1..n, i <= len PROVE \E j \in 1..n : j <= len /\ t[i] = r[j]
  <2>1. PICK j \in 1..n : j <= len /\ t[i] = s[j]
    BY <1>1 DEF Kept
  <2> QED BY <2>1 DEF Kept
<1> QED BY <1>1 DEF Kept

LEMMA SwapKeeps ==
  ASSUME NEW n \in Nat, NEW len \in 0..n, NEW s \in Vectors(n),
         NEW i \in 0..(len - 1), NEW j \in 0..(len - 1)
  PROVE  /\ Kept(s, Arrays!Swap(s, i, j), n, len)
         /\ \A k \in 1..n : Arrays!Swap(s, i, j)[k] =
              IF k = j + 1 THEN s[i + 1] ELSE IF k = i + 1 THEN s[j + 1] ELSE s[k]
<1> DEFINE t == Arrays!Swap(s, i, j)
           other(k) == IF k = j + 1 THEN i + 1 ELSE IF k = i + 1 THEN j + 1 ELSE k
<1>1. /\ DOMAIN s = 1..n /\ t \in Vectors(n) /\ DOMAIN t = 1..n
      /\ i + 1 \in 1..n /\ j + 1 \in 1..n /\ i + 1 <= len /\ j + 1 <= len
  BY DEF Arrays!Swap, Vectors
<1>2. \A k \in 1..n : other(k) \in 1..n /\ other(other(k)) = k /\ t[k] = s[other(k)]
  BY <1>1 DEF Arrays!Swap, Vectors
<1>3. ASSUME NEW v \in Value
      PROVE  Cardinality({k \in 1..n : t[k] = v}) = Cardinality({k \in 1..n : s[k] = v})
  <2> DEFINE A == {k \in 1..n : t[k] = v}
             B == {k \in 1..n : s[k] = v}
             h == [k \in A |-> other(k)]
  <2> HIDE DEF t, other
  <2>1. h \in [A -> B] /\ (\A k, m \in A : h[k] = h[m] => k = m) /\ \A m \in B : other(m) \in A /\ h[other(m)] = m
    BY <1>2
  <2>2. h \in Bijection(A, B)
    <3> HIDE DEF h, A, B
    <3> QED BY <2>1 DEF Bijection, Injection, Surjection, IsInjective
  <2>3. IsFiniteSet(A)
    <3>1. IsFiniteSet(1..n) /\ A \subseteq 1..n
      BY FS_Interval
    <3> QED BY <3>1, FS_Subset
  <2> HIDE DEF A, B, h
  <2>4. Cardinality(A) = Cardinality(B)
    BY <2>2, <2>3, FS_Bijection DEF ExistsBijection
  <2> QED BY <2>4 DEF A, B
<1>4. Arrays!Count(t) = Arrays!Count(s)
  <2> HIDE DEF t
  <2> QED BY <1>1, <1>3, ArraysCardinality DEF Arrays!Count
<1>5. \A k \in 1..n : (k > len => other(k) = k) /\ (k <= len => other(k) <= len)
  BY <1>1
<1>6. Kept(s, t, n, len)
  <2> HIDE DEF t, other
  <2> QED BY <1>1, <1>2, <1>4, <1>5 DEF Kept
<1> QED BY <1>1, <1>2, <1>6

LEMMA KeptSelf == ASSUME NEW n, NEW len, NEW s \in Vectors(n) PROVE Kept(s, s, n, len)
BY DEF Kept

\* From index m on, no value among the first len is out of order with its
\* parent.
HeapFrom(s, m, len) ==
  \A c \in 1..(len - 1) : Arrays!ParentIndex(c) >= m => Over(s[Arrays!ParentIndex(c) + 1], s[c + 1])

\* While the value at index p sinks from index i: only p may be out of order
\* with its children, and they are in order with p's parent.
Sinking(place, i, n, len) ==
  LET t == place[1]
      p == place[2]
  IN /\ p >= i
     /\ \A c \in 1..(len - 1) :
          Arrays!ParentIndex(c) >= i /\ Arrays!ParentIndex(c) # p => Over(t[Arrays!ParentIndex(c) + 1], t[c + 1])
     /\ p > 0 /\ Arrays!ParentIndex(p) >= i =>
          \A c \in 1..(len - 1) : Arrays!ParentIndex(c) = p => Over(t[Arrays!ParentIndex(p) + 1], t[c + 1])

LEMMA LoweredIn ==
  ASSUME isMin \in BOOLEAN, NEW n \in Nat, NEW len \in 0..n, NEW place \in Vectors(n) \X Nat
  PROVE  /\ Arrays!Lowered(place, len) \in Vectors(n) \X Nat
         /\ Kept(place[1], Arrays!Lowered(place, len)[1], n, len)
<1> DEFINE t == place[1]
           p == place[2]
           left == Arrays!LeftChildIndex(p)
           child == Arrays!Chosen(t, left, len)
<1>1. t \in Vectors(n) /\ p \in Nat /\ place = <<t, p>>
  OBVIOUS
<1>2. CASE left < len /\ Arrays!Rises(t[child + 1], t[p + 1])
  <2>1. child \in 0..(len - 1) /\ p \in 0..(len - 1)
    BY <1>1, <1>2 DEF Arrays!Chosen, Arrays!LeftChildIndex
  <2>2. Arrays!Lowered(place, len) = <<Arrays!Swap(t, child, p), child>>
    BY <1>2 DEF Arrays!Lowered
  <2>3. Kept(t, Arrays!Swap(t, child, p), n, len)
    <3> HIDE DEF t, p, child
    <3> QED BY <1>1, <2>1, SwapKeeps
  <2>4. Arrays!Swap(t, child, p) \in Vectors(n)
    BY <2>3 DEF Kept
  <2> HIDE DEF t, p, child
  <2>5. Arrays!Lowered(place, len)[1] = Arrays!Swap(t, child, p)
    BY <2>2
  <2>6. place[1] = t
    BY DEF t
  <2> QED BY <2>1, <2>2, <2>3, <2>4, <2>5, <2>6
<1>3. CASE ~(left < len /\ Arrays!Rises(t[child + 1], t[p + 1]))
  BY <1>1, <1>3, KeptSelf DEF Arrays!Lowered
<1> QED BY <1>2, <1>3

LEMMA LoweredSinks ==
  ASSUME isMin \in BOOLEAN, NEW n \in Nat, NEW len \in 0..n, NEW place \in Vectors(n) \X Nat,
         NEW i \in Nat, Sinking(place, i, n, len)
  PROVE  LET lo == Arrays!Lowered(place, len) IN
         /\ Sinking(lo, i, n, len)
         /\ lo = place \/ lo[2] > place[2]
         /\ lo = place => HeapFrom(place[1], i, len)
<1> DEFINE t == place[1]
           p == place[2]
           left == Arrays!LeftChildIndex(p)
           child == Arrays!Chosen(t, left, len)
           q(c) == Arrays!ParentIndex(c)
<1>1. t \in Vectors(n) /\ p \in Nat /\ p >= i /\ place = <<t, p>> /\ left = 2 * p + 1
  BY DEF Sinking, Arrays!LeftChildIndex
<1>2. /\ \A c \in 1..(len - 1) : q(c) >= i /\ q(c) # p => Over(t[q(c) + 1], t[c + 1])
      /\ p > 0 /\ q(p) >= i => \A c \in 1..(len - 1) : q(c) = p => Over(t[q(p) + 1], t[c + 1])
  BY DEF Sinking
<1>3. \A c \in 1..(len - 1) : /\ q(c) \in 0..(len - 1) /\ q(c) < c
                              /\ \A m \in Nat : q(c) = m <=> c = 2 * m + 1 \/ c = 2 * m + 2
  BY Parents
<1>4. \A x \in 0..(len - 1) : t[x + 1] \in Value
  BY <1>1 DEF Vectors
\* The chosen child is over the other one.
<1>5. ASSUME left < len
      PROVE  /\ child \in 1..(len - 1) /\ q(child) = p /\ child > p
             /\ \A c \in 1..(len - 1) : q(c) = p => Over(t[child + 1], t[c + 1])
  <2>1. left \in 1..(len - 1) /\ child \in 1..(len - 1) /\ child \in {left, left + 1}
    BY <1>1, <1>5 DEF Arrays!Chosen
  <2>2. q(child) = p /\ child > p
    <3> HIDE DEF left, child, q, p
    <3> QED BY <1>1, <1>3, <2>1
  <2>3. ASSUME NEW c \in 1..(len - 1), q(c) = p PROVE Over(t[child + 1], t[c + 1])
    <3>1. c = left \/ c = left + 1
      <4> HIDE DEF left, child, q, p
      <4> QED BY <1>1, <1>3, <2>3
    <3>2. t[c + 1] \in Value /\ t[child + 1] \in Value /\ t[left + 1] \in Value
      <4> HIDE DEF left, child, q, p, t
      <4> QED BY <1>4, <2>1, <2>3
    <3>3. CASE c = child
      BY <3>2, <3>3, OverOrders
    <3>4. CASE c # child /\ c = left
      <4>1. child = left + 1 /\ Arrays!Rises(t[child + 1], t[left + 1])
        <5>1. left + 2 = (left + 1) + 1
          BY <1>1
        <5> QED BY <3>4, <5>1 DEF Arrays!Chosen
      <4> QED BY <3>2, <3>4, <4>1, OverOrders
    <3>5. CASE c # child /\ c = left + 1
      <4>1. child = left /\ ~Arrays!Rises(t[c + 1], t[left + 1])
        <5>1. left + 2 = (left + 1) + 1 /\ left + 1 < len
          BY <1>1, <2>3, <3>5
        <5> QED BY <3>5, <5>1 DEF Arrays!Chosen
      <4> QED BY <3>2, <4>1, OverOrders
    <3> QED BY <3>1, <3>3, <3>4, <3>5
  <2> QED BY <2>1, <2>2, <2>3
<1>6. CASE left < len /\ Arrays!Rises(t[child + 1], t[p + 1])
  <2> DEFINE u == Arrays!Swap(t, child, p)
  <2>1. Arrays!Lowered(place, len) = <<u, child>>
    BY <1>6 DEF Arrays!Lowered
  <2>2. /\ child \in 1..(len - 1) /\ p \in 0..(len - 1) /\ child > p /\ q(child) = p
        /\ \A c \in 1..(len - 1) : q(c) = p => Over(t[child + 1], t[c + 1])
    <3>1. child \in 1..(len - 1) /\ q(child) = p /\ \A c \in 1..(len - 1) : q(c) = p => Over(t[child + 1], t[c + 1])
      BY <1>5, <1>6
    <3> HIDE DEF left, child, q, p, t
    <3> QED BY <1>3, <3>1
  <2>3. \A x \in 0..(len - 1) : u[x + 1] = IF x = p THEN t[child + 1] ELSE IF x = child THEN t[p + 1] ELSE t[x + 1]
    <3>1. \A k \in 1..n : u[k] = IF k = p + 1 THEN t[child + 1] ELSE IF k = child + 1 THEN t[p + 1] ELSE t[k]
      <4>1. child \in 0..(len - 1) /\ p \in 0..(len - 1) /\ t \in Vectors(n)
        <5> HIDE DEF left, child, q, p, t
        <5> QED BY <1>1, <2>2
      <4> HIDE DEF left, child, q, p, t
      <4> QED BY <4>1, SwapKeeps
    <3> HIDE DEF left, child, q, p, t, u
    <3> QED BY <2>2, <3>1
  <2>4. Over(t[child + 1], t[p + 1])
    <3>1. t[child + 1] \in Value /\ t[p + 1] \in Value
      <4> HIDE DEF left, child, q, p, t
      <4> QED BY <1>4, <2>2
    <3> QED BY <1>6, <3>1, OverOrders
  <2>5. ASSUME NEW c \in 1..(len - 1), q(c) >= i, q(c) # child PROVE Over(u[q(c) + 1], u[c + 1])
    <3> HIDE DEF left, child, q, p, t, u
    <3>1. c \in 0..(len - 1) /\ q(c) \in 0..(len - 1) /\ q(c) < c
      BY <1>3
    <3>2. CASE c = child
      BY <2>2, <2>3, <2>4, <3>1, <3>2
    <3>3. CASE c # child /\ q(c) = p
      BY <2>2, <2>3, <3>1, <3>3
    <3>4. CASE c # child /\ q(c) # p /\ c = p
      <4>1. p > 0 /\ q(p) >= i
        BY <2>5, <3>4
      <4>2. Over(t[q(p) + 1], t[child + 1])
        BY <1>2, <2>2, <4>1
      <4> QED BY <2>2, <2>3, <2>5, <3>1, <3>4, <4>2
    <3>5. CASE c # child /\ q(c) # p /\ c # p
      BY <1>2, <2>2, <2>3, <2>5, <3>1, <3>5
    <3> QED BY <3>2, <3>3, <3>4, <3>5
  <2>6. ASSUME NEW c \in 1..(len - 1), q(c) = child PROVE Over(u[q(child) + 1], u[c + 1])
    <3> HIDE DEF left, child, q, p, t, u
    <3>1. c \in 0..(len - 1) /\ c > child /\ Over(t[child + 1], t[c + 1])
      BY <1>1, <1>2, <1>3, <2>2, <2>6
    <3>2. c \in 0..(len - 1) /\ p \in 0..(len - 1) /\ c # p /\ c # child
      BY <2>2, <3>1
    <3>3. u[c + 1] = t[c + 1] /\ u[p + 1] = t[child + 1]
      BY <2>3, <3>2
    <3> QED BY <2>2, <3>1, <3>3
  <2>7. Sinking(<<u, child>>, i, n, len)
    <3> HIDE DEF left, child, p, t, u
    <3> QED BY <1>1, <2>2, <2>5, <2>6 DEF Sinking
  <2>8. Arrays!Lowered(place, len)[2] > place[2]
    <3>1. place[2] = p
      OBVIOUS
    <3> HIDE DEF left, child, q, p, t, u
    <3> QED BY <2>1, <2>2, <3>1
  <2>9. place[2] \in Nat
    OBVIOUS
  <2> HIDE DEF left, child, q, p, t, u
  <2> QED BY <2>1, <2>7, <2>8, <2>9
<1>7. CASE ~(left < len /\ Arrays!Rises(t[child + 1], t[p + 1]))
  <2>1. Arrays!Lowered(place, len) = place
    BY <1>7 DEF Arrays!Lowered
  <2>2. ASSUME NEW c \in 1..(len - 1), q(c) >= i PROVE Over(t[q(c) + 1], t[c + 1])
    <3>1. CASE q(c) # p
      BY <1>2, <2>2, <3>1
    <3>2. CASE q(c) = p
      <4>1. left < len
        <5> HIDE DEF child, q, p, t
        <5> QED BY <1>1, <1>3, <2>2, <3>2
      <4>2. /\ t[c + 1] \in Value /\ t[p + 1] \in Value /\ t[child + 1] \in Value
            /\ Over(t[child + 1], t[c + 1])
        <5>1. child \in 1..(len - 1) /\ Over(t[child + 1], t[c + 1])
          BY <1>5, <3>2, <4>1
        <5> HIDE DEF left, child, q, p, t
        <5> QED BY <1>1, <1>3, <1>4, <3>2, <5>1
      <4>3. Over(t[p + 1], t[child + 1])
        BY <1>7, <4>1, <4>2, OverOrders
      <4>4. Over(t[p + 1], t[c + 1])
        <5> HIDE DEF left, child, q, p, t
        <5> QED BY <4>2, <4>3, OverOrders
      <4> QED BY <3>2, <4>4
    <3> QED BY <3>1, <3>2
  <2> QED BY <2>1, <2>2 DEF HeapFrom
<1> QED BY <1>6, <1>7

LEMMA AdjustDownIn ==
  ASSUME isMin \in BOOLEAN, NEW n \in Nat, NEW len \in 0..n, NEW s \in Vectors(n), NEW i \in Nat
  PROVE  /\ Kept(s, Arrays!AdjustDown(s, i, len), n, len)
         /\ HeapFrom(s, i + 1, len) => HeapFrom(Arrays!AdjustDown(s, i, len), i, len)
<1> DEFINE V == Vectors(n) \X Nat
           v == <<s, i>>
           g == [k \in 1..len |-> [place \in V |-> Arrays!Lowered(place, len)]]
           Is(f) == f = [k \in 0..len |-> IF k = 0 THEN <<s, i>> ELSE Arrays!Lowered(f[k - 1], len)]
           turn == CHOOSE f : Is(f)
<1>e. Arrays!AdjustDown(s, i, len) = turn[len][1]
  BY DEF Arrays!AdjustDown
<1>1. /\ v \in V /\ g \in [1..len -> [V -> V]]
      /\ \A k \in 1..len : \A place \in V : g[k][place] = Arrays!Lowered(place, len)
  BY LoweredIn
<1> HIDE DEF g, V
<1>2. PICK f \in [0..len -> V] : f[0] = v /\ \A k \in 1..len : f[k] = g[k][f[k - 1]]
  <2>1. len \in Nat
    OBVIOUS
  <2> HIDE DEF turn, v
  <2> QED BY <1>1, <2>1, RecursionExists, SMTT(30)
<1>3. Is(f)
  <2>1. \A k \in 1..len : f[k - 1] \in V /\ g[k][f[k - 1]] = Arrays!Lowered(f[k - 1], len)
    BY <1>1, <1>2
  <2>2. \A k \in 0..len : f[k] = IF k = 0 THEN v ELSE Arrays!Lowered(f[k - 1], len)
    <3>1. \A k \in 0..len : k = 0 \/ k \in 1..len
      OBVIOUS
    <3> HIDE DEF v
    <3> QED BY <1>2, <2>1, <3>1
  <2>3. f = [k \in 0..len |-> f[k]]
    BY <1>2
  <2> QED BY <2>2, <2>3
<1>4. Is(turn)
  BY <1>3
<1> HIDE DEF turn
<1>5. turn[0] = <<s, i>> /\ \A k \in 1..len : turn[k] = Arrays!Lowered(turn[k - 1], len)
  <2>1. 0 \in 0..len /\ \A k \in 1..len : k \in 0..len /\ k # 0
    OBVIOUS
  <2> QED BY <1>4, <2>1
<1> HIDE DEF Is
<1> DEFINE Done(k) ==
             /\ turn[k] \in V /\ Kept(s, turn[k][1], n, len)
             /\ HeapFrom(s, i + 1, len) =>
                  /\ Sinking(turn[k], i, n, len)
                  /\ \/ HeapFrom(turn[k][1], i, len) /\ Arrays!Lowered(turn[k], len) = turn[k]
                     \/ turn[k][2] >= i + k
           U == {k \in Nat : k <= len => Done(k)}
<1>6. 0 \in U
  <2>1. turn[0][1] = s /\ turn[0][2] = i
    BY <1>5
  <2>2. HeapFrom(s, i + 1, len) => Sinking(turn[0], i, n, len)
    <3> SUFFICES ASSUME HeapFrom(s, i + 1, len) PROVE Sinking(turn[0], i, n, len)
      OBVIOUS
    <3>1. ASSUME NEW c \in 1..(len - 1), Arrays!ParentIndex(c) >= i, Arrays!ParentIndex(c) # i
          PROVE  Over(s[Arrays!ParentIndex(c) + 1], s[c + 1])
      <4>1. Arrays!ParentIndex(c) \in Nat
        BY Parents
      <4> QED BY <3>1, <4>1 DEF HeapFrom
    <3>2. i > 0 => ~(Arrays!ParentIndex(i) >= i)
      BY Parents
    <3> QED BY <2>1, <3>1, <3>2 DEF Sinking
  <2>3. Done(0)
    BY <1>1, <1>5, <2>1, <2>2, KeptSelf
  <2> HIDE DEF Done
  <2> QED BY <2>3
<1>7. ASSUME NEW k \in U PROVE k + 1 \in U
  <2> SUFFICES ASSUME k + 1 <= len PROVE Done(k + 1)
    BY <1>7
  <2>1. k \in Nat /\ Done(k) /\ k + 1 \in 1..len /\ (k + 1) - 1 = k
    BY <1>7
  <2> DEFINE place == turn[k]
             lo == Arrays!Lowered(place, len)
  <2>2. turn[k + 1] = lo
    BY <1>5, <2>1
  <2>3. place \in V /\ Kept(s, place[1], n, len)
    BY <2>1
  <2>4. lo \in V /\ Kept(place[1], lo[1], n, len)
    <3> HIDE DEF place
    <3> QED BY <2>3, LoweredIn DEF V
  <2>5. Kept(s, lo[1], n, len)
    <3> HIDE DEF place, lo
    <3> QED BY <2>3, <2>4, KeptOn
  <2>6. ASSUME HeapFrom(s, i + 1, len)
        PROVE  /\ Sinking(lo, i, n, len)
               /\ (HeapFrom(lo[1], i, len) /\ Arrays!Lowered(lo, len) = lo) \/ lo[2] >= i + (k + 1)
    <3>1. /\ Sinking(place, i, n, len)
          /\ (HeapFrom(place[1], i, len) /\ lo = place) \/ place[2] >= i + k
      BY <2>1, <2>6
    <3>2. /\ Sinking(lo, i, n, len) /\ (lo = place \/ lo[2] > place[2])
          /\ lo = place => HeapFrom(place[1], i, len)
      <4> HIDE DEF place
      <4> QED BY <2>3, <3>1, LoweredSinks DEF V
    <3>3. CASE lo = place
      <4>1. Arrays!Lowered(lo, len) = lo
        BY <3>3
      <4> HIDE DEF lo, place
      <4> QED BY <3>2, <3>3, <4>1
    <3>4. CASE lo # place
      <4>1. lo[2] \in Nat /\ place[2] \in Nat
        <5> HIDE DEF lo, place
        <5> QED BY <2>3, <2>4 DEF V
      <4> HIDE DEF lo, place
      <4> QED BY <2>1, <3>1, <3>2, <3>4, <4>1
    <3> QED BY <3>3, <3>4
  <2> HIDE DEF place, lo
  <2> QED BY <2>2, <2>4, <2>5, <2>6
<1>8. U = Nat
  <2> HIDE DEF U
  <2>1. U \subseteq Nat
    BY DEF U
  <2> QED BY <1>6, <1>7, <2>1, SetInduction
<1>9. Done(len)
  <2> HIDE DEF Done
  <2> QED BY <1>8
\* After len turns, the index has no child.
<1>10. ASSUME HeapFrom(s, i + 1, len), turn[len][2] >= i + len PROVE HeapFrom(turn[len][1], i, len)
  <2> DEFINE p == turn[len][2]
             t == turn[len][1]
  <2>1. p \in Nat /\ p >= len
    <3>1. p \in Nat
      BY <1>9 DEF V
    <3> HIDE DEF p
    <3>2. p >= i + len
      BY <1>10 DEF p
    <3> QED BY <3>1, <3>2
  <2>2. \A c \in 1..(len - 1) : Arrays!ParentIndex(c) # p
    <3>1. \A c \in 1..(len - 1) : Arrays!ParentIndex(c) \in Nat /\ Arrays!ParentIndex(c) < c
      BY Parents
    <3> HIDE DEF p
    <3> QED BY <2>1, <3>1
  <2>3. Sinking(turn[len], i, n, len)
    BY <1>9, <1>10
  <2> QED BY <2>2, <2>3 DEF HeapFrom, Sinking
<1>11. Kept(s, turn[len][1], n, len)
  BY <1>9
<1>12. HeapFrom(s, i + 1, len) => HeapFrom(turn[len][1], i, len)
  BY <1>9, <1>10
<1> QED BY <1>e, <1>11, <1>12

\* While the value at index p rises: only p may be out of order with its
\* parent, and its children are in order with that one.
Rising(place, n) ==
  LET t == place[1]
      p == place[2]
  IN /\ \A c \in 1..(n - 1) : c # p => Over(t[Arrays!ParentIndex(c) + 1], t[c + 1])
     /\ p > 0 => \A c \in 1..(n - 1) : Arrays!ParentIndex(c) = p => Over(t[Arrays!ParentIndex(p) + 1], t[c + 1])

LEMMA RaisedIn ==
  ASSUME isMin \in BOOLEAN, NEW n \in Nat, NEW place \in Vectors(n) \X (0..(n - 1))
  PROVE  /\ Arrays!Raised(place) \in Vectors(n) \X (0..(n - 1))
         /\ Kept(place[1], Arrays!Raised(place)[1], n, n)
<1> DEFINE t == place[1]
           p == place[2]
           q == Arrays!ParentIndex(p)
<1>1. t \in Vectors(n) /\ p \in 0..(n - 1) /\ place = <<t, p>>
  OBVIOUS
<1>2. CASE p > 0 /\ Arrays!Rises(t[p + 1], t[q + 1])
  <2>1. q \in 0..(n - 1)
    <3>1. p \in Nat \ {0} /\ p \in 0..(n - 1)
      BY <1>1, <1>2
    <3>2. q \in Nat /\ q < p
      BY <3>1, Parents
    <3> HIDE DEF p, q
    <3> QED BY <3>1, <3>2
  <2>2. Arrays!Raised(place) = <<Arrays!Swap(t, p, q), q>>
    BY <1>2 DEF Arrays!Raised
  <2>3. Kept(t, Arrays!Swap(t, p, q), n, n)
    <3>1. n \in 0..n
      OBVIOUS
    <3> HIDE DEF t, p, q
    <3> QED BY <1>1, <2>1, <3>1, SwapKeeps
  <2>4. Arrays!Swap(t, p, q) \in Vectors(n)
    BY <2>3 DEF Kept
  <2>5. place[1] = t
    OBVIOUS
  <2> HIDE DEF t, p, q
  <2> QED BY <2>1, <2>2, <2>3, <2>4, <2>5
<1>3. CASE ~(p > 0 /\ Arrays!Rises(t[p + 1], t[q + 1]))
  BY <1>1, <1>3, KeptSelf DEF Arrays!Raised
<1> QED BY <1>2, <1>3

LEMMA RaisedRises ==
  ASSUME isMin \in BOOLEAN, NEW n \in Nat, NEW place \in Vectors(n) \X (0..(n - 1)), Rising(place, n)
  PROVE  LET hi == Arrays!Raised(place) IN
         /\ Rising(hi, n)
         /\ hi = place \/ hi[2] < place[2]
         /\ hi = place => HeapFrom(place[1], 0, n)
<1> DEFINE t == place[1]
           p == place[2]
           q(c) == Arrays!ParentIndex(c)
<1>1. t \in Vectors(n) /\ p \in 0..(n - 1) /\ place = <<t, p>>
  OBVIOUS
<1>2. /\ \A c \in 1..(n - 1) : c # p => Over(t[q(c) + 1], t[c + 1])
      /\ p > 0 => \A c \in 1..(n - 1) : q(c) = p => Over(t[q(p) + 1], t[c + 1])
  BY DEF Rising
<1>3. \A c \in 1..(n - 1) : q(c) \in 0..(n - 1) /\ q(c) < c
  BY Parents
<1>4. \A x \in 0..(n - 1) : t[x + 1] \in Value
  BY <1>1 DEF Vectors
<1>5. CASE p > 0 /\ Arrays!Rises(t[p + 1], t[q(p) + 1])
  <2> DEFINE r == q(p)
             u == Arrays!Swap(t, p, r)
  <2>1. p \in 1..(n - 1) /\ r \in 0..(n - 1) /\ r < p
    <3>1. p \in 1..(n - 1)
      BY <1>1, <1>5
    <3> HIDE DEF p, q
    <3> QED BY <1>3, <3>1
  <2>2. Arrays!Raised(place) = <<u, r>>
    BY <1>5 DEF Arrays!Raised
  <2>3. \A x \in 0..(n - 1) : u[x + 1] = IF x = r THEN t[p + 1] ELSE IF x = p THEN t[r + 1] ELSE t[x + 1]
    <3>1. \A k \in 1..n : u[k] = IF k = r + 1 THEN t[p + 1] ELSE IF k = p + 1 THEN t[r + 1] ELSE t[k]
      <4>1. p \in 0..(n - 1) /\ n \in 0..n
        BY <1>1
      <4> HIDE DEF q, r, p, t
      <4> QED BY <1>1, <2>1, <4>1, SwapKeeps
    <3> HIDE DEF q, r, p, t, u
    <3> QED BY <2>1, <3>1
  <2>4. Over(t[p + 1], t[r + 1])
    <3>1. t[p + 1] \in Value /\ t[r + 1] \in Value
      <4> HIDE DEF q, r, p, t
      <4> QED BY <1>1, <1>4, <2>1
    <3> QED BY <1>5, <3>1, OverOrders
  <2>5. ASSUME NEW c \in 1..(n - 1), c # r PROVE Over(u[q(c) + 1], u[c + 1])
    <3>1. c \in 0..(n - 1) /\ q(c) \in 0..(n - 1) /\ q(c) < c /\ p \in 0..(n - 1)
      <4> HIDE DEF q, r, p, t
      <4> QED BY <1>1, <1>3
    <3>2. t[p + 1] \in Value /\ t[r + 1] \in Value /\ t[c + 1] \in Value
      <4> HIDE DEF q, r, p, t
      <4> QED BY <1>4, <2>1, <3>1
    <3>3. CASE c = p
      <4>1. q(c) = r
        BY <3>3
      <4> HIDE DEF q, r, p, t, u
      <4> QED BY <2>1, <2>3, <2>4, <3>1, <3>3, <4>1
    <3>4. CASE c # p /\ q(c) = r
      <4>1. Over(t[r + 1], t[c + 1])
        <5> HIDE DEF q, r, p, t, u
        <5> QED BY <1>2, <3>4
      <4>2. Over(t[p + 1], t[c + 1])
        <5> HIDE DEF q, r, p, t, u
        <5> QED BY <2>4, <3>2, <4>1, OverOrders
      <4> HIDE DEF q, r, p, t, u
      <4> QED BY <2>1, <2>3, <2>5, <3>1, <3>4, <4>2
    <3>5. CASE c # p /\ q(c) = p
      <4>1. Over(t[r + 1], t[c + 1])
        <5>1. p > 0
          BY <1>5
        <5> QED BY <1>2, <3>5, <5>1
      <4> HIDE DEF q, r, p, t, u
      <4> QED BY <2>1, <2>3, <2>5, <3>1, <3>5, <4>1
    <3>6. CASE c # p /\ q(c) # p /\ q(c) # r
      <4> HIDE DEF q, r, p, t, u
      <4> QED BY <1>2, <2>3, <2>5, <3>1, <3>6
    <3> QED BY <3>3, <3>4, <3>5, <3>6
  <2>6. ASSUME r > 0, NEW c \in 1..(n - 1), q(c) = r PROVE Over(u[q(r) + 1], u[c + 1])
    <3> DEFINE w == q(r)
    <3>1. r \in 1..(n - 1)
      <4> HIDE DEF q, r, p, t, u
      <4> QED BY <2>1, <2>6
    <3>2. w \in 0..(n - 1) /\ w < r /\ c \in 0..(n - 1) /\ r < c /\ p \in 0..(n - 1)
      <4> HIDE DEF r, p, t, u
      <4> QED BY <1>1, <1>3, <2>6, <3>1
    <3>3. Over(t[w + 1], t[r + 1])
      <4>1. r # p
        <5> HIDE DEF q, r, p, t, u
        <5> QED BY <2>1
      <4> HIDE DEF r, p, t, u
      <4> QED BY <1>2, <3>1, <4>1
    <3>4. u[w + 1] = t[w + 1]
      <4> HIDE DEF q, r, p, t, u, w
      <4> QED BY <2>1, <2>3, <3>2
    <3>5. CASE c = p
      <4>1. u[c + 1] = t[r + 1]
        <5> HIDE DEF q, r, p, t, u, w
        <5> QED BY <2>1, <2>3, <3>2, <3>5
      <4> HIDE DEF r, p, t, u
      <4> QED BY <3>3, <3>4, <4>1
    <3>6. CASE c # p
      <4>1. u[c + 1] = t[c + 1]
        <5> HIDE DEF q, r, p, t, u, w
        <5> QED BY <2>1, <2>3, <3>2, <3>6
      <4>2. Over(t[r + 1], t[c + 1])
        <5> HIDE DEF q, r, p, t, u, w
        <5> QED BY <1>2, <2>6, <3>6
      <4>3. t[w + 1] \in Value /\ t[r + 1] \in Value /\ t[c + 1] \in Value
        <5> HIDE DEF q, r, p, t, u, w
        <5> QED BY <1>4, <2>1, <3>2
      <4>4. Over(t[w + 1], t[c + 1])
        <5> HIDE DEF q, r, p, t, u, w
        <5> QED BY <3>3, <4>2, <4>3, OverOrders
      <4> HIDE DEF r, p, t, u
      <4> QED BY <3>4, <4>1, <4>4
    <3> QED BY <3>5, <3>6
  <2>7. Rising(<<u, r>>, n)
    <3> HIDE DEF r, p, t, u
    <3> QED BY <2>5, <2>6 DEF Rising
  <2>8. place[2] = p /\ p \in Int
    BY <1>1
  <2> HIDE DEF q, r, p, t, u
  <2> QED BY <2>1, <2>2, <2>7, <2>8
<1>6. CASE ~(p > 0 /\ Arrays!Rises(t[p + 1], t[q(p) + 1]))
  <2>1. Arrays!Raised(place) = place
    BY <1>6 DEF Arrays!Raised
  <2>2. ASSUME NEW c \in 1..(n - 1) PROVE Over(t[q(c) + 1], t[c + 1])
    <3>1. CASE c # p
      BY <1>2, <3>1
    <3>2. CASE c = p
      <4>1. t[p + 1] \in Value /\ t[q(p) + 1] \in Value /\ p > 0
        <5> HIDE DEF q, p, t
        <5> QED BY <1>1, <1>3, <1>4, <3>2
      <4> QED BY <1>6, <3>2, <4>1, OverOrders
    <3> QED BY <3>1, <3>2
  <2> QED BY <2>1, <2>2 DEF HeapFrom
<1> QED BY <1>5, <1>6

LEMMA AdjustUpIn ==
  ASSUME isMin \in BOOLEAN, NEW n \in Nat, NEW s \in Vectors(n), NEW i \in 0..(n - 1)
  PROVE  /\ Kept(s, Arrays!AdjustUp(s, i), n, n)
         /\ Rising(<<s, i>>, n) => HeapFrom(Arrays!AdjustUp(s, i), 0, n)
<1> DEFINE V == Vectors(n) \X (0..(n - 1))
           v == <<s, i>>
           g == [k \in 1..i |-> [place \in V |-> Arrays!Raised(place)]]
           Is(f) == f = [k \in 0..i |-> IF k = 0 THEN <<s, i>> ELSE Arrays!Raised(f[k - 1])]
           turn == CHOOSE f : Is(f)
<1>e. Arrays!AdjustUp(s, i) = turn[i][1]
  BY DEF Arrays!AdjustUp
<1>1. /\ v \in V /\ g \in [1..i -> [V -> V]]
      /\ \A k \in 1..i : \A place \in V : g[k][place] = Arrays!Raised(place)
  BY RaisedIn
<1> HIDE DEF g, V
<1>2. PICK f \in [0..i -> V] : f[0] = v /\ \A k \in 1..i : f[k] = g[k][f[k - 1]]
  <2>1. i \in Nat
    OBVIOUS
  <2> HIDE DEF turn, v
  <2> QED BY <1>1, <2>1, RecursionExists, SMTT(30)
<1>3. Is(f)
  <2>1. \A k \in 1..i : f[k - 1] \in V /\ g[k][f[k - 1]] = Arrays!Raised(f[k - 1])
    BY <1>1, <1>2
  <2>2. \A k \in 0..i : f[k] = IF k = 0 THEN v ELSE Arrays!Raised(f[k - 1])
    <3>1. \A k \in 0..i : k = 0 \/ k \in 1..i
      OBVIOUS
    <3> HIDE DEF v
    <3> QED BY <1>2, <2>1, <3>1
  <2>3. f = [k \in 0..i |-> f[k]]
    BY <1>2
  <2> QED BY <2>2, <2>3
<1>4. Is(turn)
  BY <1>3
<1> HIDE DEF turn
<1>5. turn[0] = <<s, i>> /\ \A k \in 1..i : turn[k] = Arrays!Raised(turn[k - 1])
  <2>1. 0 \in 0..i /\ \A k \in 1..i : k \in 0..i /\ k # 0
    OBVIOUS
  <2> QED BY <1>4, <2>1
<1> HIDE DEF Is
<1> DEFINE Done(k) ==
             /\ turn[k] \in V /\ Kept(s, turn[k][1], n, n)
             /\ Rising(<<s, i>>, n) =>
                  /\ Rising(turn[k], n)
                  /\ \/ HeapFrom(turn[k][1], 0, n) /\ Arrays!Raised(turn[k]) = turn[k]
                     \/ turn[k][2] <= i - k
           U == {k \in Nat : k <= i => Done(k)}
<1>6. 0 \in U
  <2>1. turn[0][1] = s /\ turn[0][2] = i /\ i <= i - 0
    BY <1>5
  <2>2. Done(0)
    BY <1>1, <1>5, <2>1, KeptSelf
  <2> HIDE DEF Done
  <2> QED BY <2>2
<1>7. ASSUME NEW k \in U PROVE k + 1 \in U
  <2> SUFFICES ASSUME k + 1 <= i PROVE Done(k + 1)
    BY <1>7
  <2>1. k \in Nat /\ Done(k) /\ k + 1 \in 1..i /\ (k + 1) - 1 = k
    BY <1>7
  <2> DEFINE now == turn[k]
             hi == Arrays!Raised(now)
  <2>2. turn[k + 1] = hi
    BY <1>5, <2>1
  <2>3. now \in V /\ Kept(s, now[1], n, n)
    BY <2>1
  <2>4. hi \in V /\ Kept(now[1], hi[1], n, n)
    <3> HIDE DEF now
    <3> QED BY <2>3, RaisedIn DEF V
  <2>5. Kept(s, hi[1], n, n)
    <3>1. n \in 0..n
      OBVIOUS
    <3> HIDE DEF now, hi
    <3> QED BY <2>3, <2>4, <3>1, KeptOn
  <2>6. ASSUME Rising(<<s, i>>, n)
        PROVE  /\ Rising(hi, n)
               /\ (HeapFrom(hi[1], 0, n) /\ Arrays!Raised(hi) = hi) \/ hi[2] <= i - (k + 1)
    <3>1. /\ Rising(now, n)
          /\ (HeapFrom(now[1], 0, n) /\ hi = now) \/ now[2] <= i - k
      BY <2>1, <2>6
    <3>2. /\ Rising(hi, n) /\ (hi = now \/ hi[2] < now[2])
          /\ hi = now => HeapFrom(now[1], 0, n)
      <4> HIDE DEF now
      <4> QED BY <2>3, <3>1, RaisedRises DEF V
    <3>3. CASE hi = now
      <4>1. Arrays!Raised(hi) = hi
        BY <3>3
      <4> HIDE DEF hi, now
      <4> QED BY <3>2, <3>3, <4>1
    <3>4. CASE hi # now
      <4>1. hi[2] \in Int /\ now[2] \in Int
        <5> HIDE DEF hi, now
        <5> QED BY <2>3, <2>4 DEF V
      <4> HIDE DEF hi, now
      <4> QED BY <2>1, <3>1, <3>2, <3>4, <4>1
    <3> QED BY <3>3, <3>4
  <2> HIDE DEF now, hi
  <2> QED BY <2>2, <2>4, <2>5, <2>6
<1>8. U = Nat
  <2> HIDE DEF U
  <2>1. U \subseteq Nat
    BY DEF U
  <2> QED BY <1>6, <1>7, <2>1, SetInduction
<1>9. Done(i)
  <2> HIDE DEF Done
  <2> QED BY <1>8
\* After i turns, the index is the root.
<1>10. ASSUME Rising(<<s, i>>, n), turn[i][2] <= i - i PROVE HeapFrom(turn[i][1], 0, n)
  <2>1. turn[i][2] \in 0..(n - 1)
    BY <1>9 DEF V
  <2>2. turn[i][2] = 0
    BY <1>10, <2>1
  <2>3. Rising(turn[i], n)
    BY <1>9, <1>10
  <2> QED BY <2>2, <2>3 DEF HeapFrom, Rising
<1>11. Kept(s, turn[i][1], n, n)
  BY <1>9
<1>12. Rising(<<s, i>>, n) => HeapFrom(turn[i][1], 0, n)
  BY <1>9, <1>10
<1> QED BY <1>e, <1>11, <1>12

LEMMA AdjustIn ==
  ASSUME isMin \in BOOLEAN, NEW n \in Nat, NEW s \in Vectors(n)
  PROVE  Kept(s, Arrays!Adjust(s), n, n) /\ HeapFrom(Arrays!Adjust(s), 0, n)
<1> DEFINE V == Vectors(n)
           inner == n \div 2
           g == [k \in 1..inner |-> [t \in V |-> Arrays!AdjustDown(t, inner - k, n)]]
           Is(f) == f = [k \in 0..inner |-> IF k = 0 THEN s ELSE Arrays!AdjustDown(f[k - 1], inner - k, n)]
           pass == CHOOSE f : Is(f)
<1>0. Len(s) = n /\ inner \in Nat /\ n \in 0..n /\ \A c \in 1..(n - 1) : (c - 1) \div 2 < inner
  BY DEF Vectors
<1>e. Arrays!Adjust(s) = pass[inner]
  BY <1>0 DEF Arrays!Adjust
<1>u. \A c \in 1..(n - 1) : Arrays!ParentIndex(c) < inner
  BY <1>0 DEF Arrays!ParentIndex
<1> HIDE DEF inner
<1>d. ASSUME NEW k \in 1..inner, NEW t \in V
      PROVE  LET d == Arrays!AdjustDown(t, inner - k, n) IN
             d \in V /\ Kept(t, d, n, n) /\ (HeapFrom(t, inner - k + 1, n) => HeapFrom(d, inner - k, n))
  <2>1. inner - k \in Nat
    BY <1>0
  <2>2. /\ Kept(t, Arrays!AdjustDown(t, inner - k, n), n, n)
        /\ HeapFrom(t, inner - k + 1, n) => HeapFrom(Arrays!AdjustDown(t, inner - k, n), inner - k, n)
    BY <1>0, <2>1, AdjustDownIn
  <2> QED BY <2>2 DEF Kept
<1>1. /\ s \in V /\ g \in [1..inner -> [V -> V]]
      /\ \A k \in 1..inner : \A t \in V : g[k][t] = Arrays!AdjustDown(t, inner - k, n)
  BY <1>d
<1> HIDE DEF g, V
<1>2. PICK f \in [0..inner -> V] : f[0] = s /\ \A k \in 1..inner : f[k] = g[k][f[k - 1]]
  <2>1. inner \in Nat /\ s \in V /\ g \in [1..inner -> [V -> V]]
    BY <1>0, <1>1
  <2> HIDE DEF pass, Is
  <2> QED BY <2>1, RecursionExists, SMTT(30)
<1>3. Is(f)
  <2>1. \A k \in 1..inner : f[k - 1] \in V /\ g[k][f[k - 1]] = Arrays!AdjustDown(f[k - 1], inner - k, n)
    BY <1>0, <1>1, <1>2
  <2>2. \A k \in 0..inner : f[k] = IF k = 0 THEN s ELSE Arrays!AdjustDown(f[k - 1], inner - k, n)
    <3>1. \A k \in 0..inner : k = 0 \/ k \in 1..inner
      BY <1>0
    <3> QED BY <1>2, <2>1, <3>1
  <2>3. f = [k \in 0..inner |-> f[k]]
    BY <1>2
  <2> QED BY <2>2, <2>3
<1>4. Is(pass)
  BY <1>3
<1> HIDE DEF pass
<1>5. pass[0] = s /\ \A k \in 1..inner : pass[k] = Arrays!AdjustDown(pass[k - 1], inner - k, n)
  <2>1. 0 \in 0..inner /\ \A k \in 1..inner : k \in 0..inner /\ k # 0
    BY <1>0
  <2> QED BY <1>4, <2>1
<1> HIDE DEF Is
<1> DEFINE Done(k) == pass[k] \in V /\ Kept(s, pass[k], n, n) /\ HeapFrom(pass[k], inner - k, n)
           U == {k \in Nat : k <= inner => Done(k)}
<1>6. 0 \in U
  <2>1. HeapFrom(s, inner - 0, n)
    <3>1. \A c \in 1..(n - 1) : ~(Arrays!ParentIndex(c) >= inner - 0)
      <4>1. \A c \in 1..(n - 1) : Arrays!ParentIndex(c) \in Nat
        BY Parents
      <4> QED BY <1>0, <1>u, <4>1
    <3> QED BY <3>1 DEF HeapFrom
  <2>2. Done(0)
    BY <1>1, <1>5, <2>1, KeptSelf DEF V
  <2> HIDE DEF Done
  <2> QED BY <2>2
<1>7. ASSUME NEW k \in U PROVE k + 1 \in U
  <2> SUFFICES ASSUME k + 1 <= inner PROVE Done(k + 1)
    BY <1>7
  <2>1. /\ k \in Nat /\ Done(k) /\ k + 1 \in 1..inner /\ (k + 1) - 1 = k
        /\ inner - (k + 1) + 1 = inner - k
    BY <1>0, <1>7
  <2>2. pass[k + 1] = Arrays!AdjustDown(pass[k], inner - (k + 1), n)
    BY <1>5, <2>1
  <2>3. pass[k + 1] \in V /\ Kept(pass[k], pass[k + 1], n, n) /\ HeapFrom(pass[k + 1], inner - (k + 1), n)
    BY <1>d, <2>1, <2>2
  <2>4. Kept(s, pass[k + 1], n, n)
    BY <1>0, <2>1, <2>3, KeptOn
  <2> QED BY <2>3, <2>4
<1>8. U = Nat
  <2> HIDE DEF U
  <2>1. U \subseteq Nat
    BY DEF U
  <2> QED BY <1>6, <1>7, <2>1, SetInduction
<1>9. Done(inner)
  <2> HIDE DEF Done
  <2> QED BY <1>0, <1>8
<1>10. inner - inner = 0
  BY <1>0
<1> QED BY <1>e, <1>9, <1>10

LEMMA InHeap ==
  ASSUME NEW s, NEW m, NEW len, HeapFrom(s, m, len), NEW c \in 1..(len - 1), Arrays!ParentIndex(c) >= m
  PROVE  Over(s[Arrays!ParentIndex(c) + 1], s[c + 1])
BY DEF HeapFrom

\* In a heap, no value stands above the first one.
LEMMA Top ==
  ASSUME isMin \in BOOLEAN, NEW n \in Nat, NEW len \in 1..n, NEW s \in Vectors(n), HeapFrom(s, 0, len)
  PROVE  \A i \in 1..len : Over(s[1], s[i])
<1> DEFINE U == {c \in Nat : \A m \in 0..c : m < len => Over(s[1], s[m + 1])}
<1>0. \A i \in 1..len : s[i] \in Value
  BY DEF Vectors
<1>1. 0 \in U
  <2>1. Over(s[1], s[0 + 1])
    BY <1>0, OverOrders
  <2> QED BY <2>1
<1>2. ASSUME NEW c \in U PROVE c + 1 \in U
  <2> SUFFICES ASSUME c + 1 < len PROVE Over(s[1], s[(c + 1) + 1])
    BY <1>2
  <2> DEFINE q == Arrays!ParentIndex(c + 1)
  <2>1. q \in 0..c /\ c + 1 \in 1..(len - 1) /\ c \in Nat
    <3>1. c + 1 \in Nat \ {0}
      BY <1>2
    <3>2. q \in Nat /\ q < c + 1
      BY <3>1, Parents
    <3> HIDE DEF q
    <3> QED BY <1>2, <3>1, <3>2
  <2>2. Over(s[q + 1], s[(c + 1) + 1])
    BY <2>1 DEF HeapFrom
  <2>3. Over(s[1], s[q + 1])
    <3> HIDE DEF q
    <3> QED BY <1>2, <2>1
  <2>4. s[1] \in Value /\ s[q + 1] \in Value /\ s[(c + 1) + 1] \in Value
    <3> HIDE DEF q
    <3> QED BY <1>0, <2>1
  <2> HIDE DEF q
  <2> QED BY <2>2, <2>3, <2>4, OverOrders
<1>3. U = Nat
  <2> HIDE DEF U
  <2>1. U \subseteq Nat
    BY DEF U
  <2> QED BY <1>1, <1>2, <2>1, SetInduction
<1>4. ASSUME NEW i \in 1..len PROVE Over(s[1], s[i])
  <2>1. i - 1 \in U /\ i - 1 \in 0..(i - 1) /\ i - 1 < len /\ (i - 1) + 1 = i
    <3>1. i - 1 \in Nat
      OBVIOUS
    <3> HIDE DEF U
    <3> QED BY <1>3, <3>1
  <2> QED BY <2>1
<1> QED BY <1>4

\* The values behind the first len ones are sorted, and each is over every
\* value before it.
Behind(s, n, len) == \A i, j \in 1..n : i < j /\ j > len => Over(s[j], s[i])

\* Sort, of a heap of any size: the same values, the smallest of a min heap
\* (the largest of a max heap) at the end.
THEOREM SortSorts ==
  ASSUME isMin \in BOOLEAN, NEW n \in Nat \ {0}, NEW s \in Vectors(n), HeapFrom(s, 0, n)
  PROVE  Kept(s, Arrays!Sorted(s), n, n) /\ Behind(Arrays!Sorted(s), n, 1)
<1> DEFINE V == Vectors(n)
           Down(t, k) == Arrays!AdjustDown(Arrays!Swap(t, 0, n - k), 0, n - k)
           g == [k \in 1..(n - 1) |-> [t \in V |-> Down(t, k)]]
           Is(f) == f = [k \in 0..(n - 1) |->
                           IF k = 0 THEN s ELSE Arrays!AdjustDown(Arrays!Swap(f[k - 1], 0, n - k), 0, n - k)]
           pass == CHOOSE f : Is(f)
<1>0. Len(s) = n /\ n - 1 \in Nat /\ n \in 0..n
  BY DEF Vectors
<1>e. Arrays!Sorted(s) = pass[n - 1]
  BY <1>0 DEF Arrays!Sorted
<1>d. ASSUME NEW k \in 1..(n - 1), NEW t \in V
      PROVE  LET u == Arrays!Swap(t, 0, n - k) IN
             /\ Down(t, k) \in V /\ Kept(t, u, n, n - k + 1) /\ Kept(u, Down(t, k), n, n - k)
             /\ Kept(t, Down(t, k), n, n)
             /\ \A m \in 1..n : u[m] = IF m = n - k + 1 THEN t[1] ELSE IF m = 1 THEN t[n - k + 1] ELSE t[m]
             /\ HeapFrom(u, 1, n - k) => HeapFrom(Down(t, k), 0, n - k)
  <2> DEFINE u == Arrays!Swap(t, 0, n - k)
  <2>1. /\ n - k \in 0..n /\ n - k + 1 \in 0..n /\ 0 \in 0..(n - k + 1 - 1) /\ n - k \in 0..(n - k + 1 - 1)
        /\ 0 + 1 = 1 /\ 0 \in 0..(n - 1) /\ n - k \in 0..(n - 1)
    OBVIOUS
  <2>2. /\ Kept(t, u, n, n - k + 1) /\ Kept(t, u, n, n)
        /\ \A m \in 1..n : u[m] = IF m = n - k + 1 THEN t[1] ELSE IF m = 1 THEN t[n - k + 1] ELSE t[m]
    <3>1. Kept(t, u, n, n - k + 1)
      BY <2>1, SwapKeeps
    <3>2. Kept(t, u, n, n)
      BY <1>0, <2>1, SwapKeeps
    <3>3. \A m \in 1..n : u[m] = IF m = n - k + 1 THEN t[0 + 1] ELSE IF m = 0 + 1 THEN t[n - k + 1] ELSE t[m]
      BY <1>0, <2>1, SwapKeeps
    <3> HIDE DEF u
    <3> QED BY <2>1, <3>1, <3>2, <3>3
  <2>3. u \in V
    BY <2>2 DEF Kept
  <2>4. Kept(u, Down(t, k), n, n - k) /\ (HeapFrom(u, 1, n - k) => HeapFrom(Down(t, k), 0, n - k))
    <3> HIDE DEF u
    <3>1. /\ Kept(u, Arrays!AdjustDown(u, 0, n - k), n, n - k)
          /\ HeapFrom(u, 0 + 1, n - k) => HeapFrom(Arrays!AdjustDown(u, 0, n - k), 0, n - k)
      BY <2>1, <2>3, AdjustDownIn
    <3> QED BY <2>1, <3>1 DEF u
  <2>5. Kept(u, Down(t, k), n, n)
    <3> HIDE DEF u, Down
    <3>1. \A i \in 1..n : i <= n => \E j \in 1..n : j <= n /\ Down(t, k)[i] = u[j]
      <4> SUFFICES ASSUME NEW i \in 1..n PROVE \E j \in 1..n : j <= n /\ Down(t, k)[i] = u[j]
        OBVIOUS
      <4>1. CASE i > n - k
        BY <2>4, <4>1 DEF Kept
      <4>2. CASE ~(i > n - k)
        <5>1. i <= n - k
          BY <2>1, <4>2
        <5>2. \E j \in 1..n : j <= n - k /\ Down(t, k)[i] = u[j]
          BY <2>4, <5>1 DEF Kept
        <5> QED BY <5>2
      <4> QED BY <4>1, <4>2
    <3>2. \A i \in 1..n : i > n => Down(t, k)[i] = u[i]
      OBVIOUS
    <3> QED BY <2>4, <3>1, <3>2 DEF Kept
  <2>6. Down(t, k) \in V
    BY <2>4 DEF Kept
  <2> HIDE DEF u, Down
  <2>7. Kept(t, Down(t, k), n, n)
    BY <1>0, <2>2, <2>5, KeptOn
  <2> QED BY <2>2, <2>4, <2>6, <2>7 DEF u
<1>1. /\ s \in V /\ g \in [1..(n - 1) -> [V -> V]]
      /\ \A k \in 1..(n - 1) : \A t \in V : g[k][t] = Down(t, k)
  <2> HIDE DEF Down
  <2> QED BY <1>d
<1> HIDE DEF g, V
<1>2. PICK f \in [0..(n - 1) -> V] : f[0] = s /\ \A k \in 1..(n - 1) : f[k] = g[k][f[k - 1]]
  <2> HIDE DEF pass, Down
  <2> QED BY <1>0, <1>1, RecursionExists, SMTT(30)
<1>3. Is(f)
  <2>1. \A k \in 1..(n - 1) : f[k - 1] \in V /\ g[k][f[k - 1]] = Down(f[k - 1], k)
    <3> HIDE DEF Down
    <3> QED BY <1>0, <1>1, <1>2
  <2>2. \A k \in 0..(n - 1) : f[k] = IF k = 0 THEN s ELSE Down(f[k - 1], k)
    <3>1. \A k \in 0..(n - 1) : k = 0 \/ k \in 1..(n - 1)
      BY <1>0
    <3> HIDE DEF Down
    <3> QED BY <1>2, <2>1, <3>1
  <2>3. f = [k \in 0..(n - 1) |-> f[k]]
    BY <1>2
  <2> QED BY <2>2, <2>3
<1>4. Is(pass)
  BY <1>3
<1> HIDE DEF pass
<1>5. pass[0] = s /\ \A k \in 1..(n - 1) : pass[k] = Down(pass[k - 1], k)
  <2>1. 0 \in 0..(n - 1) /\ \A k \in 1..(n - 1) : k \in 0..(n - 1) /\ k # 0
    BY <1>0
  <2> QED BY <1>4, <2>1
<1> HIDE DEF Is, Down
<1> DEFINE Done(k) == /\ pass[k] \in V /\ Kept(s, pass[k], n, n)
                      /\ HeapFrom(pass[k], 0, n - k) /\ Behind(pass[k], n, n - k)
           U == {k \in Nat : k <= n - 1 => Done(k)}
<1>6. 0 \in U
  <2>1. n - 0 = n /\ Behind(s, n, n)
    BY DEF Behind
  <2>2. Done(0)
    BY <1>1, <1>5, <2>1, KeptSelf DEF V
  <2> HIDE DEF Done
  <2> QED BY <2>2
<1>7. ASSUME NEW m \in U PROVE m + 1 \in U
  <2> SUFFICES ASSUME m + 1 <= n - 1 PROVE Done(m + 1)
    BY <1>7
  <2> DEFINE k == m + 1
             t == pass[m]
             u == Arrays!Swap(t, 0, n - k)
             w == pass[k]
             len == n - k
  <2>1. /\ m \in Nat /\ Done(m) /\ k \in 1..(n - 1) /\ k - 1 = m
        /\ len \in 1..(n - 1) /\ n - m = len + 1
    BY <1>0, <1>7
  <2>2. w = Down(t, k) /\ t \in V /\ Kept(s, t, n, n) /\ HeapFrom(t, 0, len + 1) /\ Behind(t, n, len + 1)
    <3>1. pass[k] = Down(pass[k - 1], k)
      <4> HIDE DEF k
      <4> QED BY <1>5, <2>1
    <3> QED BY <2>1, <3>1
  <2>3. /\ w \in V /\ Kept(t, u, n, len + 1) /\ Kept(u, w, n, len) /\ Kept(t, w, n, n)
        /\ \A x \in 1..n : u[x] = IF x = len + 1 THEN t[1] ELSE IF x = 1 THEN t[len + 1] ELSE t[x]
        /\ HeapFrom(u, 1, len) => HeapFrom(w, 0, len)
    <3> HIDE DEF k, t
    <3> QED BY <1>d, <2>1, <2>2
  <2> HIDE DEF k, t, u, w, len
  <2>4. HeapFrom(u, 1, len)
    <3> SUFFICES ASSUME NEW c \in 1..(len - 1), Arrays!ParentIndex(c) >= 1
                 PROVE  Over(u[Arrays!ParentIndex(c) + 1], u[c + 1])
      BY DEF HeapFrom
    <3> DEFINE q == Arrays!ParentIndex(c)
    <3>1. q \in 1..(len - 1) /\ q < c
      <4>1. q \in Nat /\ q < c
        BY <2>1, Parents
      <4> HIDE DEF q
      <4> QED BY <2>1, <4>1 DEF q
    <3>2. Over(t[q + 1], t[c + 1])
      <4>1. c \in 1..(len + 1 - 1) /\ q >= 0
        <5> HIDE DEF q
        <5> QED BY <2>1, <3>1
      <4>2. HeapFrom(t, 0, len + 1)
        BY <2>2
      <4> QED BY <2>1, <4>1, <4>2, InHeap
    <3>3. u[q + 1] = t[q + 1] /\ u[c + 1] = t[c + 1]
      <4> HIDE DEF q
      <4> QED BY <2>1, <2>3, <3>1
    <3> QED BY <3>2, <3>3
  <2>5. \A i \in 1..(len + 1) : Over(t[1], t[i])
    <3>1. len + 1 \in 1..n
      BY <2>1
    <3> QED BY <2>2, <3>1, Top DEF V
  <2>6. Behind(w, n, len)
    <3> SUFFICES ASSUME NEW i \in 1..n, NEW j \in 1..n, i < j, j > len PROVE Over(w[j], w[i])
      BY DEF Behind
    <3>1. w[j] = u[j]
      BY <2>3 DEF Kept
    <3>2. PICK x \in 1..n : w[i] = t[x] /\ (IF i <= len THEN x <= len + 1 ELSE x = i \/ (i = len + 1 /\ x = 1))
      <4>1. CASE i <= len
        <5>1. PICK y \in 1..n : y <= len /\ w[i] = u[y]
          BY <2>3, <4>1 DEF Kept
        <5>2. y <= len + 1
          BY <2>1, <5>1
        <5>3. PICK z \in 1..n : z <= len + 1 /\ u[y] = t[z]
          BY <2>3, <5>2 DEF Kept
        <5> QED BY <4>1, <5>1, <5>3
      <4>2. CASE ~(i <= len)
        <5>0. i > len /\ i # 1
          BY <2>1, <4>2
        <5>1. w[i] = u[i]
          BY <2>3, <5>0 DEF Kept
        <5>2. 1 \in 1..n
          BY <2>1
        <5> QED BY <2>3, <4>2, <5>0, <5>1, <5>2
      <4> QED BY <4>1, <4>2
    <3>3. CASE j = len + 1
      <4>1. u[j] = t[1] /\ x \in 1..(len + 1)
        BY <2>1, <2>3, <3>2, <3>3
      <4> QED BY <2>5, <3>1, <3>2, <4>1
    <3>4. CASE j # len + 1
      <4>1. u[j] = t[j] /\ x < j /\ j > len + 1
        BY <2>1, <2>3, <3>2, <3>4
      <4> QED BY <2>2, <3>1, <3>2, <4>1 DEF Behind
    <3> QED BY <3>3, <3>4
  <2>7. Kept(s, w, n, n)
    BY <1>0, <2>2, <2>3, KeptOn
  <2>8. w \in V /\ HeapFrom(w, 0, len)
    BY <2>3, <2>4
  <2> QED BY <2>6, <2>7, <2>8 DEF k, w, len
<1>8. U = Nat
  <2> HIDE DEF U
  <2>1. U \subseteq Nat
    BY DEF U
  <2> QED BY <1>6, <1>7, <2>1, SetInduction
<1>9. Done(n - 1)
  <2> HIDE DEF Done
  <2> QED BY <1>0, <1>8
<1>10. n - (n - 1) = 1
  BY <1>0
<1> QED BY <1>e, <1>9, <1>10

LEMMA VectorIs ==
  /\ \A n \in Nat : \A s \in Vectors(n) : s \in Seq(Value) /\ Len(s) = n
  /\ \A s \in Seq(Value) : Len(s) \in Nat /\ s \in Vectors(Len(s))
BY DEF Vectors

\* One value more, at the end.
LEMMA CountOneMore ==
  ASSUME NEW n \in Nat, NEW s \in Vectors(n), NEW v \in Value, NEW t \in Vectors(n + 1),
         t[n + 1] = v, \A i \in 1..n : t[i] = s[i]
  PROVE  /\ Arrays!Count(s) \in [Value -> Nat] /\ Arrays!Count(t) \in [Value -> Nat]
         /\ \A x \in Value : Arrays!Count(t)[x] = Arrays!Count(s)[x] + (IF x = v THEN 1 ELSE 0)
<1> DEFINE A(x) == {i \in 1..n : s[i] = x}
           B(x) == {i \in 1..(n + 1) : t[i] = x}
<1>1. t[n + 1] = v /\ \A i \in 1..n : t[i] = s[i]
  OBVIOUS
<1>2. DOMAIN t = 1..(n + 1) /\ DOMAIN s = 1..n
  BY DEF Vectors
<1>3. ASSUME NEW x PROVE IsFiniteSet(A(x)) /\ Cardinality(A(x)) \in Nat /\ n + 1 \notin A(x)
  <2>1. A(x) \subseteq 1..n /\ IsFiniteSet(1..n)
    BY FS_Interval
  <2>2. n + 1 \notin 1..n
    OBVIOUS
  <2> HIDE DEF A
  <2> QED BY <2>1, <2>2, FS_Subset, FS_CardinalityType
<1>4. ASSUME NEW x PROVE B(x) = IF x = v THEN A(x) \cup {n + 1} ELSE A(x)
  <2>1. \A i : i \in 1..(n + 1) <=> i \in 1..n \/ i = n + 1
    OBVIOUS
  <2> QED BY <1>1, <2>1
<1>5. ASSUME NEW x PROVE Cardinality(B(x)) = IF x = v THEN Cardinality(A(x)) + 1 ELSE Cardinality(A(x))
  <2>1. Cardinality(A(x) \cup {n + 1}) = Cardinality(A(x)) + 1
    <3> HIDE DEF A
    <3> QED BY <1>3, FS_AddElement
  <2> HIDE DEF A, B
  <2> QED BY <1>4, <2>1
<1>6. /\ Arrays!Count(s) = [x \in Value |-> Cardinality(A(x))]
      /\ Arrays!Count(t) = [x \in Value |-> Cardinality(B(x))]
  <2> QED BY <1>2, ArraysCardinality DEF Arrays!Count
<1>7. /\ Arrays!Count(s) \in [Value -> Nat] /\ Arrays!Count(t) \in [Value -> Nat]
      /\ \A x \in Value : Arrays!Count(t)[x] = Arrays!Count(s)[x] + (IF x = v THEN 1 ELSE 0)
  <2> HIDE DEF A, B
  <2> QED BY <1>3, <1>5, <1>6
<1> QED BY <1>7

HeapInv ==
  /\ a \in Seq(Value) /\ isMin \in BOOLEAN
  /\ Arrays!Count(a) = held
  /\ HeapFrom(a, 0, Len(a))

LEMMA HeapMade ==
  ASSUME NEW n \in Nat, NEW s \in Vectors(n), a' = s, isMin \in BOOLEAN, isMin' = isMin,
         Arrays!Count(s) = held', HeapFrom(s, 0, n)
  PROVE  HeapInv'
<1>1. a' \in Seq(Value) /\ Len(a') = n
  BY VectorIs
<1>2. HeapFrom(a, 0, Len(a))'
  BY <1>1 DEF HeapFrom, Over
<1> QED BY <1>1, <1>2 DEF HeapInv, Arrays!Count

LEMMA HeapInit == Arrays!HeapInit => HeapInv
<1> SUFFICES ASSUME Arrays!HeapInit PROVE HeapInv
  OBVIOUS
<1>1. a = <<>> /\ isMin \in BOOLEAN /\ held = Arrays!NoneHeld
  BY DEF Arrays!HeapInit
<1>2. <<>> \in Seq(Value) /\ Len(<<>>) = 0 /\ HeapFrom(<<>>, 0, 0)
  BY DEF HeapFrom
<1>3. Arrays!Count(<<>>) = [v \in Value |-> Cardinality({})]
  <2>1. \A v : {i \in DOMAIN <<>> : <<>>[i] = v} = {}
    OBVIOUS
  <2> QED BY <2>1, ArraysCardinality DEF Arrays!Count
<1> QED BY <1>1, <1>2, <1>3, FS_EmptySet DEF HeapInv, Arrays!NoneHeld

LEMMA HeapStep ==
  ASSUME HeapInv, Arrays!HeapNext
  PROVE  HeapInv'
<1> DEFINE n == Len(a)
<1>0. /\ isMin \in BOOLEAN /\ n \in Nat /\ a \in Vectors(n) /\ a \in Seq(Value)
      /\ Arrays!Count(a) = held /\ HeapFrom(a, 0, n)
  BY VectorIs DEF HeapInv
<1>1. ASSUME NEW v \in Value, Arrays!HeapPush(v) PROVE HeapInv'
  <2> DEFINE s == Append(a, v)
             t == Arrays!AdjustUp(s, n)
  <2>1. a' = t /\ held' = [held EXCEPT ![v] = @ + 1] /\ isMin' = isMin
    BY <1>1 DEF Arrays!HeapPush
  <2>2. /\ s \in Vectors(n + 1) /\ \A i \in 1..n : s[i] = a[i]
        /\ Arrays!Count(s) = held'
    <3>1. s \in Vectors(n + 1) /\ s[n + 1] = v /\ \A i \in 1..n : s[i] = a[i]
      <4>1. s \in Seq(Value) /\ Len(s) = n + 1 /\ s[n + 1] = v /\ \A i \in 1..n : s[i] = a[i]
        BY <1>0
      <4> HIDE DEF n, s
      <4> QED BY <4>1, VectorIs
    <3> HIDE DEF n, s
    <3>2. /\ Arrays!Count(a) \in [Value -> Nat] /\ Arrays!Count(s) \in [Value -> Nat]
          /\ \A x \in Value : Arrays!Count(s)[x] = Arrays!Count(a)[x] + (IF x = v THEN 1 ELSE 0)
      BY <1>0, <3>1, CountOneMore
    <3>3. held' \in [Value -> Int] /\ \A x \in Value : held'[x] = Arrays!Count(s)[x]
      BY <1>0, <2>1, <3>2
    <3>4. held' = Arrays!Count(s)
      BY <3>2, <3>3
    <3> QED BY <3>1, <3>4
  <2>3. Rising(<<s, n>>, n + 1)
    <3> HIDE DEF n, s
    <3>1. \A c \in 1..(n + 1 - 1) : Arrays!ParentIndex(c) \in 0..(c - 1)
      BY Parents
    <3>2. ASSUME NEW c \in 1..(n + 1 - 1), c # n PROVE Over(s[Arrays!ParentIndex(c) + 1], s[c + 1])
      <4> DEFINE q == Arrays!ParentIndex(c)
      <4>1. c \in 1..(n - 1) /\ q \in 0..(c - 1)
        BY <1>0, <3>1, <3>2
      <4> HIDE DEF q
      <4>2. s[q + 1] = a[q + 1] /\ s[c + 1] = a[c + 1] /\ q >= 0
        BY <1>0, <2>2, <4>1
      <4>3. Over(a[q + 1], a[c + 1])
        BY <1>0, <4>1, <4>2, InHeap DEF q
      <4> QED BY <4>2, <4>3 DEF q
    <3>3. \A c \in 1..(n + 1 - 1) : Arrays!ParentIndex(c) # n
      BY <1>0, <3>1
    <3> QED BY <1>0, <3>2, <3>3 DEF Rising
  <2>4. Kept(s, t, n + 1, n + 1) /\ HeapFrom(t, 0, n + 1)
    <3>1. n + 1 \in Nat /\ n \in 0..(n + 1 - 1)
      BY <1>0
    <3> HIDE DEF n, s
    <3> QED BY <1>0, <2>2, <2>3, <3>1, AdjustUpIn
  <2> HIDE DEF n, s, t
  <2>5. n + 1 \in Nat /\ t \in Vectors(n + 1) /\ Arrays!Count(t) = held'
    BY <1>0, <2>2, <2>4 DEF Kept
  <2> QED BY <1>0, <2>1, <2>4, <2>5, HeapMade
<1>2. ASSUME Arrays!HeapPop PROVE HeapInv'
  <2> DEFINE m == n - 1
             top == a[1]
             q == Arrays!Swap(a, 0, m)
             s == SubSeq(q, 1, m)
             t == Arrays!AdjustDown(s, 0, m)
  <2>1. n \in Nat /\ m \in Nat /\ n = m + 1 /\ top \in Value
    BY <1>0, <1>2 DEF Arrays!HeapPop
  <2>2. /\ Kept(a, q, n, n) /\ q \in Vectors(n)
        /\ \A k \in 1..n : q[k] = IF k = n THEN top ELSE IF k = 1 THEN a[n] ELSE a[k]
    <3>1. n \in 0..n /\ 0 \in 0..m /\ m \in 0..m /\ m + 1 = n /\ 0 + 1 = 1
      BY <2>1
    <3> HIDE DEF n, m, top
    <3>2. /\ Kept(a, q, n, n)
          /\ \A k \in 1..n : q[k] = IF k = m + 1 THEN a[0 + 1] ELSE IF k = 0 + 1 THEN a[m + 1] ELSE a[k]
      BY <1>0, <3>1, SwapKeeps
    <3>3. top = a[0 + 1]
      BY DEF top
    <3> HIDE DEF q
    <3> QED BY <3>1, <3>2, <3>3 DEF Kept
  <2>3. s \in Vectors(m) /\ Len(s) = m /\ (\A i \in 1..m : s[i] = q[i]) /\ q[m + 1] = top
    <3>1. q \in Seq(Value) /\ Len(q) = n /\ q[n] = top
      <4> HIDE DEF n, m, top, q
      <4> QED BY <1>0, <2>1, <2>2, VectorIs
    <3> HIDE DEF n, m, top, q
    <3>2. s \in Seq(Value) /\ Len(s) = m /\ \A i \in 1..m : s[i] = q[i]
      BY <1>0, <2>1, <3>1
    <3> HIDE DEF s
    <3> QED BY <2>1, <3>1, <3>2, VectorIs
  <2>4. a' = t /\ held' = [held EXCEPT ![top] = @ - 1] /\ isMin' = isMin
    BY <1>2, <2>3 DEF Arrays!HeapPop
  <2>5. Arrays!Count(s) = held'
    <3> HIDE DEF n, m, top, q, s, t
    <3> DEFINE h == Arrays!Count(s)
    <3>1. /\ h \in [Value -> Nat] /\ Arrays!Count(q) \in [Value -> Nat]
          /\ \A x \in Value : Arrays!Count(q)[x] = h[x] + (IF x = top THEN 1 ELSE 0)
      BY <2>1, <2>2, <2>3, CountOneMore
    <3>2. held = Arrays!Count(q)
      BY <1>0, <2>2 DEF Kept
    <3> HIDE DEF h
    <3>3. held' \in [Value -> Int] /\ \A x \in Value : held'[x] = h[x]
      BY <2>1, <2>4, <3>1, <3>2
    <3>4. held' = h
      BY <3>1, <3>3
    <3> QED BY <3>4 DEF h
  <2>6. HeapFrom(s, 1, m)
    <3> HIDE DEF n, m, top, q, s, t
    <3> SUFFICES ASSUME NEW c \in 1..(m - 1), Arrays!ParentIndex(c) >= 1
                 PROVE  Over(s[Arrays!ParentIndex(c) + 1], s[c + 1])
      BY DEF HeapFrom
    <3> DEFINE p == Arrays!ParentIndex(c)
    <3>1. p \in 1..(c - 1) /\ c \in 1..m
      <4>1. p \in Nat /\ p < c
        BY Parents
      <4> HIDE DEF p
      <4>2. p >= 1
        BY DEF p
      <4> QED BY <2>1, <4>1, <4>2
    <3>2. s[p + 1] = a[p + 1] /\ s[c + 1] = a[c + 1] /\ p >= 0
      <4> HIDE DEF p
      <4> QED BY <1>0, <2>1, <2>2, <2>3, <3>1
    <3>3. Over(a[p + 1], a[c + 1])
      BY <1>0, <2>1, <3>1, <3>2, InHeap
    <3> QED BY <3>2, <3>3
  <2>7. Kept(s, t, m, m) /\ HeapFrom(t, 0, m)
    <3>1. m \in 0..m /\ HeapFrom(s, 0 + 1, m)
      BY <2>1, <2>6
    <3> HIDE DEF n, m, top, q, s
    <3> QED BY <1>0, <2>1, <2>3, <3>1, AdjustDownIn
  <2> HIDE DEF n, m, top, q, s, t
  <2>8. t \in Vectors(m) /\ Arrays!Count(t) = held'
    BY <2>5, <2>7 DEF Kept
  <2> QED BY <1>0, <2>1, <2>4, <2>7, <2>8, HeapMade
<1>3. ASSUME NEW m \in 0..MaxSize, NEW s \in [1..m -> Value], Arrays!Assign(s) PROVE HeapInv'
  <2> DEFINE t == Arrays!Adjust(s)
  <2>1. m \in Nat /\ s \in Vectors(m) /\ a' = t /\ held' = Arrays!Count(s) /\ isMin' = isMin
    BY <1>3 DEF Arrays!Assign, Vectors
  <2>2. Kept(s, t, m, m) /\ HeapFrom(t, 0, m)
    BY <1>0, <2>1, AdjustIn
  <2>3. t \in Vectors(m) /\ Arrays!Count(t) = held'
    BY <2>1, <2>2 DEF Kept
  <2> HIDE DEF t
  <2> QED BY <1>0, <2>1, <2>2, <2>3, HeapMade
<1>4. ASSUME Arrays!Sort PROVE HeapInv'
  <2> DEFINE t == Arrays!Sorted(a)
  <2>1. n \in Nat \ {0} /\ a' = t /\ isMin' = ~isMin /\ held' = held
    BY <1>0, <1>4 DEF Arrays!Sort
  <2>2. Kept(a, t, n, n) /\ Behind(t, n, 1)
    <3> HIDE DEF n
    <3> QED BY <1>0, <2>1, SortSorts
  <2> HIDE DEF n, t
  <2>3. t \in Vectors(n) /\ t \in Seq(Value) /\ Len(t) = n /\ Arrays!Count(t) = held'
    BY <1>0, <2>1, <2>2, VectorIs DEF Kept
  <2>4. ASSUME NEW c \in 1..(n - 1) PROVE Over(t[c + 1], t[Arrays!ParentIndex(c) + 1])
                                        /\ t[c + 1] \in Int /\ t[Arrays!ParentIndex(c) + 1] \in Int
    <3> DEFINE q == Arrays!ParentIndex(c)
    <3>1. q + 1 \in 1..n /\ c + 1 \in 1..n /\ q + 1 < c + 1 /\ c + 1 > 1
      <4>1. q \in Nat /\ q < c
        BY Parents
      <4> HIDE DEF q
      <4> QED BY <1>0, <4>1
    <3>2. t[q + 1] \in Value /\ t[c + 1] \in Value
      <4> HIDE DEF q
      <4> QED BY <2>3, <3>1 DEF Vectors
    <3>3. Over(t[c + 1], t[q + 1])
      <4> HIDE DEF q
      <4> QED BY <2>2, <3>1 DEF Behind
    <3> QED BY <3>2, <3>3, ToolsAssumption
  <2>5. HeapFrom(a, 0, Len(a))'
    <3>1. \A c \in 1..(n - 1) : IF isMin' THEN t[Arrays!ParentIndex(c) + 1] <= t[c + 1]
                                ELSE t[Arrays!ParentIndex(c) + 1] >= t[c + 1]
      BY <1>0, <2>1, <2>4 DEF Over
    <3>2. a' = t /\ Len(a') = n
      BY <2>1, <2>3
    <3> QED BY <3>1, <3>2 DEF HeapFrom, Over
  <2>6. a' \in Seq(Value) /\ isMin' \in BOOLEAN /\ Arrays!Count(a') = held'
    BY <1>0, <2>1, <2>3
  <2> QED BY <2>5, <2>6 DEF HeapInv, Arrays!Count
<1> QED BY <1>1, <1>2, <1>3, <1>4 DEF Arrays!HeapNext

LEMMA HeapHolds == HeapInv => Arrays!HeapHolds
<1> SUFFICES ASSUME HeapInv PROVE Arrays!HeapHolds
  OBVIOUS
<1>1. \A c \in 1..(Len(a) - 1) : Arrays!ParentIndex(c) >= 0 /\ Over(a[Arrays!ParentIndex(c) + 1], a[c + 1])
  <2>1. \A c \in 1..(Len(a) - 1) : Arrays!ParentIndex(c) >= 0
    <3>1. \A c \in 1..(Len(a) - 1) : Arrays!ParentIndex(c) \in Nat
      BY Parents
    <3> QED BY <3>1
  <2> QED BY <2>1 DEF HeapInv, HeapFrom
<1>2. \A c \in 1..(Len(a) - 1) : a[Arrays!ParentIndex(c) + 1] \in Int /\ a[c + 1] \in Int
  <2> SUFFICES ASSUME NEW c \in 1..(Len(a) - 1)
               PROVE  a[Arrays!ParentIndex(c) + 1] \in Int /\ a[c + 1] \in Int
    OBVIOUS
  <2>1. Arrays!ParentIndex(c) \in Nat /\ Arrays!ParentIndex(c) < c
    BY Parents
  <2>2. a \in Seq(Value) /\ Value \subseteq Int
    BY ToolsAssumption DEF HeapInv
  <2> DEFINE q == Arrays!ParentIndex(c)
  <2>3. q + 1 \in 1..Len(a) /\ c + 1 \in 1..Len(a)
    BY <2>1, <2>2
  <2> HIDE DEF q
  <2>4. a[q + 1] \in Value /\ a[c + 1] \in Value
    BY <2>2, <2>3
  <2> QED BY <2>2, <2>4 DEF q
<1> QED BY <1>1, <1>2 DEF HeapInv, Arrays!HeapHolds, Over

-----------------------------------------------------------------------------
(***************************************************************************)
(* The parts together: a behaviour is about one of them.                   *)
(***************************************************************************)
PartsInv ==
  /\ part = "cs" => CsInv
  /\ part = "cssession" => CsSesInv
  /\ part = "logsession" => LogSesInv
  /\ part = "http" => HttpInv
  /\ part = "pool" => PoolInv
  /\ part = "signal" => SignalInv
  /\ part = "coroutine" => CoroInv
  /\ part = "guid" => GuidInv
  /\ part = "heap" => HeapInv
  /\ part = "ring" => RingInv

LEMMA PartsInit == MCInit => PartsInv
<1> SUFFICES ASSUME MCInit PROVE PartsInv
  OBVIOUS
<1>1. /\ part = "cs" => Cs!Init
      /\ part = "cssession" => CsSes!Init
      /\ part = "logsession" => LogSes!Init
      /\ part = "http" => Http!Init
      /\ part = "pool" => Pool!Init
      /\ part = "signal" => Tools!SignalInit
      /\ part = "coroutine" => Tools!CoroInit
      /\ part = "guid" => Tools!GuidInit
      /\ part = "heap" => Arrays!HeapInit
      /\ part = "ring" => Arrays!RingInit
  BY DEF MCInit
<1> QED BY <1>1, CsInit, CsSesInit, LogSesInit, HttpInit, PoolInit,
           SignalInit, CoroInit, GuidInit, HeapInit, RingInit DEF PartsInv

\* A step of one part leaves the others' implications as they are.
LEMMA PartsSteps ==
  ASSUME PartsInv, MCNext
  PROVE  PartsInv'
<1>1. CASE part = "cs" /\ Cs!Next /\ CliRest
  <2>1. CsInv' /\ part' = "cs"
    BY <1>1, CsStep DEF PartsInv, CliRest
  <2> QED BY <2>1 DEF PartsInv
<1>2. CASE part = "cssession" /\ CsSes!Next /\ CsSesRest
  <2>1. CsSesInv' /\ part' = "cssession"
    BY <1>2, CsSesStep DEF PartsInv, CsSesRest
  <2> QED BY <2>1 DEF PartsInv
<1>3. CASE part = "udpsession" /\ UdpSes!Next /\ UdpSesRest
  BY <1>3 DEF PartsInv, UdpSesRest
<1>4. CASE part = "logsession" /\ LogSes!Next /\ CsSesRest
  <2>1. LogSesInv' /\ part' = "logsession"
    BY <1>4, LogSesStep DEF PartsInv, CsSesRest
  <2> QED BY <2>1 DEF PartsInv
<1>5. CASE part = "http" /\ Http!Next /\ HttpRest
  <2>1. HttpInv' /\ part' = "http"
    BY <1>5, HttpStep DEF PartsInv, HttpRest
  <2> QED BY <2>1 DEF PartsInv
<1>6. CASE part = "pool" /\ Pool!Next /\ PoolRest
  <2>1. PoolInv' /\ part' = "pool"
    BY <1>6, PoolStep DEF PartsInv, PoolRest
  <2> QED BY <2>1 DEF PartsInv
<1>7. CASE part = "signal" /\ Tools!SignalNext /\ UNCHANGED <<part, clients, coroutine, guids, heap, ring>>
  <2>1. SignalInv' /\ part' = "signal"
    BY <1>7, SignalStep DEF PartsInv
  <2> QED BY <2>1 DEF PartsInv
<1>8. CASE part = "coroutine" /\ Tools!CoroNext /\ UNCHANGED <<part, clients, signal, guids, heap, ring>>
  <2>1. CoroInv' /\ part' = "coroutine"
    BY <1>8, CoroStep DEF PartsInv
  <2> QED BY <2>1 DEF PartsInv
<1>9. CASE part = "guid" /\ Tools!GuidNext /\ UNCHANGED <<part, clients, signal, coroutine, heap, ring>>
  <2>1. GuidInv' /\ part' = "guid"
    BY <1>9, GuidStep DEF PartsInv
  <2> QED BY <2>1 DEF PartsInv
<1>10. CASE part = "heap" /\ Arrays!HeapNext /\ UNCHANGED <<part, clients, signal, coroutine, guids, ring>>
  <2>1. HeapInv' /\ part' = "heap"
    BY <1>10, HeapStep DEF PartsInv
  <2> QED BY <2>1 DEF PartsInv
<1>11. CASE part = "ring" /\ Arrays!RingNext /\ UNCHANGED <<part, clients, signal, coroutine, guids, heap>>
  <2>1. RingInv' /\ part' = "ring"
    BY <1>11, RingStep DEF PartsInv
  <2> QED BY <2>1 DEF PartsInv
<1> QED BY <1>1, <1>2, <1>3, <1>4, <1>5, <1>6, <1>7, <1>8, <1>9, <1>10, <1>11 DEF MCNext

\* Nor does a step that changes nothing disturb them.
LEMMA PartsStay ==
  ASSUME PartsInv, UNCHANGED mcvars
  PROVE  PartsInv'
<1>1. /\ UNCHANGED <<part, run, due, open, co, made, tasks, stopped, cur, srun>>
      /\ UNCHANGED <<posted, list, writing, out, pool, ses, on, result, map, crun, addr, got>>
      /\ UNCHANGED signal /\ UNCHANGED coroutine /\ UNCHANGED guids /\ UNCHANGED heap /\ UNCHANGED ring
  BY DEF mcvars, clients, tools
<1>2. CsInv => CsInv'
  BY <1>1 DEF CsInv, CsTypes
<1>3. CsSesInv => CsSesInv'
  BY <1>1 DEF CsSesInv, CsSesTypes, CsSes!Awaits
<1>4. LogSesInv => LogSesInv'
  BY <1>1 DEF LogSesInv
<1>5. HttpInv => HttpInv'
  BY <1>1 DEF HttpInv, HttpTypes, HttpMade, Began, HttpCalls, HttpSessions, Uses, Owed
<1>6. PoolInv => PoolInv'
  BY <1>1 DEF PoolInv, PoolTypes, Pool!Used
<1>7. SignalInv => SignalInv'
  BY <1>1 DEF signal, SignalInv, Tools!Asleep
<1>8. CoroInv => CoroInv'
  BY <1>1 DEF coroutine, CoroInv
<1>9. GuidInv => GuidInv'
  BY <1>1 DEF guids, GuidInv, GivenAt, Tools!Crowded
<1>10. HeapInv => HeapInv'
  BY <1>1 DEF heap, HeapInv, HeapFrom, Over, Arrays!Count
<1>11. RingInv => RingInv'
  BY <1>1 DEF ring, RingInv, Arrays!Size
<1> QED BY <1>1, <1>2, <1>3, <1>4, <1>5, <1>6, <1>7, <1>8, <1>9, <1>10, <1>11 DEF PartsInv

\* What the clients promise: a TCP client runs one session at a time and none
\* after its Stop, the sessions of the TCP and of the log client neither lose,
\* double nor reorder what they were given, a call of the HTTP client has its
\* session to itself and gets the response to its own request, and the pool
\* of clients is bounded and holds every client that runs.
THEOREM ClientsKeepTheirWord == MCSpec => []ClientsHold
<1>1. MCInit => PartsInv
  BY PartsInit
<1>2. PartsInv /\ [MCNext]_mcvars => PartsInv'
  BY PartsSteps, PartsStay
<1>3. PartsInv => ClientsHold
  BY CsHolds, CsSesHolds, LogSesHolds, HttpHolds, PoolHolds DEF PartsInv, ClientsHold
<1> QED BY <1>1, <1>2, <1>3, PTL DEF MCSpec

\* What the helpers of threads promise: whoever a notify of a signal finds
\* asleep returns, a careful user of a coroutine gets every value once and in
\* order, and guids increase as long as no second is crowded.
THEOREM ToolsKeepTheirWord == MCSpec => []ThreadToolsHold
<1>1. MCInit => PartsInv
  BY PartsInit
<1>2. PartsInv /\ [MCNext]_mcvars => PartsInv'
  BY PartsSteps, PartsStay
<1>3. PartsInv => ThreadToolsHold
  BY SignalHolds, CoroHolds, GuidHolds DEF PartsInv, ThreadToolsHold
<1> QED BY <1>1, <1>2, <1>3, PTL DEF MCSpec

\* What the containers promise: the heap is one, of the kind it says, and holds
\* what was put in and not taken out, for vectors of every size; the ring
\* buffer is a queue across every wrap of its positions, until it strays.
THEOREM ContainersKeepTheirWord == MCSpec => []ContainersHold
<1>1. MCInit => PartsInv
  BY PartsInit
<1>2. PartsInv /\ [MCNext]_mcvars => PartsInv'
  BY PartsSteps, PartsStay
<1>3. PartsInv => ContainersHold
  BY HeapHolds, RingHolds DEF PartsInv, ContainersHold
<1> QED BY <1>1, <1>2, <1>3, PTL DEF MCSpec
=============================================================================
