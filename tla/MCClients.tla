------------------------------- MODULE MCClients -------------------------------
(***************************************************************************)
(* The TCP, UDP and HTTP clients, their sessions and their pools, and the  *)
(* session of the log client; and the tools of a single thread or two: the *)
(* signals, the coroutine scheduler, the guids, the heap and the ring      *)
(* buffer.  part is the component a behaviour is about; the variables of   *)
(* the others are 0.                                                       *)
(***************************************************************************)
EXTENDS Integers, Sequences, FiniteSets

CONSTANTS Msg, MaxMsg, Endpoint, MaxClient, MaxMade,
  MaxMake,     \* sessions that the TCP or UDP client makes
  MaxSession,  \* max_session_num of the HTTP client
  Thread, MaxYield, InstNum, Time, MaxGuid,   \* of the thread tools
  Value, MaxSize, Item, BufSize               \* of the heap and the ring buffer

VARIABLES
  part,
  run, due, open, co, made,                \* of several components
  tasks, stopped, cur, srun, pc, to, box,  \* the TCP and the UDP client
  posted, list, writing, out,              \* the TCP and the log session
  hasData,                                 \* the UDP session
  pool, ses, on, result,                   \* the HTTP client
  map, crun, addr, got,                    \* the client pool
  atomic, flag, where, owed,                              \* the signals
  state, body, value, user, seen, careful, broken,     \* the coroutine scheduler
  guid, issued,                                        \* the guids
  a, isMin, held,                                      \* the heap
  content, wpos, rpos, elem, fifo, strayed             \* the ring buffer

\* "stop" stands for the stop handler among the messages on mgr_strand_.
ASSUME ClientsAssumption ==
  /\ IsFiniteSet(Msg) /\ "stop" \notin Msg
  /\ {MaxClient, MaxMade, MaxMake, MaxSession} \subseteq Nat

\* Instance numbers, the clock and the size of the array are positive.
ASSUME ToolsAssumption ==
  /\ InstNum \in Nat \ {0} /\ Time \subseteq Nat \ {0}
  /\ Value \subseteq Int /\ BufSize \in Nat \ {0}

EndpointHash == [e \in Endpoint |-> e]

Cs == INSTANCE CsClient WITH MaxSession <- MaxMake, stopDue <- due
CsSes == INSTANCE CsCliSession
UdpSes == INSTANCE UdpCliSession
LogSes == INSTANCE NetLogCliSession
Http == INSTANCE HttpClient WITH Call <- Msg
Pool == INSTANCE ClientPool WITH HashOf <- EndpointHash
Tools == INSTANCE ThreadTools WITH pc <- where, ret <- value
Arrays == INSTANCE ArrayContainers

clients == <<run, due, open, co, made, tasks, stopped, cur, srun, pc, to, box, posted, list, writing, out,
             hasData, pool, ses, on, result, map, crun, addr, got>>
signal == <<atomic, flag, where, owed>>
coroutine == <<state, body, value, user, seen, careful, broken>>
guids == <<guid, issued>>
heap == <<a, isMin, held>>
ring == <<content, wpos, rpos, elem, fifo, strayed>>
tools == <<signal, coroutine, guids, heap, ring>>
mcvars == <<part, clients, tools>>

Tool == {"signal", "coroutine", "guid", "heap", "ring"}

MCInit ==
  /\ part \in {"cs", "cssession", "udpsession", "logsession", "http", "pool"} \cup Tool
  /\ IF part = "cs" THEN Cs!Init
     ELSE IF part = "cssession" THEN CsSes!Init
     ELSE IF part = "udpsession" THEN UdpSes!Init
     ELSE IF part = "logsession" THEN LogSes!Init
     ELSE IF part = "http" THEN Http!Init
     ELSE IF part = "pool" THEN Pool!Init
     ELSE run = 0 /\ due = 0
  /\ part \notin {"cssession", "udpsession", "logsession"} => open = 0 /\ out = 0
  /\ part \notin {"cssession", "udpsession", "logsession", "http"} => co = 0
  /\ part \notin {"cs", "http", "pool"} => made = 0
  /\ part # "cs" => tasks = 0 /\ stopped = 0 /\ cur = 0 /\ srun = 0 /\ pc = 0 /\ to = 0 /\ box = 0
  /\ part \notin {"cssession", "logsession"} => posted = 0 /\ list = 0 /\ writing = 0
  /\ part # "udpsession" => hasData = 0
  /\ part # "http" => pool = 0 /\ ses = 0 /\ on = 0 /\ result = 0
  /\ part # "pool" => map = 0 /\ crun = 0 /\ addr = 0 /\ got = 0
  /\ IF part = "signal" THEN Tools!SignalInit ELSE atomic = 0 /\ flag = 0 /\ where = 0 /\ owed = 0
  /\ IF part = "coroutine" THEN Tools!CoroInit
     ELSE state = 0 /\ body = 0 /\ value = 0 /\ user = 0 /\ seen = 0 /\ careful = 0 /\ broken = 0
  /\ IF part = "guid" THEN Tools!GuidInit ELSE guid = 0 /\ issued = 0
  /\ IF part = "heap" THEN Arrays!HeapInit ELSE a = 0 /\ isMin = 0 /\ held = 0
  /\ IF part = "ring" THEN Arrays!RingInit
     ELSE content = 0 /\ wpos = 0 /\ rpos = 0 /\ elem = 0 /\ fifo = 0 /\ strayed = 0

CliRest == UNCHANGED <<part, tools, open, co, posted, list, writing, out, hasData, pool, ses, on, result, map, crun, addr, got>>
CsSesRest == UNCHANGED <<part, tools, made, tasks, stopped, cur, srun, pc, to, box, hasData, pool, ses, on, result, map, crun, addr, got>>
UdpSesRest == UNCHANGED <<part, tools, made, tasks, stopped, cur, srun, pc, to, box, posted, list, writing, pool, ses, on, result, map, crun, addr, got>>
HttpRest == UNCHANGED <<part, tools, open, tasks, stopped, cur, srun, pc, to, box, posted, list, writing, out, hasData, map, crun, addr, got>>
PoolRest == UNCHANGED <<part, tools, open, co, tasks, stopped, cur, srun, pc, to, box, posted, list, writing, out, hasData, pool, ses, on, result>>

MCNext ==
  \/ part = "cs" /\ Cs!Next /\ CliRest
  \/ part = "cssession" /\ CsSes!Next /\ CsSesRest
  \/ part = "udpsession" /\ UdpSes!Next /\ UdpSesRest
  \/ part = "logsession" /\ LogSes!Next /\ CsSesRest
  \/ part = "http" /\ Http!Next /\ HttpRest
  \/ part = "pool" /\ Pool!Next /\ PoolRest
  \/ part = "signal" /\ Tools!SignalNext /\ UNCHANGED <<part, clients, coroutine, guids, heap, ring>>
  \/ part = "coroutine" /\ Tools!CoroNext /\ UNCHANGED <<part, clients, signal, guids, heap, ring>>
  \/ part = "guid" /\ Tools!GuidNext /\ UNCHANGED <<part, clients, signal, coroutine, heap, ring>>
  \/ part = "heap" /\ Arrays!HeapNext /\ UNCHANGED <<part, clients, signal, coroutine, guids, ring>>
  \/ part = "ring" /\ Arrays!RingNext /\ UNCHANGED <<part, clients, signal, coroutine, guids, heap>>

\* The components' fairness.  A behaviour is about one of them, so that one
\* weakly fair action may stand for an action of each.
M1 == CHOOSE m \in Msg : TRUE
M2 == CHOOSE m \in Msg : m # M1

StopsFair ==
  \/ part = "cs" /\ Cs!StopStep /\ CliRest
  \/ part = "cssession" /\ CsSes!StopHandler /\ CsSesRest
  \/ part = "udpsession" /\ UdpSes!StopHandler /\ UdpSesRest
  \/ part = "http" /\ Http!StopHandler /\ HttpRest
  \/ part = "logsession" /\ LogSes!StopHandler /\ CsSesRest

CallFair(m) ==
  \/ part = "cs" /\ Cs!CallStep(m) /\ CliRest
  \/ part = "udpsession" /\ (UdpSes!Sends(m) \/ UdpSes!SendDone(m)) /\ UdpSesRest
  \/ part = "http" /\ (Http!CallStep(m) \/ Http!IoDone(m)) /\ HttpRest

FirstFair ==
  \/ part = "cssession" /\ CsSes!Sends /\ CsSesRest
  \/ part = "udpsession" /\ UdpSes!Ticks /\ UdpSesRest
  \/ part = "http" /\ Http!SessionStep(1) /\ HttpRest
  \/ part = "logsession" /\ LogSes!Ticks /\ CsSesRest

SecondFair ==
  \/ part = "cssession" /\ CsSes!Receives /\ CsSesRest
  \/ part = "udpsession" /\ UdpSes!TimerFires /\ UdpSesRest
  \/ part = "http" /\ Http!SessionStep(2) /\ HttpRest
  \/ part = "logsession" /\ LogSes!TimerFires /\ CsSesRest

ConnectFair ==
  \/ part = "cssession" /\ CsSes!Connects /\ CsSesRest
  \/ part = "logsession" /\ LogSes!IoDone /\ CsSesRest

QueueFair ==
  \/ part = "cssession" /\ CsSes!Queue /\ CsSesRest
  \/ part = "logsession" /\ LogSes!Queue /\ CsSesRest

ClosedFair == part = "cssession" /\ CsSes!ClosedDone /\ CsSesRest
BeatFair == part = "cssession" /\ CsSes!HeartBeatDue /\ CsSesRest

MCSpec ==
  /\ MCInit /\ [][MCNext]_mcvars
  /\ WF_mcvars(StopsFair) /\ WF_mcvars(CallFair(M1)) /\ WF_mcvars(CallFair(M2))
  /\ WF_mcvars(FirstFair) /\ WF_mcvars(SecondFair) /\ WF_mcvars(ConnectFair)
  /\ WF_mcvars(QueueFair) /\ WF_mcvars(ClosedFair) /\ WF_mcvars(BeatFair)

-----------------------------------------------------------------------------
(***************************************************************************)
(* What the clients keep: a TCP or UDP client runs one session at a time   *)
(* and none after its Stop, a TCP or a log session neither loses, doubles  *)
(* nor reorders what it was given, and the former does not sleep on it, a  *)
(* call of the HTTP client has its connection to itself and gets its own   *)
(* response, and a pool is bounded and stops every client it has made.     *)
(***************************************************************************)
ClientsHold ==
  /\ part = "cs" => Cs!OneSession
  /\ part = "cssession" => CsSes!NothingLost
  /\ part = "logsession" => LogSes!LogsInOrder
  /\ part = "http" => Http!CallsAreSeparate
  /\ part = "pool" => Pool!ClientsArePooled

(***************************************************************************)
(* Whoever a notify finds asleep returns, even if a reset follows (of a    *)
(* LightSignalAtomic: unless one follows); a user that takes each value of *)
(* a coroutine before it resumes it gets every value once and in order,    *)
(* unless it resumes one that is not suspended yet; and guids increase,    *)
(* also when the clock is set back, while no second needs more than there  *)
(* are.                                                                    *)
(***************************************************************************)
ThreadToolsHold ==
  /\ part = "signal" => Tools!NotifiedReturn
  /\ part = "coroutine" => Tools!ValuesInOrder
  /\ part = "guid" => Tools!GuidsIncrease

(***************************************************************************)
(* The heap always yields an extreme value and never loses one, and the    *)
(* ring buffer is a FIFO queue across every wrap of its positions, up to   *)
(* the first PushArray that ends at the last element or copies a wrong     *)
(* length.                                                                 *)
(***************************************************************************)
ContainersHold ==
  /\ part = "heap" => Arrays!HeapHolds
  /\ part = "ring" => Arrays!RingIsFifo

\* What has to end, and that it has: call m; session s, or the session that
\* the part is about.
CallDue(m) ==
  \/ part = "cs" /\ pc[m] = "load"
  \/ part = "http" /\ co[m] # Http!New
  \/ part = "logsession" /\ LogSes!Calls = MaxMsg

CallOver(m) ==
  \/ part = "cs" /\ (~run \/ \E s \in Cs!Session : Len(SelectSeq(box[s], LAMBDA x : x = m)) = 1)
  \/ part = "http" /\ result[m] # "none"
  \/ part = "logsession" /\ (~run \/ Len(out) = MaxMsg)

EndDue(s) ==
  \/ part \in {"cssession", "logsession"} /\ ~run
  \/ part = "udpsession" /\ co["timer"] # UdpSes!New
  \/ part = "http" /\ made >= s

EndOver(s) ==
  \/ part \in {"cssession", "logsession"} /\ \A c \in DOMAIN co : co[c] \in {CsSes!New, CsSes!Ended}
  \/ part = "udpsession" /\ ~run /\ ~open /\ \A c \in DOMAIN co : co[c] \in {UdpSes!New, UdpSes!Ended}
  \/ part = "http" /\ ses[s].timer = Http!Ended /\ ~ses[s].run /\ ses[s].due = {}

(***************************************************************************)
(* What ends: all coroutines of a stopped TCP or log session, those of an  *)
(* idle UDP session after its last message, every call and every session   *)
(* of the HTTP client; logs are written, though nothing wakes the writer,  *)
(* and a message that a TCP client has accepted is given to a session,     *)
(* once, unless they stop.                                                 *)
(***************************************************************************)
ClientsEnd ==
  /\ \A m \in Msg : CallDue(m) ~> CallOver(m)
  /\ \A s \in {1, 2} : EndDue(s) ~> EndOver(s)
=============================================================================
