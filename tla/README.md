# A TLA+ development for ytlib

ytlib is a header-only C++20 library: thread helpers, a timing-wheel timer,
coroutine servers and clients over boost.asio with an RPC stack on top, caches,
executors, containers and small algorithms. This directory models the parts in
which threads, coroutines and timers interact, and the data structures and
algorithms under them; TLC checks the models on small instances, and TLAPS
proves for every instance most of the safety properties that TLC checks, two
refinements among them.

Contents: [the system](#the-system), [modules](#modules), [runs](#runs),
[fairness](#fairness), [proofs](#proofs),
[disagreements](#where-the-code-and-its-documents-disagree),
[left out](#not-modelled), [plan](#plan).

## The system

Components, the state each keeps, what acts on it, and what makes it correct.

| Component | State | Operations | Hard behaviour | Correct when |
|---|---|---|---|---|
| `thread/block_queue.hpp` BlockQueue | queue, `running_flag_`, mutex, condition variable | Enqueue, Dequeue, BlockDequeue, Clear, Stop from any thread | lost, stolen and spurious wake-ups | no element waits with every thread asleep; Stop wakes everybody |
| `thread/channel.hpp` Channel | worker threads over a BlockQueue | StartProcess, StopProcess, Enqueue | stop racing the workers; restart | accepted items are processed before the join returns; no thread is orphaned |
| `timer/timer.hpp` Timer | timing wheels, overflow map, tick counter, ratio, state | ExecuteAt/After from any thread, SetTimeRatio, Shutdown, the loop thread | cascading, calls while tasks run, pause and fast-forward | a task runs at its tick, once; Shutdown joins |
| `ytrpc/asio_rpc/asio_rpc_server.hpp` Session | two strands, send/receive/timer coroutines, send buffer | requests from the peer, handlers on any thread, Stop | completions in flight while Stop runs; wake-up of the sender | each request answered once; a stopped session ends |
| same file, AsioRpcServer | acceptor and management coroutine, session pool, function map | RegisterService, Start, Stop | accept racing Stop; pool limit | pool bounded; no session survives Stop |
| `ytrpc/asio_rpc/asio_rpc_client.hpp` | client flag and session; per session two strands, coroutines, buffer, map of waiting calls | Invoke (concurrent), Stop | reply, deadline, disconnection and Stop race; reconnection | each call returns one deserved status; one connection |
| `boost_tools_asio/asio_cs_*.hpp` TCP | map of sessions by endpoint; per session a message list and its coroutines; the client's current session; the client pool | SendMsg (any thread), Start, Stop, GetClient | swap of the list under new messages; entries of dead sessions; eviction | nothing lost, doubled or reordered; what runs is in the map; one session at a time |
| `asio_udp_*.hpp` UDP | session per remote endpoint, its idle timer; a coroutine per message sent | SendMsg, datagrams, Start, Stop | a full pool stops the receiver; datagram racing Stop | sessions bounded and ended; the server recovers |
| `asio_http_*.hpp` HTTP | request loop, close flag; client's pool of idle connections; dispatcher | requests, handlers on other threads, HttpSendRecvCo, Stop | handler finishing after Stop; reuse of a connection | one reply per request, in order; no connection shared |
| `asio_net_log_*.hpp` network log | log file and its size; list of logs | reads, renaming per period; LogToSvr, periodic writes | renaming or Stop between reads | no read lost or overwritten; logs are written in order |
| `asio_tools.hpp` AsioExecutor, `boost_tools_fiber/fiber_tools.hpp` FiberExecutor | threads over an io_context or a bounded channel, start and stop functions, stop signal | RegisterSvrFunc, Start, Post, Join, Stop, EnableStopSignal | Stop from a handler or a signal; throwing handlers; Post to a full channel | Join returns exactly when all is done |
| `cache/local_cache.hpp`, `execution/remote_cache.hpp` | map, LRU list, TTL list; async mutex | Get, Update, Del, Clean | list/map agreement, capacity edges; two fetches of a key | bounded, fresh, least recently used leaves first |
| `thread/signal.hpp`, `coroutine_tools.hpp`, `guid.hpp` | flag and sleepers; state of a coroutine; id of the last guid | notify/wait/reset; co_yield/Get/Resume; GetGuid | notify followed by reset; resume before suspension; clock set back | a notified waiter wakes; every value once; ids increase |
| `container/` | tree links, heap array, ring of cells | insert/erase, push/pop, block copies; graph walks | re-linking, sizes 0 and 1, wrap-around | keep their contents, in order |
| `logic/`, `math/`, `string/` | pure algorithms | | degenerate inputs, word width | agree with reference definitions |

How they interact: Channel owns a BlockQueue, inherits its mutex and condition
variable and so its wake-ups. A server's acceptor creates sessions, its
management coroutine sweeps dead ones and its stop handler stops the rest; an RPC
session runs service functions as coroutines on the whole io_context, which come
back to its socket strand to append a reply, and an HTTP session runs handlers
the same way, one at a time. The RPC client's Invoke goes through
the manager strand (which session?), the session's handle strand (who waits?)
and its socket strand (write it). A RemoteCache fills its LocalCache under an async
mutex that it releases while it fetches. All asio components share one shape:
a flag `run_flag_`, a Stop that clears it and dispatches a handler to each
strand, and coroutines that test the flag only at some of their resumptions. The
executor calls the Starts and Stops of the services registered with it.

## Modules

| Module | Models | Correspondence |
|---|---|---|
| `BlockQueue` | `block_queue.hpp` | one action per critical section; `pc` is where a thread stands in BlockDequeue, `"sleep"` inside `cond_.wait`. Wake-ups are notifications or spurious |
| `Channel` | `channel.hpp` over `BlockQueue` (EXTENDS) | workers are further threads of the same queue; `owner` is the thread that calls StartProcess/StopProcess; `data` is the item a worker holds while it processes it outside the lock |
| `Timer` | `timer.hpp` | `place[t]` tells where a task is (a wheel's slot, the map, the list being run, done); `pc` is the phase of the loop thread; `todo` the ticks left in a round; `pos` the wheels' positions |
| `PromptTimer` | what the timer promises | a task is pending until the clock stands at its tick, then it runs |
| `RpcServerSession` | `AsioRpcServer::Session` | strands are FIFO sequences of handlers, one action per resumption of a coroutine; an operation's completion (`op`) and its delivery to the strand are two steps |
| `RpcServer` | `AsioRpcServer` | acceptor, management coroutine and stop handler on `mgr_strand_`; a session is reduced to new / held by the acceptor / running / dead |
| `RpcClient` | `AsioRpcClient` and its `Session` | a call is followed from Invoke to its status through the three strands; sessions are numbered in the order they are made |
| `RpcCalls` | what the client promises to a caller | a call is cancelled exactly if its context is done when it begins; else it ends with the status the server gave (OK, and the response may not parse), with TIMEOUT after its deadline, or with not-running after Stop; a call that fails in a session has its context done. The status of a reply is any number the peer sends: a server that answers TIMEOUT or CANCELLED is believed |
| `Asio` | what the modules below use of Boost.Asio | a coroutine is where it is suspended and how the awaited operation completed |
| `CsServer`, `CsSession`, `CsClient`, `CsCliSession` | TCP | messages are numbered in the order of SendMsg; `posted`, `list`, `writing`, `out` are the places a message passes |
| `UdpServer`, `UdpCliSession` | UDP | a server session is its timer; the client's code is that of the TCP client line by line, so `CsClient` stands for both |
| `HttpServer`, `HttpSession`, `HttpClient` | HTTP | the server is an instance of `RpcServer` and holds the dispatcher; requests are records of what decides their reply; the client's calls take sessions of a pool |
| `ClientPool` | `AsioCsClientPool` (and its two copies) | map by hash of the endpoint, eviction of stopped clients, refusal at the limit |
| `NetLogSvrSession`, `NetLogCliSession` | log sessions | a file is the sequence of reads in it |
| `Executor` | `AsioExecutor` | lists of start and stop functions, the work guard, threads, sub-services that have work until after their stop function |
| `FiberExecutor` | `FiberExecutor` | the channel, who waits in a Post, threads running tasks that may post, stop or throw |
| `LocalCache` | `local_cache.hpp` | one action per call, since the class leaves locking to its user; `data_map`, `lru_list`, `ttl_list` are its members, `now` is steady_clock |
| `AgingCache` | what the cache promises | entries with ages and an order of use: expired entries are never returned, eviction takes the least recently used |
| `RemoteCache` | `remote_cache.hpp` over `LocalCache` (EXTENDS) | `pc` is where a Get coroutine stands; each use of the cache under the async mutex is one step; values are versions of the remote data |
| `ThreadTools` | `signal.hpp`, `coroutine_tools.hpp` (CoroSched), `guid.hpp` | sleepers of a signal; flag, suspension and user of a coroutine; the two fields of a guid that change, with a clock that shows anything. Three state machines, each used alone |
| `BinaryTree`, `ArrayContainers` | `container/` | the nodes' links (`pf`, `pl`, `pr`, `hgt`), the heap's array, cells and positions; one action per operation. The loops of the heap are recursive functions that count their turns |
| `GraphAlgs`, `SequenceAlgs`, `MathUtil`, `BigNum` | pure algorithms | an operator per function, beside its reference definition |
| `MC*` | instances for TLC | constants, wheel sizes, symmetry; `Channel`, `RpcServerSession` and `RpcServer` are checked directly, their configurations need no more |
| `Channel_proofs`, `RpcServerSession_proofs`, `RpcClient_proofs`, `Timer_proofs`, `Cache_proofs`, `MCServers_proofs`, `MCClients_proofs` | TLAPS proofs | [below](#proofs); each EXTENDS what it is about |
| `SequenceLemmas` | lemmas on queues, used by those proofs | [below](#proofs) |

`MCServers`, `MCClients` and `MCData` each hold several independent components. Their
variable `part`, chosen in the initial state, is the component a behaviour is about: only
its actions are enabled, and the variables of the others keep a fixed value. Parts
that are never alive together share variables through `INSTANCE ... WITH`. So the
state space is the sum of the components', not their product, and every behaviour of a
part is one of its component's specification.

In `RpcServerSession`, `RpcServer` and `RpcClient` a completion (kernel, timer,
cancellation) and the queueing of its coroutine on the strand are separate steps,
because the completion is picked up by whichever thread runs the io_context:
handlers already queued on the strand, Stop's among them, run in between. This is
where the interesting interleavings are. Cancelling an operation that has already
completed does nothing, as in asio. The modules over `Asio` do not keep the strands'
queues: a coroutine whose operation has completed resumes at any later moment, also
before a handler that was queued earlier. They allow a few more interleavings than the
program has, so what holds in them holds for it.

Data is abstracted to what the properties tell apart: a queue element, a task, a
request and a call are model values; the byte stream is a sequence of whole
messages (a read returns one or more of them, the framing code keeps the rest);
a message that does not parse is one value `Garbage`. Request ids are the calls
themselves. Ticks are counted from the timer's start.

Mutants: an operator named for a plausible slip (`NotifyNobody`, `OverFull`,
`CancelSignalOnly`, ...) precedes the definition it would replace. No
specification uses them; each property of the runs was seen to fail with one of them
in place.

## Runs

| Run | Instance | Shows |
|---|---|---|
| `MCChannel` | capacity 2, 3 items, 2 workers, 1 thread in BlockDequeue | types; `NoLostWakeup`, `NoSleepAfterStop`, `DrainedWhenJoined`, `NoOrphanThread`; under fairness `ItemsAreTaken`, `StopReturns` |
| `MCTimer` | wheel of 4 slots, 2 tasks, delays below 4, ratios 0, 1, 2 | the timer implements `PromptTimer`; `EveryTaskRuns`, `ShutdownJoins` |
| `MCTimerCascade` | wheels of 2 and 4 slots and the map, delays beyond them, calls at any moment | `SlotMatchesDue`, `NearTasksArePrompt` |
| `MCRpcServerSession` | 2 requests (one whose handler throws), heartbeats | `NothingToSendAsleep`, `AnsweredOnce`, `RequestsAnswered`, `SilentPeerIsDropped`, `RecvAndTimerEnd` |
| `MCRpcClient` | 2 calls sharing a context, one with a deadline, 2 connections, one reply CANCELLED, one OK | `ReplyFindsWaiter`, `OneRunningSession`, `NoSessionAfterStop`, implements `RpcCalls` |
| `MCRpcClientLive` | 1 call with a deadline, its context done at any moment, 2 connections, heartbeats | `NothingToSendAsleep`, `TimedCallsReturn`, `SessionsEnd` |
| `MCServers` | the RPC server and, as parts, the HTTP, TCP and UDP servers, the TCP, HTTP and log sessions, the dispatcher and both executors | `TypeOK`, `PoolBounded`, `RunningArePooled` of the RPC server; `ServersHold`, `ServersEnd`, `ServersServe` of all |
| `MCClients` | parts: TCP and UDP client, their sessions and the log client's, HTTP client, client pool; signals, a coroutine and its user, guids, heap, ring buffer | `ClientsHold`, `ClientsEnd`; `ThreadToolsHold`; `ContainersHold` |
| `MCData` | parts: the cache used by a program or by 3 concurrent remote Gets; a search tree; an input of an algorithm | `ListsAgree`, implements `AgingCache`, `AnswersAreRecent`; `TreesKeepTheirNodes`, `AlgorithmsAgree`, `ArithmeticAgrees` |
| `MCTimerSkip`, `MCRpcServerSessionLeak`, `MCRpcServerStop` | smallest that show it | violations, [below](#where-the-code-and-its-documents-disagree) |

The properties of the composed runs are conjunctions with one line per part:

- `ServersHold`: the TCP map and the UDP pool are bounded and filed by endpoint, and
  every running TCP session is in the map or came from an endpoint that had an
  entry; a TCP session neither loses, doubles nor reorders an accepted message and
  does not sleep on one; HTTP replies are one per request and in order; log files
  hold every read once and in order; Join of an executor returns only when its
  work is done (or exceptions have ended every thread).
- `ServersEnd` (`StopDue ~> StopOver`): what a Stop must end, part by part. The TCP
  session's sender is not in it: like the RPC session's, it can miss its wake-up.
- `ServersServe`: a full pool recovers, read requests are answered, the fiber executor
  takes tasks while one thread does not wait in a Post, silent peers are dropped,
  a path keeps its first handler.
- `ClientsHold`: one session of a TCP or UDP client runs at a time and none after its
  Stop; messages and logs keep their order; an HTTP call has its connection to itself
  and gets its own response; a pool is bounded and stops every client it made.
- `ClientsEnd`: accepted messages are handed to a session once, logs are
  written, HTTP calls return, stopped sessions and idle UDP sessions end.
- `ThreadToolsHold`: a waiter that a notify found asleep does not sleep again (a
  LightSignalAtomic may be reset meanwhile), a careful user of a coroutine gets its
  values once and in order, guids increase also when the clock is set back.
- `TreesKeepTheirNodes`, `ContainersHold`: the structures keep their contents under every
  order of operations up to the size bound; the heap is one, the ring buffer is a queue.
- `AlgorithmsAgree`, `ArithmeticAgrees`: graph and sequence algorithms, numbers and big
  numbers agree with reference definitions; see the comments in `MCData`. The division of
  big numbers has three claims (`DivAgrees`): in every base a division that ends leaves
  quotient * divisor + remainder = dividend, as the comment of Div says; while no joined
  digit and no bound of the bisection wraps, it ends with the quotient; and in a base whose
  square fits into a word nothing wraps. The default base is not one of these.

Bounds, and why they are enough.
`MaxCount` 2 with 3 items makes the queue full and lets an Enqueue fail; two
workers and a separate consumer are the least in which a notification can reach
a thread that finds nothing, or a busy one. `ThSize` is the number of threads one
StartProcess makes; two StartProcess calls share the two workers.
Timer: `MaxTick` stops the clock (two revolutions of the first wheel and, in the
cascade run, more than one of the whole wheel set, so that borrowing from the
second wheel and from the map both happen), `MaxDelay` how far ahead a task is
submitted. `CallInTick` says whether calls of ExecuteAt may fall into the moment
in which the tasks of a tick run (tick_mutex_ is free then). The refinement to
`PromptTimer` holds only without them, with one wheel and with delays below it; the
cascade run has two wheels, longer delays and such calls, and claims what is left.
RPC session: two requests are the least for which replies overtake each other and a
reply arrives during a write; `Extra` lists the other messages the peer may send
(in the passing run heartbeats, so that a session can run for ever), and no
second one is put behind one still on the wire.
Servers: a pool of two and more sessions than it takes, so that it is full, is
swept and fills again; `TcpSession` has three session objects for two endpoints, so
that a client comes back from the endpoint it had.
`MaxMsg` 2 lets a message arrive during the write of another (the log session has 5
reads, which fill several files), `MaxReq` 2 makes a connection go on after
a reply. `Service` and `Thread` have two members, the least with an order of stops and
another thread beside the stopping one; `MaxTask` 5 fills a fiber channel of one with
both threads waiting in a Post.
Clients: two calls are the least that create concurrently and share a write; two
connections are the least that reconnect, and the last one never breaks, which
bounds reconnecting; `Beating` names the connections that may stay idle for a
heartbeat. The RPC safety run leaves heartbeats out and the liveness run has them.
`ReplyCode` is what the server may answer each call with: in the safety run CANCELLED for
the call with the deadline, standing for every status but OK, as the client does not tell
them apart, and OK for the other one (the proof takes any set of statuses per call);
`UserDone` are the contexts somebody else declares done, at any moment while a call of
theirs is still to begin: nobody reads `done_flag_` after that.
Three endpoints and a pool of two clients make it full; `MaxMade` bounds the clients,
`MaxMake` the sessions of a TCP client. `MaxSession` 1 makes two HTTP calls want the
same connection and refuses one while the other has it.
Caches: three keys reach the capacity, and a clean-up to one key has to choose
between two; `MaxTime` is four ticks, so entries expire, are loaded again and
expire again; three Gets of one key are the least in which an old answer
overwrites a newer one and a third call still finds it. `MaxFetch` is the longest
time from a miss to the store of its answer.
Containers: seven nodes (two of equal value) reach every shape of rotation and of
erasure; `MaxSize` 5 and `BufSize` 4 give a heap of three levels and a ring that wraps.
Tools: three threads leave one asleep while another notifies and a third resets;
`MaxYield` 2 lets a coroutine be resumed and resumed again. `InstNum` 4 stands for the
1024 guids of a second; `MaxGuid` 6 exceeds it, and the `Time` of three seconds is set
back and forth.
Algorithms: every sequence of at most five (sorting, expressions) or six elements
(searching), every graph of three nodes with edges of weight 1 or 3 and every graph of four
nodes with one fixed weighting, all small integers and several bases. `Word` 16 stands for 2^32
in `BigNum`, so that base 15 stands for UINT32_MAX, the default; `Wrapping` adds divisions
in it that wrap, miss the digit, and never end. `Bits` 16 is the width of the integers in
`MathUtil`.

Some properties name the outcome they stop at, because the code goes wrong there (see
the hazards in `PROJECT.json`): a division in a base above half a word once a digit or a
bound wraps (`fits`), a task that a task submits for the tick under way, the erasure of a node whose only child hangs on the
other side than the node itself (`crossed`), the ring buffer's PushArray that
ends at the last cell or copies a wrong length (`strayed`), a coroutine that is
resumed before it is suspended (`broken`), more than `InstNum` guids in one second. And
`ServersEnd` leaves out an AsioExecutor whose Stop came before Start had returned
(`early`): a signal wait armed after that Stop is never cancelled and Join never returns.
`SubSecond` FALSE takes the log server's timer period as a second or more: file
names have that resolution.

`CHECK_DEADLOCK FALSE` everywhere: all of these systems may stop for good after
Stop or Shutdown, or once every item, task, request or call was used.

## Fairness

Weak fairness of what the platform runs: a thread that is not blocked goes on
(BlockQueue, Channel, the timer loop, executors), the io_context's threads run queued
handlers, deliver completions and start posted coroutines, writes and connects
complete or fail, operations on a closed socket end, handlers and tasks return, timers
fire, time passes. Never of the user (calls, Stop, SetTimeRatio), of a connection or
the peer's messages, of exceptions, nor of spurious wake-ups. No fairness
is needed between the threads that compete for a queue element.

In `MCServers` and `MCClients` a behaviour has one part for ever, so that one weakly
fair action (`FirstFair`, `TicksFair`, ...) stands for one fair action of every part:
its disjuncts are never enabled together, and under its `part` weak fairness of the
disjunction is that of the disjunct. The leads-to properties of the parts are merged in
the same way: `StopDue` and `StopOver` have a disjunct for each part.

## Proofs

All theorems are about the specifications that TLC runs, for every value of the
constants under the assumptions named beside them: `MaxCount`, `MaxSession`, the wheel
sizes and the like are positive, sets of threads, sessions, calls and keys are finite
where they are counted, a "no session" is not a session. What more a single
theorem assumes stands in its statement and is said here. Each safety property is
proved with an inductive invariant; the reason for the parts it adds is given.

`SequenceLemmas` has what several proofs need about queues: which elements are in one, how
often (`Once`) and in which order (`Pairs`), after an append at the end, a removal at the front,
a concatenation and the erasure of a set (`FilteredFacts`); that messages numbered from 1 keep
their order as they pass through four queues (`InOrder`); and that a function defined by recursion over numbers exists
(by the least number without one, as induction theorems over operators are out of reach).

`Channel_proofs`, for every capacity, any threads and items:
- `TypeCorrect` (`ChanTypeOK`).
- `WakeupsAreKept` (`NoLostWakeup`): if threads sleep, there are at least as many
  threads that will look at the queue as elements in it. Inductive with the types:
  Enqueue adds one element and wakes one sleeper if there is one (`WakeupStep`,
  which rests on the counting lemma `ThreadCount`).
- `StopWakesAll` (`NoSleepAfterStop`): inductive with the types.
- `ThreadsAreListed` (`NoOrphanThread`): inductive with the types.
- `FirstStopDrains` (`DrainedWhenJoined`): not inductive, since it speaks only of
  the moment after the join. `DrainInv` adds what holds before: a worker that has
  left its loop after the first Stop did so with no due item in the queue, and
  holds none.

`Timer_proofs`:
- `TypeCorrect`, `WheelKeepsTime` and `TasksKeepTheirSlot` (`SlotMatchesDue`), for wheels
  of every number and size, all delays, any ratios, pauses and calls at any moment. They are
  inductive together (`Inv`): the slot a task is put into, directly, from a higher wheel or
  from the map, is that of its own tick, and the first wheel keeps the pace of the clock
  (`WheelFollowsClock`), so that the slot is taken at such a tick. A task can run turns of
  the first wheel early or late, but nothing in between.
- `NearTasksRunAtTheirTick` (`NearTasksArePrompt`), as general: a task that is submitted less
  than one turn of the first wheel ahead runs at its tick, because the slots of one turn are
  different (`SameResidue`, `ReachTick`) and no step takes a task out of its slot
  (`StepsOfTask`). It excludes a task that a running task submits for the tick under way.
- That one wheel with shorter delays implements `PromptTimer` is model-checked only.

`RpcServerSession_proofs`, for every set of requests and messages:
- `TypeCorrect`.
- `SenderIsWoken` (`NothingToSendAsleep`): the sender sleeps only if its buffer is
  empty, because the test of the buffer and the arming of the signal are one handler of
  the socket strand and each append is followed there by a notification.
- `RepliesWrittenOnce` (`AnsweredOnce`): a request arrives once
  (`ArrivesOnce`: on the wire, in the last read, or with its handler) and its reply is in one
  place (`OnePlace`): queued, in the buffer, in the write in progress, or written. The buffer of
  a completed write still holds what was written, so only a write in progress counts.

`RpcClient_proofs`, for every set of calls and contexts and every number of sessions:
- `TypeCorrect`.
- `OneSessionRuns` (`OneRunningSession`): only the client's current session runs
  (`OnlyCurRuns`), and it is replaced on `mgr_strand_` only when it was seen stopped.
- `StopLeavesNoSession` (`NoSessionAfterStop`): the stop handler stops the current session, and
  a call that was waiting for `mgr_strand_` finds the flag cleared and makes none.
- `SenderIsWoken` (`NothingToSendAsleep`), as for the server session.
- `ReplyFindsItsCall` (`ReplyFindsWaiter`) and `EveryStatusIsDeserved`
  (`ImplementsRpcCalls`) rest on one invariant, `CallsInv` (theorem `CallsKeepTheirPlaces`).
  Its parts: what continues a call's coroutine is queued once (`Single`), and the
  coroutine has exactly one turn (`Turns`); a session that was not made is untouched and
  nothing is written before it is connected (`Fresh`); no receive handler is queued during a read
  (`ReadsAlone`); a call is on `mgr_strand_` once (`Created`); a request is in one place from
  its call to its reply (`Places`); the status a call will return has its cause, the answer
  of the server or the passed deadline (`Deserved`); and the
  handler that processes a reply comes after the handlers that begin the wait
  (`RepliesFollow`), which is an order of one strand that follows from an order of another.

`Cache_proofs`, for every set of keys, every `capacity`, `clean_size` and `ttl`:
- `ListsStayTogether` (`ListsAgree`): `CacheInv` says that the map and both lists have
  the same keys, each once in a list, and that `ttl_list_` is in the order of the load times.
- `CacheAges` (`ImplementsAgingCache`): the abstract order of use is the order of
  `lru_list_`; a clean-up that cuts a list at a size takes the abstract's least recently used keys.
- `AnswersAreFresh` (`AnswersAreRecent`), for any number of concurrent calls of `RemoteCache`:
  `RemoteInv` bounds the age of what a waiting call brings and of what the cache holds.

`MCServers_proofs` has a theorem for the RPC server and two for the properties of all parts
of `MCServers`. `PartsInv` is the conjunction of one inductive invariant per part; a
step of a part changes none of the others' variables.
- `TypeCorrect` (`TypeOK`, which includes that `mgr_strand_` holds a coroutine or
  the stop handler at most once). `StrandInv` adds why: before Start there is no
  coroutine to queue, and the stop handler is dispatched only by the call that
  cleared `run_flag_`.
- `PoolIsBounded` (`PoolBounded`): a session enters the pool a step after its size
  was tested. `PoolInv` adds that there is room while the acceptor accepts, that
  it then holds exactly one session, and that pool members are started ones.
- `RunningSessionsPooled` (`RunningArePooled`): inductive with the types.
- `ServersKeepTheirWord` (`ServersHold`), by part:
  - TCP server (`CsInv`): the acceptor holds the one session that is not in the map, and
    has seen that there is room for it.
  - UDP server (`UdpInv`): a receive begins only with room for one more session.
  - TCP session (`CsSesInv`): what was written, is being written, is in the list and was
    posted is, in this order, `1..Calls`; there is something to write only during a write,
    or after the sender ended in one.
  - HTTP session (`HttpSesInv`): exactly one request is unanswered from the end of its
    read to the end of its write, none otherwise, and the connection goes on only
    after requests that allow it.
  - log session (`LogSesInv`): the file that is open was never renamed, and the
    second of the last renaming is over when the timer fires again. Concatenating the
    files needs lemmas on `FlattenSeq`.
  - AsioExecutor (`ExecInv`): the work guard is released once, by the Stop that has
    returned, and a thread leaves the io_context only when no work is left.
  - fiber executor (`FiberInv`): a task is in exactly one place (`Kept`): with its
    caller, in the channel, with a thread, run or refused.
- It assumes `~SubSecond`: with a timer period below a second a log file is renamed
  onto another, which loses reads. `OthersKeepTheirWord` shows that only
  the log session needs this assumption.

`MCClients_proofs`, like `MCServers_proofs`, rests on a `PartsInv` with one invariant per
part. `ClientsKeepTheirWord` (`ClientsHold`) is for every finite set of calls, any set of
endpoints and any bounds (`ClientsAssumption`), by part:
- TCP and UDP client (`CsInv`): only the current session runs, and the stop handler is on
  `mgr_strand_` only after `run_flag_` was cleared, so that no session is made after it.
- TCP session (`CsSesInv`), log session (`LogSesInv`): what was written, is being written,
  is in the list and was posted is, in this order, `1..Calls`, as in the servers' session. The
  sender waits only with an empty list, since each append cancels its wait.
- HTTP client (`HttpInv`): a session in use is not idle and has one user, whose
  request is the only one on its connection (`HttpCalls`); one that nobody uses and that may be
  used again has no answer outstanding, and a running one is in the pool (`HttpSessions`); each
  call has made one session at most (`HttpMade`, a cardinality argument). `HttpScan` says what
  the search through the pool finds and what it leaves of the pool.
- client pool (`PoolInv`): a client in the map is filed under the address it was made for, and
  a running client is in the map, also after a full map was swept (`PoolRoom`).
- The UDP client's session has no safety property of its own in the run (its end is part of
  `ClientsEnd`), and no invariant here.

`ToolsKeepTheirWord` (`ThreadToolsHold`) is for any threads, any positive times and number
of instances (`ToolsAssumption`):
- signals (`SignalInv`): a thread that is owed its return is awake, and a LightSignalAtomic
  keeps its flag while one is, so none of them finds the flag cleared; on a set flag somebody
  sleeps only between the store and the `notify_all` of a LightSignalAtomic.
- coroutine (`CoroInv`): as long as the user is careful and nothing is broken, `state` tells
  where the coroutine is, and the user has seen every value but the one that waits for it.
- guids (`GuidInv`): as long as no second is crowded, the last guid is the latest, and its
  instance number is one less than the number of guids of its second (a cardinality argument):
  the next one does not wrap.

`ContainersKeepTheirWord` (`ContainersHold`) is for vectors and arrays of every size over
any integers. An assignment of one value and the sort of an empty heap are left out, as the
code's unsigned loop bounds wrap there:
- ring buffer (`RingInv`): until it strays, the cells from the read position on hold the
  queue, at positions modulo `BufSize`.
- heap (`HeapInv`): the vector is a heap with the values that were put in. A loop of the code
  is a recursive function whose value after each turn satisfies the loop's invariant. While a
  value sinks, only it may be out of order with its children, and they are in order with its
  parent (`Sinking`); while one rises, only it may be out of order with its parent (`Rising`);
  the other values are exchanged among each other and no further than the length given
  (`Kept`). `AdjustDownIn`, `AdjustUpIn` and `AdjustIn` conclude from these what the operations
  do to a vector; `AdjustDown` repairs an inner value if everything below is a heap.
- `SortSorts`: after each pass of `Sort` the values behind the heap are in order, and each is
  over every value before it (`Behind`); so the vector ends in order. `HeapStep` derives
  that it is then a heap of the other kind.

`HttpServer` is an instance of `RpcServer`, as its acceptor and Stop are the same code:
the argument is the same for it, the theorems are stated of `RpcServer`.

Only model-checked:
- the refinement of `PromptTimer` (`ImplementsPromptTimer`), which the theorems about the
  timer replace by statements without its restrictions;
- all liveness properties (liveness under fairness and ENABLED are outside the
  prover's reach): `ItemsAreTaken`, `StopReturns`, `EveryTaskRuns`, `ShutdownJoins`,
  `RequestsAnswered`, `SilentPeerIsDropped`, `RecvAndTimerEnd`, `TimedCallsReturn`,
  `SessionsEnd`, `ServersEnd`, `ServersServe`, `ClientsEnd`;
- the search trees and algorithms of `MCData` (`TreesKeepTheirNodes`, `AlgorithmsAgree`,
  `ArithmeticAgrees`): they are recursive over data, and neither RECURSIVE operators nor
  induction theorems can be used in a proof. The heap's loops could be proved about because
  their recursion counts turns.

## Where the code and its documents disagree

- `MCTimerSkip`: a wheel above the first is advanced twice per revolution of the
  one below (`borrow_func` and its own `Tick`), so every other slot is skipped and
  its tasks are late (timer_test.cpp expects the clock to stand at the task's time).
- `MCRpcServerSessionLeak`: a Stop that runs between the completion of a write and
  the resumption of the send coroutine leaves it waiting for a signal for ever.
- `MCRpcServerStop`: a connection accepted just before the stop handler runs is
  started after it, put in a pool nobody stops any more, and survives the server.

Two disagreements are reached in passing runs, whose properties except them:

- `BigNum` in a base above 2^16 (`MCData`, `Wrapping`): the class comment (big_num.hpp:18)
  recommends UINT32_MAX, the default, but Div joins two digits in 32 bits (:393) and casts
  a bound to 32 bits (:400). In the model's counterpart (base 15 for a word of 16) 16 / 2 is 0,
  remainder 16, as 2^32 / 2 is 0, remainder 2^32, in the code; and where the lower bound of
  the bisection passes the largest word (3585 / 16 in the model, (B^3 + (B - 1) B) / (B + 1)
  with B = UINT32_MAX in the code) it starts again at 0 and Div does not return. What the
  comment of Div says (:369, dividend - remainder = divisor * quotient, the sign of the
  remainder) holds whenever Div returns.
- `FindFirstOne` (math_util.hpp:47 says that 64 means "not found") returns 64 only for the number
  0 and for a start at 64 or above. With no one from the start on it shifts by 64 and more,
  which C++ leaves undefined; with the shift count of x86, as modelled, it comes around
  and returns 64 or more for a one below the start.

The models have further outcomes that limit what is claimed above: those at the end of
[the runs](#runs), index out of a wheel's vector with three wheels (action
`TickOutOfBounds`), a delay beyond the wheel rounded down by a revolution, a task that a
task submits for the tick under way, which runs a turn late, or for the map in the last tick of
a turn, which goes under a key the map position has passed and never runs,
BlockDequeue returning false on a running queue when another consumer was faster, a
restarted Channel that leaves items behind, a RegisterService that throws after it
has changed the map, an rvalue Update of the cache that reads a moved-from value, a
LightSignalAtomic whose reset sends woken waiters back to sleep, a TCP session started
outside the server's map, a TCP server session whose sender is never woken.

## Not modelled

Per component in `PROJECT.json`. In short: byte framing and serialisation (layout,
abstracted to whole messages), encodings and parsers, code generators (text output),
formatting, logging, file and library wrappers (pure I/O), matrices, complex numbers,
vectors and colours (floating point), the unifex RPC server (a stub) and client (an
unfinished port whose Stop does not compile), scheduler and sender adapters (library
glue without state), reference counter and pointer buffer (one atomic counter, one atomic
exchange). The log server and the log client around their sessions are the code of the RPC
server and the TCP client, and the UDP and HTTP client pools that of `ClientPool`;
they are not repeated. What is modelled only in part: the timer's lifecycle (a second
Initialize or Start, a Shutdown without Start) and times before its start; replacing
RemoteCache's fetch function while Gets run; request ids that wrap; the
representation of shared pointers that two threads access; registering a service while
Stop walks the same vector.

## Plan

Done: every module above, and the proofs of [Proofs](#proofs). Next, in this order:

1. The timer's lifecycle as a module of its own (a second Initialize or Start, a Shutdown
   without Start).
2. The algorithms that are one loop (sorting, the odometer of loop_tool.hpp) rewritten as
   functions that count turns, as the heap's are, and theorems about them.
