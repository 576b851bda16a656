------------------------------- MODULE Channel --------------------------------
(***************************************************************************)
(* ytlib::Channel (thread/channel.hpp): worker threads that drain an       *)
(* inherited BlockQueue.  The workers sleep on the queue's own condition   *)
(* variable, next to the threads that call the inherited BlockDequeue.     *)
(* The owner (the thread that calls StartProcess and StopProcess) joins    *)
(* the workers after Stop.                                                 *)
(***************************************************************************)
EXTENDS BlockQueue

CONSTANTS
  ThSize,   \* th_size_, the threads each StartProcess adds
  NoItem    \* a worker that runs no handler

ASSUME ThSizeAssumption == ThSize \in Nat
ASSUME NoItemAssumption == NoItem \notin Item

VARIABLES
  threads,     \* threads_: the workers that were started and not yet joined
  owner,       \* "idle", or "joining" inside StopProcess
  due,         \* history: the items accepted before the last StopProcess,
               \*   if it found any thread to join
  firstStop,   \* history: the last StopProcess found running_flag_ set
  data         \* per worker: the item whose handler it runs

cvars == <<threads, owner, due, firstStop, data>>
chanVars == <<vars, cvars>>

ChanInit ==
  /\ Init
  /\ threads = {}
  /\ owner = "idle"
  /\ due = {}
  /\ firstStop = FALSE
  /\ data = [w \in Worker |-> NoItem]

\* Mutant of WithThreads: the list is replaced, not extended.
OnlyThreads(S) == S

WithThreads(S) == threads \cup S

\* StartProcess: th_size_ new threads, each about to lock mutex_.
StartProcess ==
  /\ owner = "idle"
  /\ \E S \in SUBSET {w \in Worker : pc[w] = "idle"} :
       /\ Cardinality(S) = ThSize
       /\ threads' = WithThreads(S)
       /\ pc' = [t \in Thread |-> IF t \in S THEN "ready" ELSE pc[t]]
  /\ UNCHANGED <<qvars, ret, owner, due, firstStop, data>>

\* The inner loop takes an element and releases the mutex for the handler.
\* A worker back from the handler has locked the mutex again first.
WorkerTake(w) ==
  /\ pc[w] \in {"ready", "woken", "work"}
  /\ queue # <<>>
  /\ data' = [data EXCEPT ![w] = Head(queue)]
  /\ queue' = Tail(queue)
  /\ pc' = [pc EXCEPT ![w] = "work"]
  /\ UNCHANGED <<running, ret, accepted, threads, owner, due, firstStop>>

\* Mutant of InnerLoopEnds: a stopped worker leaves elements behind.
InnerLoopEndsOnStop == queue = <<>> \/ ~running

InnerLoopEnds == queue = <<>>

\* The queue is empty: the loop returns if stopped, else waits.
WorkerRest(w) ==
  /\ pc[w] \in {"ready", "woken", "work"}
  /\ InnerLoopEnds
  /\ data' = [data EXCEPT ![w] = NoItem]
  /\ pc' = [pc EXCEPT ![w] = IF running THEN "wait" ELSE "exit"]
  /\ UNCHANGED <<qvars, ret, threads, owner, due, firstStop>>

WorkerStep(w) == WorkerTake(w) \/ WorkerRest(w)

\* StopProcess, first half: BlockQueue::Stop.
StopProcess ==
  /\ owner = "idle"
  /\ Stop
  /\ owner' = "joining"
  /\ due' = IF threads = {} THEN {} ELSE accepted
  /\ firstStop' = running
  /\ UNCHANGED <<threads, data>>

\* StopProcess, second half: every thread joined and erased.
JoinThreads ==
  /\ owner = "joining"
  /\ \A w \in threads : pc[w] = "exit"
  /\ threads' = {}
  /\ pc' = [t \in Thread |-> IF t \in threads THEN "idle" ELSE pc[t]]
  /\ owner' = "idle"
  /\ UNCHANGED <<qvars, ret, due, firstStop, data>>

ChanNext ==
  \/ QueueNext /\ UNCHANGED cvars
  \/ StartProcess
  \/ \E w \in Worker : WorkerStep(w)
  \/ StopProcess
  \/ JoinThreads

ChanSpec == ChanInit /\ [][ChanNext]_chanVars

\* Threads that can run do run, and the owner's join returns when it can.
ChanFairSpec ==
  /\ ChanSpec
  /\ \A w \in Worker : WF_chanVars(WorkerStep(w))
  /\ \A t \in Consumer : WF_chanVars(ConsumerStep(t) /\ UNCHANGED cvars)
  /\ WF_chanVars(JoinThreads)

-----------------------------------------------------------------------------
Queued == {queue[i] : i \in DOMAIN queue}

(***************************************************************************)
(* The types of the channel, and those of the queue it inherits.           *)
(***************************************************************************)
ChanTypeOK ==
  /\ TypeOK
  /\ threads \subseteq Worker
  /\ owner \in {"idle", "joining"}
  /\ due \subseteq Item
  /\ firstStop \in BOOLEAN
  /\ data \in [Worker -> Item \cup {NoItem}]

Drained ==
  owner = "idle" => /\ Queued \cap due = {}
                    /\ \A w \in Worker : data[w] \notin due

(***************************************************************************)
(* "All items are processed before exit" (channel.hpp:19), for the first   *)
(* StopProcess: when its join has returned, no item that was accepted      *)
(* before the stop is still in the queue or in a handler.                  *)
(***************************************************************************)
DrainedWhenJoined == firstStop => Drained

(***************************************************************************)
(* The set of threads is the set of workers that run: a joined list never  *)
(* leaves a live thread behind, so destroying the Channel is safe.         *)
(***************************************************************************)
NoOrphanThread ==
  \A w \in Worker : w \in threads <=> pc[w] # "idle"

(***************************************************************************)
(* While workers are alive and nobody stops the channel, an accepted item  *)
(* does not stay in the queue (neither a stolen nor a lost wakeup strands  *)
(* it).                                                                    *)
(***************************************************************************)
ItemsAreTaken ==
  \A x \in Item : (x \in Queued /\ threads # {} /\ running)
                     ~> (x \notin Queued)

(***************************************************************************)
(* StopProcess returns: no worker sleeps through the stop.  Neither does a *)
(* call of BlockDequeue, which the same notification has to wake.          *)
(***************************************************************************)
StopReturns ==
  /\ (owner = "joining") ~> (owner = "idle")
  /\ CallsReturnOnceStopped
=============================================================================
