------------------------------ MODULE BlockQueue ------------------------------
(***************************************************************************)
(* ytlib::BlockQueue (thread/block_queue.hpp): a bounded FIFO queue behind *)
(* one mutex and one condition variable.                                   *)
(*                                                                         *)
(* Every member function holds mutex_ from its first to its last statement *)
(* except while it sleeps in cond_.wait, so a member function is one       *)
(* action, and a blocking one is two: up to the wait, and from the moment  *)
(* the woken thread owns the mutex again.  Between the two any other       *)
(* thread may run, which is what makes the queue hard to test.             *)
(***************************************************************************)
EXTENDS Naturals, Sequences, FiniteSets

CONSTANTS
  Item,      \* the elements; each is enqueued at most once
  Consumer,  \* threads that call BlockDequeue
  Worker,    \* threads of a Channel that wait on the same cond_ (Channel.tla)
  MaxCount   \* maxcount_

Thread == Consumer \cup Worker

ASSUME ThreadAssumption == IsFiniteSet(Thread) /\ Consumer \cap Worker = {}
ASSUME MaxCountAssumption == MaxCount \in Nat

VARIABLES
  queue,     \* queue_
  running,   \* running_flag_
  pc,        \* per thread: where it stands with respect to mutex_ and cond_
  ret,       \* per consumer: what its last BlockDequeue returned
  accepted   \* history: the items some Enqueue returned true for

qvars == <<queue, running, accepted>>
vars == <<queue, running, pc, ret, accepted>>

(***************************************************************************)
(* "idle"    outside every call (a worker: no thread yet, or joined)       *)
(* "ready"   wants the mutex for the first time                            *)
(* "wait"    asleep in cond_.wait                                          *)
(* "woken"   notified (or spuriously awake), waiting for the mutex         *)
(* "work"    a Channel worker running the handler, mutex released          *)
(* "exit"    a Channel worker whose thread function has returned           *)
(***************************************************************************)
PC == {"idle", "ready", "wait", "woken", "work", "exit"}
Sleeping == {t \in Thread : pc[t] = "wait"}

Init ==
  /\ queue = <<>>
  /\ running = TRUE
  /\ pc = [t \in Thread |-> "idle"]
  /\ ret = [t \in Consumer |-> "none"]
  /\ accepted = {}

\* Mutant of NotifyOne: the notification is forgotten.
NotifyNobody == pc' = pc

\* cond_.notify_one: wakes one sleeper if there is any.
NotifyOne ==
  \/ Sleeping = {} /\ pc' = pc
  \/ \E t \in Sleeping : pc' = [pc EXCEPT ![t] = "woken"]

\* cond_.notify_all
NotifyAll == pc' = [t \in Thread |-> IF t \in Sleeping THEN "woken" ELSE pc[t]]

\* cond_.wait may return without a notification.
SpuriousWake(t) ==
  /\ pc[t] = "wait"
  /\ pc' = [pc EXCEPT ![t] = "woken"]
  /\ UNCHANGED <<qvars, ret>>

\* Mutant of HasRoom: the bound is off by one.
HasRoomPlusOne == Len(queue) <= MaxCount

HasRoom == Len(queue) < MaxCount

\* Enqueue that returns true: there is room, whatever running_flag_ says.
Enqueue(x) ==
  /\ x \notin accepted
  /\ HasRoom
  /\ queue' = Append(queue, x)
  /\ accepted' = accepted \cup {x}
  /\ NotifyOne
  /\ UNCHANGED <<running, ret>>

\* Dequeue that returns true.
Dequeue ==
  /\ queue # <<>>
  /\ queue' = Tail(queue)
  /\ UNCHANGED <<running, pc, ret, accepted>>

Clear ==
  /\ queue # <<>>
  /\ queue' = <<>>
  /\ UNCHANGED <<running, pc, ret, accepted>>

Stop ==
  /\ running' = FALSE
  /\ NotifyAll
  /\ UNCHANGED <<queue, accepted, ret>>

\* A consumer calls BlockDequeue and asks for the mutex.
BlockDequeueCall(t) ==
  /\ pc[t] = "idle"
  /\ pc' = [pc EXCEPT ![t] = "ready"]
  /\ ret' = [ret EXCEPT ![t] = "none"]
  /\ UNCHANGED qvars

\* BlockDequeue finds an element, at once or when it wakes up.
BlockDequeueTake(t) ==
  /\ pc[t] \in {"ready", "woken"}
  /\ queue # <<>>
  /\ queue' = Tail(queue)
  /\ pc' = [pc EXCEPT ![t] = "idle"]
  /\ ret' = [ret EXCEPT ![t] = "true"]
  /\ UNCHANGED <<running, accepted>>

BlockDequeueWait(t) ==
  /\ pc[t] = "ready"
  /\ queue = <<>>
  /\ running
  /\ pc' = [pc EXCEPT ![t] = "wait"]
  /\ UNCHANGED <<qvars, ret>>

\* Empty and stopped on entry, or empty after the (only) wait.
BlockDequeueFail(t) ==
  /\ queue = <<>>
  /\ \/ pc[t] = "ready" /\ ~running
     \/ pc[t] = "woken"
  /\ pc' = [pc EXCEPT ![t] = "idle"]
  /\ ret' = [ret EXCEPT ![t] = "false"]
  /\ UNCHANGED qvars

ConsumerStep(t) ==
  BlockDequeueTake(t) \/ BlockDequeueWait(t) \/ BlockDequeueFail(t)

QueueNext ==
  \/ \E x \in Item : Enqueue(x)
  \/ Dequeue
  \/ Clear
  \/ \E t \in Thread : SpuriousWake(t)
  \/ \E t \in Consumer : BlockDequeueCall(t) \/ ConsumerStep(t)

Next == QueueNext \/ Stop

Spec == Init /\ [][Next]_vars

-----------------------------------------------------------------------------
(***************************************************************************)
(* The types, and that the queue never holds more than maxcount_ elements  *)
(* (Enqueue refuses the others).                                           *)
(***************************************************************************)
TypeOK ==
  /\ queue \in Seq(Item)
  /\ Len(queue) <= MaxCount
  /\ running \in BOOLEAN
  /\ pc \in [Thread -> PC]
  /\ ret \in [Consumer -> {"none", "true", "false"}]
  /\ accepted \subseteq Item

\* Threads that will look at the queue again before they sleep: notified
\* ones, and workers that come back from the handler.
Attending == {t \in Thread : pc[t] \in {"woken", "work"}}

(***************************************************************************)
(* No notification is lost: while somebody sleeps on the condition         *)
(* variable, every queued element has a thread of its own that was told    *)
(* of it and has not slept since (Enqueue notifies one thread per          *)
(* element, BlockDequeue does not pass a notification on).                 *)
(***************************************************************************)
NoLostWakeup ==
  Sleeping # {} => Len(queue) <= Cardinality(Attending)

(***************************************************************************)
(* Nobody sleeps on a stopped queue: Stop wakes every sleeper and no later *)
(* call goes to sleep, so joining the threads after Stop terminates.       *)
(***************************************************************************)
NoSleepAfterStop == ~running => Sleeping = {}

(***************************************************************************)
(* A call of BlockDequeue returns once the queue is stopped, also when it  *)
(* was asleep next to Channel workers that the same Stop has to wake.      *)
(***************************************************************************)
CallsReturnOnceStopped ==
  \A t \in Consumer : (~running /\ pc[t] # "idle") ~> (pc[t] = "idle")
=============================================================================
