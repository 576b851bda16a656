---------------------------- MODULE Channel_proofs -----------------------------
(***************************************************************************)
(* Proofs about Channel: for every set of items, consumers and workers,    *)
(* every capacity and every number of threads, no wake-up is lost, nobody  *)
(* sleeps on a stopped queue, and the first StopProcess drains the queue.  *)
(***************************************************************************)
EXTENDS Channel, FiniteSetTheorems, TLAPS

-----------------------------------------------------------------------------
(***************************************************************************)
(* Type correctness: what the queue and the channel hold keeps its type,   *)
(* and the queue stays within maxcount_.                                   *)
(***************************************************************************)
LEMMA TypeStep == ChanTypeOK /\ [ChanNext]_chanVars => ChanTypeOK'
<1> SUFFICES ASSUME ChanTypeOK, [ChanNext]_chanVars PROVE ChanTypeOK'
  OBVIOUS
<1> USE ThreadAssumption, MaxCountAssumption DEF ChanTypeOK, TypeOK, Thread, PC
<1>1. ASSUME NEW x \in Item, Enqueue(x), UNCHANGED cvars PROVE ChanTypeOK'
  BY <1>1 DEF Enqueue, HasRoom, NotifyOne, Sleeping, cvars
<1>2. CASE Dequeue /\ UNCHANGED cvars
  BY <1>2 DEF Dequeue, cvars
<1>3. CASE Clear /\ UNCHANGED cvars
  BY <1>3 DEF Clear, cvars
<1>4. ASSUME NEW t \in Thread, SpuriousWake(t), UNCHANGED cvars PROVE ChanTypeOK'
  BY <1>4 DEF SpuriousWake, qvars, cvars
<1>5. ASSUME NEW t \in Consumer, UNCHANGED cvars,
             BlockDequeueCall(t) \/ ConsumerStep(t)
      PROVE  ChanTypeOK'
  <2>1. CASE BlockDequeueCall(t)
    BY <1>5, <2>1 DEF BlockDequeueCall, qvars, cvars
  <2>2. CASE BlockDequeueTake(t)
    BY <1>5, <2>2 DEF BlockDequeueTake, cvars
  <2>3. CASE BlockDequeueWait(t)
    BY <1>5, <2>3 DEF BlockDequeueWait, qvars, cvars
  <2>4. CASE BlockDequeueFail(t)
    BY <1>5, <2>4 DEF BlockDequeueFail, qvars, cvars
  <2> QED BY <1>5, <2>1, <2>2, <2>3, <2>4 DEF ConsumerStep
<1>6. CASE StartProcess
  BY <1>6 DEF StartProcess, WithThreads, qvars
<1>7. ASSUME NEW w \in Worker, WorkerTake(w) PROVE ChanTypeOK'
  BY <1>7 DEF WorkerTake
<1>8. ASSUME NEW w \in Worker, WorkerRest(w) PROVE ChanTypeOK'
  BY <1>8 DEF WorkerRest, qvars
<1>9. CASE StopProcess
  BY <1>9 DEF StopProcess, Stop, NotifyAll, Sleeping
<1>10. CASE JoinThreads
  BY <1>10 DEF JoinThreads, qvars
<1>11. CASE UNCHANGED chanVars
  BY <1>11 DEF chanVars, vars, cvars
<1> QED
  BY <1>1, <1>2, <1>3, <1>4, <1>5, <1>6, <1>7, <1>8, <1>9, <1>10, <1>11
  DEF ChanNext, QueueNext, WorkerStep

THEOREM TypeCorrect == ChanSpec => []ChanTypeOK
<1>1. ChanInit => ChanTypeOK
  <2> SUFFICES ASSUME ChanInit PROVE ChanTypeOK
    OBVIOUS
  <2>1. queue \in Seq(Item) /\ Len(queue) <= MaxCount
    BY MaxCountAssumption DEF ChanInit, Init
  <2>2. pc \in [Thread -> PC] /\ ret \in [Consumer -> {"none", "true", "false"}]
    BY DEF ChanInit, Init, PC
  <2>3. data \in [Worker -> Item \cup {NoItem}]
    BY DEF ChanInit
  <2> QED BY <2>1, <2>2, <2>3 DEF ChanInit, Init, ChanTypeOK, TypeOK
<1> QED BY <1>1, TypeStep, PTL DEF ChanSpec

-----------------------------------------------------------------------------
(***************************************************************************)
(* Sets of threads are finite, and one that gains or loses a thread is one *)
(* larger or smaller.                                                      *)
(***************************************************************************)
LEMMA ThreadCount ==
  ASSUME NEW S \in SUBSET Thread, NEW T \in SUBSET Thread
  PROVE  /\ Cardinality(S) \in Nat /\ Cardinality(T) \in Nat
         /\ S \subseteq T => Cardinality(S) <= Cardinality(T)
         /\ \A x \in T \ S : S \subseteq T => Cardinality(S) + 1 <= Cardinality(T)
         /\ \A x \in S : S \ {x} \subseteq T => Cardinality(S) - 1 <= Cardinality(T)
<1>1. IsFiniteSet(S) /\ IsFiniteSet(T)
  BY ThreadAssumption, FS_Subset
<1>2. Cardinality(S) \in Nat /\ Cardinality(T) \in Nat
  BY <1>1, FS_CardinalityType
<1>3. S \subseteq T => Cardinality(S) <= Cardinality(T)
  BY <1>1, FS_Subset
<1>4. ASSUME NEW x \in T \ S, S \subseteq T PROVE Cardinality(S) + 1 <= Cardinality(T)
  <2>1. S \cup {x} \subseteq T
    BY <1>4
  <2>2. Cardinality(S \cup {x}) = Cardinality(S) + 1
    BY <1>1, <1>4, FS_AddElement
  <2> QED BY <1>1, <2>1, <2>2, FS_Subset
<1>5. ASSUME NEW x \in S, S \ {x} \subseteq T PROVE Cardinality(S) - 1 <= Cardinality(T)
  <2>1. Cardinality(S \ {x}) = Cardinality(S) - 1
    BY <1>1, FS_RemoveElement
  <2> QED BY <1>1, <1>5, <2>1, FS_Subset
<1> QED BY <1>2, <1>3, <1>4, <1>5

(***************************************************************************)
(* A step that keeps the queue short enough for the threads that attend to *)
(* it keeps NoLostWakeup.  The sleepers matter only for Enqueue, which     *)
(* leaves the attending threads alone when there is nobody to wake.        *)
(***************************************************************************)
LEMMA WakeupStep ==
  ChanTypeOK /\ NoLostWakeup /\ [ChanNext]_chanVars => NoLostWakeup'
<1> SUFFICES ASSUME ChanTypeOK, NoLostWakeup, [ChanNext]_chanVars PROVE NoLostWakeup'
  OBVIOUS
<1>a. ChanTypeOK'
  BY TypeStep
<1>b. pc \in [Thread -> PC] /\ pc' \in [Thread -> PC] /\ queue \in Seq(Item) /\ queue' \in Seq(Item)
  BY <1>a DEF ChanTypeOK, TypeOK
<1>c. Attending \in SUBSET Thread /\ Attending' \in SUBSET Thread
  BY DEF Attending
<1>d. /\ Cardinality(Attending) \in Nat /\ Cardinality(Attending') \in Nat
      /\ Attending \subseteq Attending' => Cardinality(Attending) <= Cardinality(Attending')
  BY <1>c, ThreadCount
<1>e. ASSUME Attending \subseteq Attending', Sleeping' \subseteq Sleeping,
             Len(queue') <= Len(queue)
      PROVE  NoLostWakeup'
  BY <1>b, <1>d, <1>e DEF NoLostWakeup
<1>f. ASSUME queue' = <<>> PROVE NoLostWakeup'
  BY <1>d, <1>f DEF NoLostWakeup
<1>1. ASSUME NEW x \in Item, Enqueue(x) PROVE NoLostWakeup'
  <2>1. Len(queue') = Len(queue) + 1
    BY <1>1, <1>b DEF Enqueue
  <2>2. CASE Sleeping = {} /\ pc' = pc
    BY <2>2 DEF NoLostWakeup, Sleeping
  <2>3. ASSUME NEW t \in Sleeping, pc' = [pc EXCEPT ![t] = "woken"] PROVE NoLostWakeup'
    <3>1. t \in Attending' \ Attending /\ Attending \subseteq Attending'
      BY <2>3, <1>b DEF Attending, Sleeping
    <3>2. Cardinality(Attending) + 1 <= Cardinality(Attending')
      BY <3>1, <1>c, ThreadCount
    <3>3. Len(queue) <= Cardinality(Attending)
      BY <2>3 DEF NoLostWakeup
    <3> QED BY <2>1, <3>2, <3>3, <1>b, <1>d DEF NoLostWakeup
  <2> QED BY <1>1, <2>2, <2>3 DEF Enqueue, NotifyOne
<1>2. CASE Dequeue
  BY <1>2, <1>b, <1>e DEF Dequeue, Attending, Sleeping
<1>3. CASE Clear
  BY <1>3, <1>f DEF Clear
<1>4. ASSUME NEW t \in Thread, SpuriousWake(t) PROVE NoLostWakeup'
  BY <1>4, <1>b, <1>e DEF SpuriousWake, qvars, Attending, Sleeping
<1>5. ASSUME NEW t \in Thread, pc[t] \in {"ready", "woken", "work"}, queue # <<>>,
             queue' = Tail(queue), NEW q \in PC \ {"wait"},
             pc' = [pc EXCEPT ![t] = q]
      PROVE  NoLostWakeup'
  <2>1. Len(queue') = Len(queue) - 1 /\ Len(queue) \in Nat
    BY <1>5, <1>b
  <2>2. Attending \ {t} \subseteq Attending' /\ Sleeping' = Sleeping
    BY <1>5, <1>b DEF Attending, Sleeping
  <2>3. Cardinality(Attending) - 1 <= Cardinality(Attending')
    <3>1. CASE t \in Attending
      BY <3>1, <2>2, <1>c, ThreadCount
    <3>2. CASE t \notin Attending
      BY <3>2, <2>2, <1>d
    <3> QED BY <3>1, <3>2
  <2> QED BY <2>1, <2>2, <2>3, <1>d DEF NoLostWakeup
<1>6. ASSUME NEW t \in Consumer, BlockDequeueCall(t) \/ ConsumerStep(t) PROVE NoLostWakeup'
  <2>1. CASE BlockDequeueCall(t)
    BY <2>1, <1>b, <1>e DEF BlockDequeueCall, qvars, Attending, Sleeping
  <2>2. CASE BlockDequeueTake(t)
    BY <2>2, <1>5 DEF BlockDequeueTake, Thread, PC
  <2>3. CASE BlockDequeueWait(t)
    BY <2>3, <1>f DEF BlockDequeueWait, qvars
  <2>4. CASE BlockDequeueFail(t)
    BY <2>4, <1>f DEF BlockDequeueFail, qvars
  <2> QED BY <1>6, <2>1, <2>2, <2>3, <2>4 DEF ConsumerStep
<1>7. CASE StartProcess
  BY <1>7, <1>b, <1>e DEF StartProcess, qvars, Attending, Sleeping
<1>8. ASSUME NEW w \in Worker, WorkerTake(w) PROVE NoLostWakeup'
  BY <1>8, <1>5 DEF WorkerTake, Thread, PC
<1>9. ASSUME NEW w \in Worker, WorkerRest(w) PROVE NoLostWakeup'
  BY <1>9, <1>f DEF WorkerRest, InnerLoopEnds, qvars
<1>10. CASE StopProcess
  BY <1>10 DEF StopProcess, Stop, NotifyAll, NoLostWakeup, Sleeping
<1>11. CASE JoinThreads
  <2>1. Attending \subseteq Attending' /\ Sleeping' \subseteq Sleeping
    BY <1>11, <1>b DEF JoinThreads, Attending, Sleeping
  <2> QED BY <2>1, <1>11, <1>b, <1>e DEF JoinThreads, qvars
<1>12. CASE UNCHANGED chanVars
  BY <1>12 DEF chanVars, vars, NoLostWakeup, Attending, Sleeping
<1> QED
  BY <1>1, <1>2, <1>3, <1>4, <1>6, <1>7, <1>8, <1>9, <1>10, <1>11, <1>12
  DEF ChanNext, QueueNext, WorkerStep

(***************************************************************************)
(* No notification is lost, whatever the numbers of consumers and workers  *)
(* that sleep on the one condition variable.                               *)
(***************************************************************************)
THEOREM WakeupsAreKept == ChanSpec => []NoLostWakeup
<1>1. ChanInit => NoLostWakeup
  BY DEF ChanInit, Init, NoLostWakeup, Sleeping
<1> QED BY <1>1, TypeCorrect, WakeupStep, PTL DEF ChanSpec

-----------------------------------------------------------------------------
(***************************************************************************)
(* Nobody sleeps on a stopped queue.                                       *)
(***************************************************************************)
LEMMA SleepStep ==
  ChanTypeOK /\ NoSleepAfterStop /\ [ChanNext]_chanVars => NoSleepAfterStop'
<1> SUFFICES ASSUME ChanTypeOK, NoSleepAfterStop, [ChanNext]_chanVars
             PROVE  NoSleepAfterStop'
  OBVIOUS
<1> USE DEF NoSleepAfterStop, Sleeping
<1>a. pc \in [Thread -> PC]
  BY DEF ChanTypeOK, TypeOK
<1>1. ASSUME NEW x \in Item, Enqueue(x) PROVE NoSleepAfterStop'
  BY <1>1, <1>a DEF Enqueue, NotifyOne
<1>2. CASE Dequeue
  BY <1>2 DEF Dequeue
<1>3. CASE Clear
  BY <1>3 DEF Clear
<1>4. ASSUME NEW t \in Thread, SpuriousWake(t) PROVE NoSleepAfterStop'
  BY <1>4, <1>a DEF SpuriousWake, qvars
<1>5. ASSUME NEW t \in Consumer, BlockDequeueCall(t) \/ ConsumerStep(t)
      PROVE  NoSleepAfterStop'
  BY <1>5, <1>a DEF BlockDequeueCall, ConsumerStep, BlockDequeueTake, BlockDequeueWait,
                    BlockDequeueFail, qvars
<1>6. CASE StartProcess
  BY <1>6, <1>a DEF StartProcess, qvars
<1>7. ASSUME NEW w \in Worker, WorkerStep(w) PROVE NoSleepAfterStop'
  BY <1>7, <1>a DEF WorkerStep, WorkerTake, WorkerRest, qvars
<1>8. CASE StopProcess
  BY <1>8 DEF StopProcess, Stop, NotifyAll
<1>9. CASE JoinThreads
  BY <1>9, <1>a DEF JoinThreads, qvars
<1>10. CASE UNCHANGED chanVars
  BY <1>10 DEF chanVars, vars
<1> QED
  BY <1>1, <1>2, <1>3, <1>4, <1>5, <1>6, <1>7, <1>8, <1>9, <1>10 DEF ChanNext, QueueNext

(***************************************************************************)
(* Stop wakes every sleeper and nobody goes to sleep after it.             *)
(***************************************************************************)
THEOREM StopWakesAll == ChanSpec => []NoSleepAfterStop
<1>1. ChanInit => NoSleepAfterStop
  BY DEF ChanInit, Init, NoSleepAfterStop
<1> QED BY <1>1, TypeCorrect, SleepStep, PTL DEF ChanSpec

-----------------------------------------------------------------------------
(***************************************************************************)
(* The list of threads is exact.                                           *)
(***************************************************************************)
LEMMA OrphanStep ==
  ChanTypeOK /\ NoOrphanThread /\ [ChanNext]_chanVars => NoOrphanThread'
<1> SUFFICES ASSUME ChanTypeOK, NoOrphanThread, [ChanNext]_chanVars
             PROVE  NoOrphanThread'
  OBVIOUS
<1> USE ThreadAssumption DEF NoOrphanThread, Thread
<1>a. pc \in [Thread -> PC] /\ threads \subseteq Worker
  BY DEF ChanTypeOK, TypeOK
<1>1. ASSUME NEW x \in Item, Enqueue(x), UNCHANGED cvars PROVE NoOrphanThread'
  BY <1>1, <1>a DEF Enqueue, NotifyOne, cvars, Sleeping
<1>2. CASE (Dequeue \/ Clear) /\ UNCHANGED cvars
  BY <1>2 DEF Dequeue, Clear, cvars
<1>3. ASSUME NEW t \in Thread, SpuriousWake(t), UNCHANGED cvars PROVE NoOrphanThread'
  BY <1>3, <1>a DEF SpuriousWake, cvars
<1>4. ASSUME NEW t \in Consumer, UNCHANGED cvars, BlockDequeueCall(t) \/ ConsumerStep(t)
      PROVE  NoOrphanThread'
  BY <1>4, <1>a DEF BlockDequeueCall, ConsumerStep, BlockDequeueTake, BlockDequeueWait,
                    BlockDequeueFail, cvars
<1>5. CASE StartProcess
  BY <1>5, <1>a DEF StartProcess, WithThreads
<1>6. ASSUME NEW w \in Worker, WorkerStep(w) PROVE NoOrphanThread'
  BY <1>6, <1>a DEF WorkerStep, WorkerTake, WorkerRest
<1>7. CASE StopProcess
  BY <1>7, <1>a DEF StopProcess, Stop, NotifyAll, Sleeping
<1>8. CASE JoinThreads
  BY <1>8, <1>a DEF JoinThreads
<1>9. CASE UNCHANGED chanVars
  BY <1>9 DEF chanVars, vars, cvars
<1> QED
  BY <1>1, <1>2, <1>3, <1>4, <1>5, <1>6, <1>7, <1>8, <1>9 DEF ChanNext, QueueNext

(***************************************************************************)
(* StopProcess joins exactly the threads that run.                         *)
(***************************************************************************)
THEOREM ThreadsAreListed == ChanSpec => []NoOrphanThread
<1>1. ChanInit => NoOrphanThread
  BY DEF ChanInit, Init, NoOrphanThread, Thread
<1> QED BY <1>1, TypeCorrect, OrphanStep, PTL DEF ChanSpec

-----------------------------------------------------------------------------
(***************************************************************************)
(* DrainedWhenJoined is not inductive: it says nothing before the join has *)
(* returned.  What carries it there is that a worker returns only from an  *)
(* empty queue after the stop, that what is queued later was not accepted  *)
(* before the stop, and that a worker outside its handler holds no item.   *)
(***************************************************************************)
DrainInv ==
  /\ due \subseteq accepted /\ Queued \subseteq accepted
  /\ firstStop => ~running
  /\ owner = "joining" => ~running
  /\ \A w \in Worker : /\ running => pc[w] # "exit"
                       /\ data[w] # NoItem => pc[w] = "work"
                       /\ firstStop /\ pc[w] = "exit" => Queued \cap due = {}
  /\ owner = "joining" /\ threads = {} => due = {}
  /\ DrainedWhenJoined

\* The elements of a queue after each operation on it.
LEMMA QueuedElements ==
  ASSUME queue \in Seq(Item)
  PROVE  /\ Queued \subseteq Item
         /\ queue' = queue => Queued' = Queued
         /\ queue' = <<>> => Queued' = {}
         /\ \A x \in Item : queue' = Append(queue, x) => Queued' = Queued \cup {x}
         /\ queue # <<>> /\ queue' = Tail(queue) => Queued' \subseteq Queued
         /\ queue # <<>> => Head(queue) \in Queued
         /\ queue = <<>> => Queued = {}
<1>1. ASSUME NEW x \in Item, queue' = Append(queue, x) PROVE Queued' = Queued \cup {x}
  <2>1. DOMAIN queue' = 1..(Len(queue) + 1) /\ DOMAIN queue = 1..Len(queue)
    BY <1>1
  <2>2. \A i \in 1..Len(queue) : queue'[i] = queue[i]
    BY <1>1
  <2>3. queue'[Len(queue) + 1] = x
    BY <1>1
  <2> QED BY <2>1, <2>2, <2>3 DEF Queued
<1>2. ASSUME queue # <<>>, queue' = Tail(queue) PROVE Queued' \subseteq Queued
  <2>1. \A i \in DOMAIN queue' : i + 1 \in DOMAIN queue /\ queue'[i] = queue[i + 1]
    BY <1>2
  <2> QED BY <2>1 DEF Queued
<1>3. ASSUME queue # <<>> PROVE Head(queue) \in Queued
  <2>1. 1 \in DOMAIN queue /\ Head(queue) = queue[1]
    BY <1>3
  <2> QED BY <2>1 DEF Queued
<1> QED BY <1>1, <1>2, <1>3 DEF Queued

LEMMA DrainStep ==
  ChanTypeOK /\ NoOrphanThread /\ DrainInv /\ [ChanNext]_chanVars => DrainInv'
<1> SUFFICES ASSUME ChanTypeOK, NoOrphanThread, DrainInv, [ChanNext]_chanVars
             PROVE  DrainInv'
  OBVIOUS
<1> USE DEF DrainInv, DrainedWhenJoined, Drained
<1>a. /\ pc \in [Thread -> PC] /\ queue \in Seq(Item) /\ running \in BOOLEAN
      /\ data \in [Worker -> Item \cup {NoItem}] /\ owner \in {"idle", "joining"}
      /\ threads \subseteq Worker /\ Worker \subseteq Thread /\ Consumer \subseteq Thread
      /\ Consumer \cap Worker = {} /\ firstStop \in BOOLEAN
  BY ThreadAssumption DEF ChanTypeOK, TypeOK, Thread
<1>b. ASSUME UNCHANGED <<running, accepted, owner, due, firstStop, threads, data>>,
             Queued' \subseteq Queued,
             \A w \in Worker : pc'[w] = pc[w] \/ (pc[w] # "work" /\ pc'[w] # "exit")
      PROVE  DrainInv'
  BY <1>b
<1>1. ASSUME NEW x \in Item, Enqueue(x), UNCHANGED cvars PROVE DrainInv'
  <2>1. Queued' = Queued \cup {x} /\ x \notin accepted /\ accepted' = accepted \cup {x}
    BY <1>1, <1>a, QueuedElements DEF Enqueue
  <2>2. \A w \in Worker : pc'[w] = pc[w] \/ (pc[w] = "wait" /\ pc'[w] = "woken")
    BY <1>1, <1>a DEF Enqueue, NotifyOne, Sleeping
  <2>3. UNCHANGED <<running, threads, owner, due, firstStop, data>>
    BY <1>1 DEF Enqueue, cvars
  <2> QED BY <2>1, <2>2, <2>3
<1>2. CASE (Dequeue \/ Clear) /\ UNCHANGED cvars
  <2>1. Queued' \subseteq Queued
    BY <1>2, <1>a, QueuedElements DEF Dequeue, Clear
  <2> QED BY <2>1, <1>2, <1>b DEF Dequeue, Clear, cvars
<1>3. ASSUME NEW t \in Thread, SpuriousWake(t), UNCHANGED cvars PROVE DrainInv'
  <2>1. Queued' = Queued
    BY <1>3, <1>a, QueuedElements DEF SpuriousWake, qvars
  <2>2. \A w \in Worker : pc'[w] = pc[w] \/ (pc[w] # "work" /\ pc'[w] # "exit")
    BY <1>3, <1>a DEF SpuriousWake
  <2> QED BY <2>1, <2>2, <1>3, <1>b DEF SpuriousWake, qvars, cvars
<1>4. ASSUME NEW t \in Consumer, BlockDequeueCall(t) \/ ConsumerStep(t), UNCHANGED cvars
      PROVE  DrainInv'
  <2>1. Queued' \subseteq Queued
    BY <1>4, <1>a, QueuedElements
    DEF BlockDequeueCall, ConsumerStep, BlockDequeueTake, BlockDequeueWait, BlockDequeueFail, qvars
  <2>2. \A w \in Worker : pc'[w] = pc[w]
    BY <1>4, <1>a
    DEF BlockDequeueCall, ConsumerStep, BlockDequeueTake, BlockDequeueWait, BlockDequeueFail
  <2>3. UNCHANGED <<running, accepted>>
    BY <1>4
    DEF BlockDequeueCall, ConsumerStep, BlockDequeueTake, BlockDequeueWait, BlockDequeueFail, qvars
  <2> QED BY <2>1, <2>2, <2>3, <1>4, <1>b DEF cvars
<1>5. CASE StartProcess
  <2>1. Queued' = Queued
    BY <1>5, <1>a, QueuedElements DEF StartProcess, qvars
  <2>2. \A w \in Worker : pc'[w] = pc[w] \/ (pc[w] = "idle" /\ pc'[w] = "ready")
    BY <1>5, <1>a DEF StartProcess
  <2>3. UNCHANGED <<running, accepted, owner, due, firstStop, data>> /\ owner = "idle"
    BY <1>5 DEF StartProcess, qvars
  <2> QED BY <2>1, <2>2, <2>3
<1>6. ASSUME NEW w \in Worker, WorkerTake(w) PROVE DrainInv'
  <2>1. Queued' \subseteq Queued /\ Head(queue) \in Queued
    BY <1>6, <1>a, QueuedElements DEF WorkerTake
  <2>2. /\ data' = [data EXCEPT ![w] = Head(queue)] /\ pc' = [pc EXCEPT ![w] = "work"]
        /\ UNCHANGED <<running, accepted, threads, owner, due, firstStop>>
    BY <1>6 DEF WorkerTake
  <2> QED BY <2>1, <2>2, <1>a
<1>7. ASSUME NEW w \in Worker, WorkerRest(w) PROVE DrainInv'
  <2>1. Queued' = {} /\ Queued = {}
    BY <1>7, <1>a, QueuedElements DEF WorkerRest, InnerLoopEnds, qvars
  <2>2. /\ data' = [data EXCEPT ![w] = NoItem]
        /\ pc' = [pc EXCEPT ![w] = IF running THEN "wait" ELSE "exit"]
        /\ UNCHANGED <<running, accepted, threads, owner, due, firstStop>>
    BY <1>7 DEF WorkerRest, qvars
  <2> QED BY <2>1, <2>2, <1>a, NoItemAssumption DEF ChanTypeOK
<1>8. CASE StopProcess
  <2>1. Queued' = Queued /\ accepted' = accepted /\ running' = FALSE
    BY <1>8, <1>a, QueuedElements DEF StopProcess, Stop
  <2>2. \A w \in Worker : pc'[w] = pc[w] \/ (pc[w] = "wait" /\ pc'[w] = "woken")
    BY <1>8, <1>a DEF StopProcess, Stop, NotifyAll, Sleeping
  <2>3. /\ owner' = "joining" /\ due' = (IF threads = {} THEN {} ELSE accepted)
        /\ firstStop' = running /\ UNCHANGED <<threads, data>>
    BY <1>8 DEF StopProcess
  <2> QED BY <2>1, <2>2, <2>3, <1>a
<1>9. CASE JoinThreads
  <2>1. Queued' = Queued
    BY <1>9, <1>a, QueuedElements DEF JoinThreads, qvars
  <2>2. /\ owner = "joining" /\ owner' = "idle" /\ \A w \in threads : pc[w] = "exit"
        /\ UNCHANGED <<running, accepted, due, firstStop, data>>
    BY <1>9 DEF JoinThreads, qvars
  <2>3. \A w \in Worker : pc[w] = (IF w \in threads THEN "exit" ELSE "idle") /\ pc'[w] = "idle"
    BY <1>9, <2>2, <1>a DEF JoinThreads, NoOrphanThread
  <2>4. \A w \in Worker : data[w] = NoItem
    BY <2>3
  <2>5. firstStop => Queued \cap due = {}
    BY <2>3, <2>2, <1>a
  <2>6. NoItem \notin due
    BY NoItemAssumption DEF ChanTypeOK
  <2> QED BY <2>1, <2>2, <2>3, <2>4, <2>5, <2>6
<1>10. CASE UNCHANGED chanVars
  BY <1>10, <1>b, <1>a, QueuedElements DEF chanVars, vars, cvars
<1> QED
  BY <1>1, <1>2, <1>3, <1>4, <1>5, <1>6, <1>7, <1>8, <1>9, <1>10
  DEF ChanNext, QueueNext, WorkerStep

(***************************************************************************)
(* The first StopProcess returns only when every item that was accepted    *)
(* before it has left the queue and its handler.                           *)
(***************************************************************************)
THEOREM FirstStopDrains == ChanSpec => []DrainedWhenJoined
<1>1. ChanInit => DrainInv
  BY NoItemAssumption
  DEF ChanInit, Init, DrainInv, DrainedWhenJoined, Queued, Thread
<1>2. DrainInv => DrainedWhenJoined
  BY DEF DrainInv
<1> QED BY <1>1, <1>2, TypeCorrect, ThreadsAreListed, DrainStep, PTL DEF ChanSpec
=============================================================================
