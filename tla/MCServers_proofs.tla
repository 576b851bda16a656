---------------------------- MODULE MCServers_proofs ----------------------------
(***************************************************************************)
(* Proofs about the RPC server and about the parts that MCServers puts     *)
(* side by side, for every value of the constants: the pools of the RPC,   *)
(* the TCP and the UDP server are bounded, and the sessions and executors  *)
(* keep what ServersHold says.  Each part has an inductive invariant of    *)
(* its own, as a behaviour is about one part.                              *)
(***************************************************************************)
EXTENDS MCServers, FiniteSetTheorems, SequenceLemmas, TLAPS

(***************************************************************************)
(* mgr_strand_ holds a handler at most once because Start and Stop test    *)
(* their flags: before Start no coroutine exists, and the stop handler is  *)
(* dispatched by the one call that cleared run_flag_.                      *)
(***************************************************************************)
OnStrand(name) == \E i \in DOMAIN strand : strand[i] = name

StrandInv ==
  /\ TypeOK
  /\ ~start => /\ acc = Coro("new", "none") /\ mgr = Coro("new", "none")
               /\ ~OnStrand("acc") /\ ~OnStrand("mgr")
  /\ stopDue => ~run
  /\ run \/ stopDue => ~OnStrand("stop")

\* What appending a handler that is not there yet, or removing the head, does.
LEMMA StrandOps ==
  ASSUME strand \in Seq({"acc", "mgr", "stop"}),
         \A i, j \in DOMAIN strand : strand[i] = strand[j] => i = j
  PROVE  /\ \A x \in {"acc", "mgr", "stop"} :
              ~OnStrand(x) /\ strand' = Append(strand, x) =>
                /\ strand' \in Seq({"acc", "mgr", "stop"})
                /\ \A i, j \in DOMAIN strand' : strand'[i] = strand'[j] => i = j
                /\ \A y : OnStrand(y)' <=> (OnStrand(y) \/ y = x)
         /\ strand # <<>> /\ strand' = Tail(strand) =>
                /\ strand' \in Seq({"acc", "mgr", "stop"})
                /\ \A i, j \in DOMAIN strand' : strand'[i] = strand'[j] => i = j
                /\ \A y : OnStrand(y)' => OnStrand(y)
         /\ strand' = strand => \A y : OnStrand(y)' <=> OnStrand(y)
<1>1. ASSUME NEW x \in {"acc", "mgr", "stop"}, ~OnStrand(x), strand' = Append(strand, x)
      PROVE  /\ strand' \in Seq({"acc", "mgr", "stop"})
             /\ \A i, j \in DOMAIN strand' : strand'[i] = strand'[j] => i = j
             /\ \A y : OnStrand(y)' <=> (OnStrand(y) \/ y = x)
  <2>1. /\ DOMAIN strand = 1..Len(strand) /\ DOMAIN strand' = 1..(Len(strand) + 1)
        /\ \A i \in 1..Len(strand) : strand'[i] = strand[i]
        /\ strand'[Len(strand) + 1] = x /\ Len(strand) \in Nat
    BY <1>1
  <2>2. \A i \in DOMAIN strand : strand[i] # x
    BY <1>1 DEF OnStrand
  <2>3. \A i, j \in DOMAIN strand' : strand'[i] = strand'[j] => i = j
    BY <2>1, <2>2
  <2>4. \A y : OnStrand(y)' <=> (OnStrand(y) \/ y = x)
    BY <2>1 DEF OnStrand
  <2> QED BY <1>1, <2>3, <2>4
<1>2. ASSUME strand # <<>>, strand' = Tail(strand)
      PROVE  /\ strand' \in Seq({"acc", "mgr", "stop"})
             /\ \A i, j \in DOMAIN strand' : strand'[i] = strand'[j] => i = j
             /\ \A y : OnStrand(y)' => OnStrand(y)
  <2>1. \A i \in DOMAIN strand' : i \in Nat /\ i + 1 \in DOMAIN strand /\ strand'[i] = strand[i + 1]
    BY <1>2
  <2>2. \A i, j \in DOMAIN strand' : strand'[i] = strand'[j] => i = j
    BY <2>1
  <2> QED BY <1>2, <2>1, <2>2 DEF OnStrand
<1> QED BY <1>1, <1>2 DEF OnStrand

\* The pool and the states of the sessions after the acceptor's resumption.
LEMMA ResumeTypes ==
  ASSUME TypeOK
  PROVE  PoolNow \subseteq Session /\ StNow \in [Session -> {"new", "held", "run", "dead"}]
BY DEF TypeOK, PoolNow, StNow, Held

LEMMA StrandStep == StrandInv /\ [Next]_vars => StrandInv'
<1> SUFFICES ASSUME StrandInv, [Next]_vars PROVE StrandInv'
  OBVIOUS
<1> USE DEF StrandInv, TypeOK, Coro, Op
<1>1. CASE Start
  <2>1. ~OnStrand("acc") /\ ~OnStrand("mgr")
    BY <1>1 DEF Start, MayStart
  <2>2. /\ strand' \in Seq({"acc", "mgr", "stop"})
        /\ \A i, j \in DOMAIN strand' : strand'[i] = strand'[j] => i = j
        /\ OnStrand("stop")' <=> OnStrand("stop")
    <3>1. strand' = strand \o <<"acc", "mgr">>
      BY <1>1 DEF Start
    <3>2. /\ Len(strand) \in Nat /\ DOMAIN strand = 1..Len(strand)
          /\ DOMAIN strand' = 1..(Len(strand) + 2)
          /\ \A i \in 1..Len(strand) : strand'[i] = strand[i]
          /\ strand'[Len(strand) + 1] = "acc" /\ strand'[Len(strand) + 2] = "mgr"
      BY <3>1
    <3>3. \A i \in DOMAIN strand : strand[i] # "acc" /\ strand[i] # "mgr"
      BY <2>1 DEF OnStrand
    <3>4. \A i, j \in DOMAIN strand' : strand'[i] = strand'[j] => i = j
      <4> SUFFICES ASSUME NEW i \in 1..(Len(strand) + 2), NEW j \in 1..(Len(strand) + 2),
                          strand'[i] = strand'[j]
                   PROVE  i = j
        BY <3>2
      <4>1. CASE i \in 1..Len(strand) /\ j \in 1..Len(strand)
        BY <4>1, <3>2
      <4>2. ASSUME NEW k \in 1..Len(strand) PROVE strand'[k] # "acc" /\ strand'[k] # "mgr"
        BY <3>2, <3>3
      <4>3. \A k \in 1..(Len(strand) + 2) :
               k \in 1..Len(strand) \/ k = Len(strand) + 1 \/ k = Len(strand) + 2
        BY SMTT(30), <3>2
      <4> QED BY <4>1, <4>2, <4>3, <3>2
    <3>5. OnStrand("stop")' <=> OnStrand("stop")
      BY <3>2 DEF OnStrand
    <3> QED BY <3>1, <3>4, <3>5
  <2>3. TypeOK'
    <3>1. acc' \in [at : {"new", "start", "sleep", "accept", "end"}, op : Op]
          /\ mgr' \in [at : {"new", "start", "wait", "end"}, op : Op]
      BY <1>1 DEF Start
    <3> QED BY <1>1, <2>2, <3>1 DEF Start
  <2> QED BY <1>1, <2>2, <2>3 DEF Start
<1>2. CASE StopCall
  BY <1>2, StrandOps DEF StopCall
<1>3. CASE DispatchStop
  <2>1. ~OnStrand("stop") /\ ~run
    BY <1>3 DEF DispatchStop
  <2> QED BY <1>3, <2>1, StrandOps DEF DispatchStop
<1>4. ASSUME NEW s \in Session, SessionDies(s) PROVE StrandInv'
  BY <1>4, StrandOps DEF SessionDies
<1>5. ASSUME NEW f \in Func, RegisterService(f) PROVE StrandInv'
  BY <1>5, StrandOps DEF RegisterService
<1>6. CASE Deliver("acc", acc) \/ Deliver("mgr", mgr)
  <2>1. CASE Deliver("acc", acc)
    <3>1. ~OnStrand("acc") /\ acc.op # "none"
      BY <2>1 DEF Deliver, OnStrand
    <3> QED BY <2>1, <3>1, StrandOps DEF Deliver
  <2>2. CASE Deliver("mgr", mgr)
    <3>1. ~OnStrand("mgr") /\ mgr.op # "none"
      BY <2>2 DEF Deliver, OnStrand
    <3> QED BY <2>2, <3>1, StrandOps DEF Deliver
  <2> QED BY <1>6, <2>1, <2>2
<1>7. CASE AcceptDone \/ AcceptorTimer \/ MgrTimer
  BY <1>7, StrandOps DEF AcceptDone, AcceptorTimer, MgrTimer, Awaits
<1>8. ASSUME NEW name \in {"acc", "mgr", "stop"}, Runs(name)
      PROVE  /\ strand' \in Seq({"acc", "mgr", "stop"})
             /\ \A i, j \in DOMAIN strand' : strand'[i] = strand'[j] => i = j
             /\ \A y : OnStrand(y)' => OnStrand(y)
             /\ OnStrand(name)
  <2>1. strand # <<>> /\ strand' = Tail(strand)
    BY <1>8 DEF Runs
  <2>2. 1 \in DOMAIN strand /\ strand[1] = name
    BY <1>8 DEF Runs
  <2> QED BY <2>1, <2>2, StrandOps DEF OnStrand
<1>9. CASE AcceptorSleeps
  <2>1. start /\ PoolNow \subseteq Session /\ StNow \in [Session -> {"new", "held", "run", "dead"}]
    BY <1>8, <1>9, ResumeTypes DEF AcceptorSleeps
  <2> QED BY <1>8, <1>9, <2>1 DEF AcceptorSleeps
<1>10. CASE AcceptorAccepts
  <2>1. start /\ PoolNow \subseteq Session /\ StNow \in [Session -> {"new", "held", "run", "dead"}]
    BY <1>8, <1>10, ResumeTypes DEF AcceptorAccepts
  <2> QED BY <1>8, <1>10, <2>1 DEF AcceptorAccepts
<1>11. CASE AcceptorExits
  <2>1. start /\ PoolNow \subseteq Session /\ StNow \in [Session -> {"new", "held", "run", "dead"}]
    BY <1>8, <1>11, ResumeTypes DEF AcceptorExits
  <2> QED BY <1>8, <1>11, <2>1 DEF AcceptorExits, Ended
<1>12. CASE MgrResumes
  BY <1>8, <1>12 DEF MgrResumes, Swept, Ended
<1>13. CASE StopHandler
  <2>1. ~run /\ ~stopDue
    BY <1>8, <1>13 DEF StopHandler
  <2>2. /\ Aborted(acc) \in [at : {"new", "start", "sleep", "accept", "end"}, op : Op]
        /\ Aborted(mgr) \in [at : {"new", "start", "wait", "end"}, op : Op]
        /\ ~start => Aborted(acc) = acc /\ Aborted(mgr) = mgr
    BY DEF Aborted
  <2> QED BY <1>8, <1>13, <2>1, <2>2 DEF StopHandler
<1>14. CASE UNCHANGED vars
  BY <1>14, StrandOps DEF vars
<1> QED
  BY <1>1, <1>2, <1>3, <1>4, <1>5, <1>6, <1>7, <1>9, <1>10, <1>11, <1>12, <1>13, <1>14
  DEF Next, Strand

LEMMA StrandInit == Init => StrandInv
<1> SUFFICES ASSUME Init PROVE StrandInv
  OBVIOUS
<1>1. strand \in Seq({"acc", "mgr", "stop"}) /\ DOMAIN strand = {}
  BY DEF Init
<1>2. acc \in [at : {"new", "start", "sleep", "accept", "end"}, op : Op]
      /\ mgr \in [at : {"new", "start", "wait", "end"}, op : Op]
  BY DEF Init, Coro, Op
<1> QED BY <1>1, <1>2 DEF Init, StrandInv, TypeOK, OnStrand

(***************************************************************************)
(* Type correctness, with the handlers of mgr_strand_ queued once.         *)
(***************************************************************************)
THEOREM TypeCorrect == Spec => []TypeOK
<1>1. StrandInv => TypeOK
  BY DEF StrandInv
<1> QED BY <1>1, StrandInit, StrandStep, PTL DEF Spec

-----------------------------------------------------------------------------
(***************************************************************************)
(* The bound of the pool.  PoolBounded alone is not inductive: a session   *)
(* enters the pool a step after the size was tested.  What holds meanwhile *)
(* is that there is room left while the acceptor accepts, that it holds    *)
(* one session then and none otherwise, and that the held one is not one   *)
(* of the pool, so that a stop handler in between leaves it held.          *)
(***************************************************************************)
PoolInv ==
  /\ PoolBounded
  /\ acc.at = "accept" => /\ Cardinality(pool) < MaxSession
                          /\ \E s \in Session : Held = {s}
  /\ acc.at # "accept" => Held = {}
  /\ \A s \in pool : st[s] \in {"run", "dead"}

LEMMA SubPool ==
  ASSUME NEW S \in SUBSET Session, NEW T \in SUBSET S
  PROVE  /\ Cardinality(S) \in Nat /\ Cardinality(T) \in Nat
         /\ Cardinality(T) <= Cardinality(S)
         /\ \A x \in Session : Cardinality(S \cup {x}) <= Cardinality(S) + 1
<1>1. IsFiniteSet(S) /\ IsFiniteSet(T)
  BY SessionAssumption, FS_Subset
<1>2. Cardinality(S) \in Nat /\ Cardinality(T) \in Nat
  BY <1>1, FS_CardinalityType
<1>3. Cardinality(T) <= Cardinality(S)
  BY <1>1, FS_Subset
<1>4. ASSUME NEW x \in Session PROVE Cardinality(S \cup {x}) <= Cardinality(S) + 1
  <2>1. Cardinality(S \cup {x}) = IF x \in S THEN Cardinality(S) ELSE Cardinality(S) + 1
    BY <1>1, FS_AddElement
  <2> QED BY <2>1, <1>2
<1> QED BY <1>2, <1>3, <1>4

\* The acceptor's resumption leaves a bounded pool of started sessions and
\* holds nothing.
LEMMA ResumeBounded ==
  ASSUME TypeOK, PoolInv
  PROVE  /\ PoolNow \subseteq Session /\ Cardinality(PoolNow) \in Nat
         /\ Cardinality(PoolNow) <= MaxSession
         /\ {s \in Session : StNow[s] = "held"} = {}
         /\ \A s \in PoolNow : StNow[s] \in {"run", "dead"}
<1>1. pool \in SUBSET Session /\ Held \in SUBSET Session /\ pool \in SUBSET pool
  BY DEF TypeOK, Held
<1>2. PoolNow \subseteq Session /\ Cardinality(PoolNow) \in Nat
  BY <1>1, SubPool DEF PoolNow
<1>3. Cardinality(PoolNow) <= MaxSession
  <2>1. CASE Accepted
    <3>1. acc.at = "accept"
      BY <2>1 DEF Accepted, Coro
    <3>2. PICK s \in Session : Held = {s}
      BY <3>1 DEF PoolInv
    <3>3. Cardinality(pool \cup {s}) <= Cardinality(pool) + 1 /\ Cardinality(pool) \in Nat
      BY <1>1, SubPool
    <3> QED BY <3>1, <3>2, <3>3, <2>1, <1>2, MaxSessionAssumption DEF PoolNow, PoolInv
  <2>2. CASE ~Accepted
    BY <2>2 DEF PoolNow, PoolInv, PoolBounded
  <2> QED BY <2>1, <2>2
<1>4. {s \in Session : StNow[s] = "held"} = {}
  BY DEF StNow, Held, TypeOK
<1>5. \A s \in PoolNow : StNow[s] \in {"run", "dead"}
  BY <1>1 DEF PoolNow, StNow, Held, PoolInv
<1> QED BY <1>2, <1>3, <1>4, <1>5

LEMMA PoolStep == StrandInv /\ TypeOK' /\ PoolInv /\ [Next]_vars => PoolInv'
<1> SUFFICES ASSUME StrandInv, TypeOK', PoolInv, [Next]_vars PROVE PoolInv'
  OBVIOUS
<1>a. /\ pool \in SUBSET Session /\ pool' \in SUBSET Session /\ MaxSession \in Nat
      /\ st \in [Session -> {"new", "held", "run", "dead"}] /\ TypeOK
  BY MaxSessionAssumption DEF StrandInv, TypeOK
<1>b. ASSUME pool' \subseteq pool, acc'.at = acc.at \/ {acc.at, acc'.at} \cap {"accept"} = {},
             Held' = Held, \A s \in pool : st'[s] = st[s] \/ st'[s] = "dead"
      PROVE  PoolInv'
  <2>1. /\ Cardinality(pool) \in Nat /\ Cardinality(pool') \in Nat
        /\ Cardinality(pool') <= Cardinality(pool)
    BY <1>a, <1>b, SubPool
  <2>2. PoolBounded'
    BY <1>a, <2>1 DEF PoolInv, PoolBounded
  <2>3. acc'.at = "accept" => Cardinality(pool') < MaxSession /\ \E s \in Session : Held' = {s}
    BY <1>a, <1>b, <2>1 DEF PoolInv
  <2>4. acc'.at # "accept" => Held' = {}
    BY <1>b DEF PoolInv
  <2>5. \A s \in pool' : st'[s] \in {"run", "dead"}
    BY <1>b DEF PoolInv
  <2> QED BY <2>2, <2>3, <2>4, <2>5 DEF PoolInv
<1>1. CASE Start
  <2>1. acc.at = "new" /\ acc'.at = "start"
    BY <1>1 DEF Start, MayStart, StrandInv, Coro
  <2> QED BY <1>1, <1>b, <2>1 DEF Start, Held
<1>2. CASE StopCall \/ DispatchStop
  BY <1>2, <1>b DEF StopCall, DispatchStop, Held
<1>3. CASE AcceptDone \/ AcceptorTimer \/ MgrTimer
  BY <1>3, <1>b DEF AcceptDone, AcceptorTimer, MgrTimer, Awaits, Coro, Held
<1>4. CASE Deliver("acc", acc) \/ Deliver("mgr", mgr)
  BY <1>4, <1>b DEF Deliver, Held
<1>5. ASSUME NEW s \in Session, SessionDies(s) PROVE PoolInv'
  <2>1. Held' = Held
    BY <1>5, <1>a DEF SessionDies, Held
  <2>2. \A x \in pool : st'[x] = st[x] \/ st'[x] = "dead"
    BY <1>5, <1>a DEF SessionDies
  <2> QED BY <1>5, <2>1, <2>2, <1>b DEF SessionDies
<1>6. ASSUME NEW f \in Func, RegisterService(f) PROVE PoolInv'
  BY <1>6, <1>b DEF RegisterService, Held
<1>7. CASE AcceptorSleeps \/ AcceptorExits
  <2>1. /\ pool' = PoolNow /\ st' = StNow /\ acc'.at # "accept"
    BY <1>7 DEF AcceptorSleeps, AcceptorExits, Coro, Ended
  <2>2. Held' = {}
    BY <2>1, <1>a, ResumeBounded DEF Held
  <2> QED BY <2>1, <2>2, <1>a, ResumeBounded DEF PoolInv, PoolBounded
<1>8. CASE AcceptorAccepts
  <2>1. PICK s \in Session : Free(s) /\ st' = [StNow EXCEPT ![s] = "held"]
    BY <1>8 DEF AcceptorAccepts
  <2>2. Held' = {s}
    BY <2>1, <1>a, ResumeBounded, ResumeTypes DEF Held
  <2>3. pool' = PoolNow /\ Cardinality(PoolNow) < MaxSession /\ acc'.at = "accept"
    BY <1>8, <1>a, ResumeBounded DEF AcceptorAccepts, Full, Coro
  <2>4. s \notin PoolNow
    BY <2>1, <1>a, ResumeBounded DEF Free
  <2>5. \A x \in pool' : st'[x] \in {"run", "dead"}
    BY <2>1, <2>3, <2>4, <1>a, ResumeBounded, ResumeTypes
  <2> QED BY <2>2, <2>3, <2>5, <1>a, ResumeBounded DEF PoolInv, PoolBounded
<1>9. CASE MgrResumes
  <2>1. pool' \subseteq pool
    BY <1>9 DEF MgrResumes, Swept
  <2> QED BY <1>9, <2>1, <1>b DEF MgrResumes, Held
<1>10. CASE StopHandler
  <2>1. acc'.at = acc.at
    BY <1>10, <1>a DEF StopHandler, Aborted, TypeOK, Op
  <2>2. Held' = Held
    BY <1>10, <1>a DEF StopHandler, Held, PoolInv
  <2>3. \A s \in pool : st'[s] = "dead"
    BY <1>10, <1>a DEF StopHandler
  <2> QED BY <2>1, <2>2, <2>3, <1>10, <1>b DEF StopHandler
<1>11. CASE UNCHANGED vars
  BY <1>11, <1>b DEF vars, Held
<1> QED
  BY <1>1, <1>2, <1>3, <1>4, <1>5, <1>6, <1>7, <1>8, <1>9, <1>10, <1>11 DEF Next, Strand

(***************************************************************************)
(* max_session_num bounds the pool, for every number of sessions and every *)
(* bound (line 145 tests the size, line 155 adds the session after the     *)
(* accept).                                                                *)
(***************************************************************************)
THEOREM PoolIsBounded == Spec => []PoolBounded
<1>1. Init => StrandInv /\ PoolInv
  <2>1. Init => Cardinality(pool) = 0
    BY FS_EmptySet DEF Init
  <2>2. Init => PoolInv
    BY <2>1, MaxSessionAssumption DEF Init, PoolInv, PoolBounded, Held, Coro
  <2> QED BY <2>2, StrandInit
<1>2. StrandInv /\ PoolInv /\ [Next]_vars => (StrandInv /\ PoolInv)'
  BY StrandStep, PoolStep DEF StrandInv
<1>3. PoolInv => PoolBounded
  BY DEF PoolInv
<1> QED BY <1>1, <1>2, <1>3, PTL DEF Spec

-----------------------------------------------------------------------------
(***************************************************************************)
(* Until the stop handler runs every running session is in the pool: the   *)
(* acceptor starts a session and adds it in one step of mgr_strand_, and   *)
(* the sweep removes stopped sessions only.                                *)
(***************************************************************************)
LEMMA PooledStep == TypeOK /\ RunningArePooled /\ [Next]_vars => RunningArePooled'
<1> SUFFICES ASSUME TypeOK, RunningArePooled, [Next]_vars PROVE RunningArePooled'
  OBVIOUS
<1> USE DEF RunningArePooled
<1>a. \A s \in Session : StNow[s] = "run" /\ open => s \in PoolNow
  BY DEF StNow, PoolNow, Held
<1>1. CASE Start \/ StopCall \/ DispatchStop
  BY <1>1 DEF Start, StopCall, DispatchStop
<1>2. CASE AcceptDone \/ AcceptorTimer \/ MgrTimer
  BY <1>2 DEF AcceptDone, AcceptorTimer, MgrTimer
<1>3. CASE Deliver("acc", acc) \/ Deliver("mgr", mgr)
  BY <1>3 DEF Deliver
<1>4. ASSUME NEW s \in Session, SessionDies(s) PROVE RunningArePooled'
  BY <1>4 DEF SessionDies, TypeOK
<1>5. ASSUME NEW f \in Func, RegisterService(f) PROVE RunningArePooled'
  BY <1>5 DEF RegisterService
<1>6. CASE AcceptorSleeps \/ AcceptorExits
  BY <1>6, <1>a DEF AcceptorSleeps, AcceptorExits
<1>7. CASE AcceptorAccepts
  BY <1>7, <1>a, ResumeTypes DEF AcceptorAccepts
<1>8. CASE MgrResumes
  BY <1>8 DEF MgrResumes, Swept
<1>9. CASE StopHandler
  BY <1>9 DEF StopHandler
<1>10. CASE UNCHANGED vars
  BY <1>10 DEF vars
<1> QED
  BY <1>1, <1>2, <1>3, <1>4, <1>5, <1>6, <1>7, <1>8, <1>9, <1>10 DEF Next, Strand

THEOREM RunningSessionsPooled == Spec => []RunningArePooled
<1>1. Init => RunningArePooled
  BY DEF Init, RunningArePooled
<1> QED BY <1>1, PooledStep, TypeCorrect, PTL DEF Spec

-----------------------------------------------------------------------------
(***************************************************************************)
(* The TCP server.  The acceptor holds the one session that is not in the  *)
(* map yet, and has seen room in it: the sweep and the stop handler only   *)
(* make more.                                                              *)
(***************************************************************************)
CsTypes ==
  /\ nst \in [TcpSession -> {"none", "held", "run", "dead"}]
  /\ npool \in [Endpoint -> TcpSession \cup {NoSession}]
  /\ ep = [s \in TcpSession |-> ep[s]]
  /\ missed \subseteq TcpSession
  /\ co = [c \in {"acc", "mgr"} |-> co[c]]
  /\ ~nstart => co["acc"] = Cs!New

\* The acceptor holds a session while it accepts, and at no other time.
CsHeld ==
  /\ \A s \in TcpSession : nst[s] = "held" => co["acc"].at = "accept"
  /\ \A s, t \in TcpSession : nst[s] = "held" /\ nst[t] = "held" => s = t
  /\ co["acc"].at = "accept" => /\ \E s \in TcpSession : nst[s] = "held"
                                /\ Cardinality(Cs!Pooled) < MaxSession
  /\ co["acc"] = Cs!Coro("accept", "ok") => ep[Cs!Held] \in Endpoint

CsFiled ==
  /\ Cardinality(Cs!Pooled) <= MaxSession
  /\ \A e \in Endpoint : npool[e] # NoSession =>
       ep[npool[e]] = e /\ nst[npool[e]] \in {"run", "dead"} /\ npool[e] \notin missed
  /\ \A s \in missed : nst[s] = "run"
  /\ nopen => \A s \in TcpSession : nst[s] = "run" => s \in Cs!Pooled \cup missed

CsInv == CsTypes /\ CsHeld /\ CsFiled

LEMMA CsCardinality == \A S : Cs!Cardinality(S) = Cardinality(S)
BY Zenon DEF Cs!Cardinality, Cardinality

LEMMA CsInit == Cs!Init => CsInv
<1> SUFFICES ASSUME Cs!Init PROVE CsInv
  OBVIOUS
<1>1. Cs!Pooled = {} /\ Cardinality(Cs!Pooled) = 0
  BY FS_EmptySet DEF Cs!Init, Cs!Pooled
<1> QED BY <1>1, MaxSessionAssumption DEF Cs!Init, CsInv, CsTypes, CsHeld, CsFiled, Cs!New, Cs!Coro

\* Fewer sessions in the map are fewer.
LEMMA CsFewer ==
  ASSUME CsTypes, NEW S, S \subseteq Cs!Pooled
  PROVE  /\ Cs!Pooled \subseteq TcpSession /\ IsFiniteSet(Cs!Pooled)
         /\ Cardinality(Cs!Pooled) \in Nat
         /\ Cardinality(S) \in Nat /\ Cardinality(S) <= Cardinality(Cs!Pooled)
<1>1. Cs!Pooled \subseteq TcpSession
  BY DEF CsTypes, Cs!Pooled
<1>4. IsFiniteSet(Cs!Pooled)
  BY <1>1, TcpSessionAssumption, FS_Subset
<1> QED BY <1>1, <1>4, FS_Subset, FS_CardinalityType

\* Only what the acceptor does as it resumes can fill the map or take a session.
LEMMA CsStep ==
  ASSUME CsInv, Cs!Next
  PROVE  CsInv'
<1>0. CsTypes /\ CsHeld /\ CsFiled /\ NoSession \notin TcpSession
  BY TcpSessionAssumption DEF CsInv
<1>m. MaxSession \in Nat /\ Cs!Pooled \subseteq TcpSession /\ Cardinality(Cs!Pooled) \in Nat
  BY <1>0, CsFewer, MaxSessionAssumption
<1>c. \A c, at, op : Cs!Coro(at, op).at = at /\ Cs!Coro(at, op).op = op
  BY DEF Cs!Coro
<1>1. CASE Cs!Start
  <2>1. Cs!Pooled' = Cs!Pooled /\ Cs!Held' = Cs!Held
    BY <1>1 DEF Cs!Start, Cs!Pooled, Cs!Held
  <2>2. co = [c \in {"acc", "mgr"} |-> co[c]] /\ co["acc"] = Cs!New /\ co' = [c \in DOMAIN co |-> Cs!Spawned]
    BY <1>0, <1>1 DEF Cs!Start, CsTypes
  <2>3. co["acc"].at = "new" /\ co'["acc"].at = "start" /\ co' = [c \in {"acc", "mgr"} |-> co'[c]]
    BY <2>2 DEF Cs!New, Cs!Spawned, Cs!Coro
  <2>4. CsTypes' /\ CsFiled'
    BY <1>0, <1>1, <2>1, <2>3 DEF Cs!Start, CsTypes, CsFiled
  <2>5. CsHeld'
    BY <1>0, <1>1, <2>3 DEF Cs!Start, CsHeld, Cs!Coro
  <2> QED BY <2>4, <2>5 DEF CsInv
<1>2. CASE Cs!StopCall
  <2>1. Cs!Pooled' = Cs!Pooled /\ Cs!Held' = Cs!Held
    BY <1>2 DEF Cs!StopCall, Cs!Pooled, Cs!Held
  <2> QED BY <1>0, <1>2, <2>1 DEF Cs!StopCall, CsInv, CsTypes, CsHeld, CsFiled
<1>3. CASE Cs!StopHandler
  <2>1. Cs!Pooled' = {} /\ Cardinality({}) = 0
    BY <1>3, FS_EmptySet DEF Cs!StopHandler, Cs!Pooled
  <2>2. /\ co' = [c \in {"acc", "mgr"} |-> co'[c]]
        /\ co'["acc"].at = co["acc"].at
        /\ co["acc"].op # "none" => co'["acc"] = co["acc"]
        /\ co["acc"] = Cs!New => co'["acc"] = co["acc"]
        /\ co'["acc"].op = "ok" => co["acc"].op = "ok"
    BY <1>0, <1>3 DEF Cs!StopHandler, CsTypes, Cs!Cancelled, Cs!New, Cs!Coro
  <2>3. CsTypes'
    BY <1>0, <1>3, <2>2 DEF Cs!StopHandler, CsTypes
  <2>4. CsFiled'
    <3>1. ~nopen' /\ npool' = [e \in Endpoint |-> NoSession] /\ missed' = missed
      BY <1>3 DEF Cs!StopHandler
    <3>2. \A s \in missed : nst'[s] = "run"
      <4>1. \A s \in missed : s \notin Cs!Pooled
        BY <1>0 DEF CsFiled, CsTypes, Cs!Pooled
      <4> QED BY <1>0, <1>3, <4>1 DEF CsFiled, CsTypes, Cs!StopHandler
    <3> QED BY <1>m, <2>1, <3>1, <3>2 DEF CsFiled
  <2>5. \A s \in TcpSession : nst'[s] = "held" <=> nst[s] = "held"
    <3>1. \A s \in TcpSession : nst[s] = "held" => s \notin Cs!Pooled
      BY <1>0 DEF CsFiled, CsTypes, Cs!Pooled
    <3> QED BY <1>3, <3>1 DEF Cs!StopHandler
  <2>6. co["acc"] = Cs!Coro("accept", "ok") => ep'[Cs!Held'] \in Endpoint
    <3> SUFFICES ASSUME co["acc"] = Cs!Coro("accept", "ok") PROVE ep'[Cs!Held'] \in Endpoint
      OBVIOUS
    <3>1. PICK h \in TcpSession : nst[h] = "held"
      BY <1>0, <1>c DEF CsHeld
    <3>2. Cs!Held = h /\ Cs!Held' = h
      BY <1>0, <2>5, <3>1 DEF CsHeld, Cs!Held
    <3>3. h \notin Cs!Pooled
      BY <1>0, <3>1 DEF CsFiled, CsTypes, Cs!Pooled
    <3>4. ep'[h] = ep[h]
      BY <1>3, <3>1, <3>3 DEF Cs!StopHandler
    <3> QED BY <1>0, <3>2, <3>4 DEF CsHeld
  <2>7. co'["acc"] = Cs!Coro("accept", "ok") => co["acc"] = Cs!Coro("accept", "ok")
    BY <2>2 DEF Cs!Coro
  <2>8. Cardinality(Cs!Pooled') < MaxSession
    BY <2>1, MaxSessionAssumption
  <2>9. CsHeld'
    BY <1>0, <2>2, <2>5, <2>6, <2>7, <2>8 DEF CsHeld
  <2> QED BY <2>3, <2>4, <2>9 DEF CsInv
<1>4. CASE Cs!Accepted
  <2>0. co["acc"] = Cs!Coro("accept", "ok") /\ co["acc"].at = "accept"
    BY <1>4, <1>c DEF Cs!Accepted
  <2>1. PICK h \in TcpSession : nst[h] = "held"
    BY <1>0, <2>0 DEF CsHeld
  <2>2. /\ Cs!Held = h /\ ep[h] \in Endpoint
        /\ \A s \in TcpSession : nst[s] = "held" => s = h
    BY <1>0, <2>0, <2>1 DEF CsHeld, Cs!Held
  <2>3. /\ co' = [co EXCEPT !["acc"] = Cs!Coro("loop", "ok")]
        /\ nst' = [nst EXCEPT ![h] = "run"]
        /\ \/ npool[ep[h]] = NoSession /\ npool' = [npool EXCEPT ![ep[h]] = h] /\ npool' # npool /\ missed' = missed
           \/ npool' = npool /\ missed' = missed \cup {h}
        /\ UNCHANGED <<nstart, nopen, ep>>
    <3>1. npool[ep[h]] = NoSession => [npool EXCEPT ![ep[h]] = h] # npool
      BY <1>0, <2>2 DEF CsTypes
    <3> QED BY <1>4, <2>2, <3>1 DEF Cs!Accepted
  <2>4. h \notin Cs!Pooled /\ h \notin missed
    BY <1>0, <2>1 DEF CsFiled, CsTypes, Cs!Pooled
  <2>5. CsTypes'
    <3>1. nstart
      BY <1>0, <2>0, <1>c DEF CsTypes, Cs!New
    <3> QED BY <1>0, <2>2, <2>3, <3>1 DEF CsTypes
  <2>6. CsHeld'
    <3>1. \A s \in TcpSession : nst'[s] # "held"
      BY <1>0, <2>2, <2>3 DEF CsTypes
    <3>2. co'["acc"].at = "loop"
      BY <1>0, <1>c, <2>3 DEF CsTypes
    <3> QED BY <1>c, <3>1, <3>2 DEF CsHeld
  <2>7. Cs!Pooled' \subseteq Cs!Pooled \cup {h}
    BY <1>0, <2>2, <2>3 DEF CsTypes, Cs!Pooled
  <2>8. Cardinality(Cs!Pooled') <= MaxSession
    <3>1. IsFiniteSet(Cs!Pooled)
      BY <1>0, CsFewer
    <3>2. IsFiniteSet(Cs!Pooled \cup {h}) /\ Cardinality(Cs!Pooled \cup {h}) <= Cardinality(Cs!Pooled) + 1
      <4>1. Cardinality(Cs!Pooled \cup {h}) = Cardinality(Cs!Pooled) + 1
        BY <2>4, <3>1, FS_AddElement
      <4> QED BY <1>m, <3>1, <4>1, FS_AddElement
    <3>3. Cardinality(Cs!Pooled \cup {h}) \in Nat /\ Cardinality(Cs!Pooled') \in Nat
          /\ Cardinality(Cs!Pooled') <= Cardinality(Cs!Pooled \cup {h})
      BY <2>7, <3>2, FS_Subset, FS_CardinalityType
    <3>4. Cardinality(Cs!Pooled) < MaxSession
      BY <1>0, <2>0 DEF CsHeld
    <3> QED BY <1>m, <3>2, <3>3, <3>4
  <2>9. CsFiled'
    <3>1. Cs!Pooled \subseteq Cs!Pooled'
      BY <1>0, <2>2, <2>3 DEF CsTypes, Cs!Pooled
    <3>2. missed' = missed => h \in Cs!Pooled'
      BY <1>0, <2>2, <2>3, <2>4 DEF CsTypes, Cs!Pooled
    <3>3. \A e \in Endpoint : npool'[e] # NoSession =>
             ep'[npool'[e]] = e /\ nst'[npool'[e]] \in {"run", "dead"} /\ npool'[e] \notin missed'
      <4> SUFFICES ASSUME NEW e \in Endpoint, npool'[e] # NoSession
                   PROVE  ep'[npool'[e]] = e /\ nst'[npool'[e]] \in {"run", "dead"} /\ npool'[e] \notin missed'
        OBVIOUS
      <4>1. CASE npool'[e] = npool[e]
        <5>1. npool[e] \in TcpSession /\ npool[e] \in Cs!Pooled /\ npool[e] # h
          BY <1>0, <2>4, <4>1 DEF CsTypes, Cs!Pooled
        <5> QED BY <1>0, <2>3, <4>1, <5>1 DEF CsFiled, CsTypes
      <4>2. CASE npool'[e] # npool[e]
        <5>1. e = ep[h] /\ npool'[e] = h /\ missed' = missed
          BY <1>0, <2>2, <2>3, <4>2 DEF CsTypes
        <5> QED BY <1>0, <2>3, <2>4, <5>1 DEF CsTypes
      <4> QED BY <4>1, <4>2
    <3>4. /\ \A s \in missed' : nst'[s] = "run"
          /\ nopen' => \A s \in TcpSession : nst'[s] = "run" => s \in Cs!Pooled' \cup missed'
      BY <1>0, <2>3, <2>4, <3>1, <3>2 DEF CsFiled, CsTypes
    <3> QED BY <2>8, <3>3, <3>4 DEF CsFiled
  <2> QED BY <2>5, <2>6, <2>9 DEF CsInv
<1>5. CASE Cs!AcceptFailed
  <2>0. co["acc"] = Cs!Coro("accept", "error") /\ co["acc"].at = "accept"
    BY <1>5, <1>c DEF Cs!AcceptFailed
  <2>1. PICK h \in TcpSession : nst[h] = "held"
    BY <1>0, <2>0 DEF CsHeld
  <2>2. Cs!Held = h /\ \A s \in TcpSession : nst[s] = "held" => s = h
    BY <1>0, <2>0, <2>1 DEF CsHeld, Cs!Held
  <2>3. /\ co' = [co EXCEPT !["acc"] = Cs!Coro("loop", "ok")] /\ nst' = [nst EXCEPT ![h] = "none"]
        /\ UNCHANGED <<nstart, nopen, npool, ep, missed>> /\ Cs!Pooled' = Cs!Pooled
    BY <1>5, <2>2 DEF Cs!AcceptFailed, Cs!Pooled
  <2>4. h \notin Cs!Pooled /\ h \notin missed
    BY <1>0, <2>1 DEF CsFiled, CsTypes, Cs!Pooled
  <2>5. CsTypes'
    <3>1. nstart
      BY <1>0, <2>0, <1>c DEF CsTypes, Cs!New
    <3> QED BY <1>0, <2>3, <3>1 DEF CsTypes
  <2>6. CsHeld'
    <3>1. \A s \in TcpSession : nst'[s] # "held"
      BY <1>0, <2>2, <2>3 DEF CsTypes
    <3>2. co'["acc"].at = "loop"
      BY <1>0, <1>c, <2>3 DEF CsTypes
    <3> QED BY <1>c, <3>1, <3>2 DEF CsHeld
  <2>7. CsFiled'
    <3>1. \A e \in Endpoint : npool[e] # NoSession => npool[e] \in TcpSession /\ npool[e] # h
      BY <1>0, <2>4 DEF CsTypes, Cs!Pooled
    <3> QED BY <1>0, <2>3, <2>4, <3>1 DEF CsFiled, CsTypes
  <2> QED BY <2>5, <2>6, <2>7 DEF CsInv
<1>6. CASE Cs!AcceptorLoops
  <2>0. co["acc"].at # "accept" /\ co["acc"].op # "none" /\ UNCHANGED <<nstart, nopen, npool, ep, missed>>
        /\ Cs!Pooled' = Cs!Pooled
    BY <1>6 DEF Cs!AcceptorLoops, Cs!Resumes, Cs!Pooled
  <2>n. nstart
    BY <1>0, <2>0, <1>c DEF CsTypes, Cs!New
  <2>h. \A s \in TcpSession : nst[s] # "held"
    BY <1>0, <2>0 DEF CsHeld
  <2>1. CASE co' = Cs!Goes(co, "acc", "accept")
    <3>1. PICK h \in TcpSession : nst[h] = "none" /\ nst' = [nst EXCEPT ![h] = "held"]
      BY <1>0, <1>6, <1>c, <2>1 DEF Cs!AcceptorLoops, Cs!Goes, Cs!Suspended, Cs!Ended, CsTypes
    <3>2. ~Cs!Full
      BY <1>0, <1>6, <1>c, <2>1 DEF Cs!AcceptorLoops, Cs!Goes, Cs!Suspended, Cs!Ended, CsTypes
    <3>3. Cardinality(Cs!Pooled) < MaxSession
      BY <1>m, <3>2, CsCardinality DEF Cs!Full
    <3>4. co'["acc"] = Cs!Coro("accept", "none") /\ co' = [c \in {"acc", "mgr"} |-> co'[c]]
      BY <1>0, <2>1 DEF Cs!Goes, Cs!Suspended, CsTypes
    <3>5. CsTypes'
      BY <1>0, <2>0, <2>n, <3>1, <3>4 DEF CsTypes
    <3>6. CsHeld'
      BY <1>0, <1>c, <2>0, <2>h, <3>1, <3>3, <3>4 DEF CsHeld, CsTypes
    <3>7. CsFiled'
      <4>1. h \notin missed /\ \A e \in Endpoint : npool[e] # NoSession => npool[e] \in TcpSession /\ npool[e] # h
        BY <1>0, <3>1 DEF CsTypes, CsFiled
      <4> QED BY <1>0, <2>0, <3>1, <4>1 DEF CsFiled, CsTypes
    <3> QED BY <3>5, <3>6, <3>7 DEF CsInv
  <2>2. CASE co' # Cs!Goes(co, "acc", "accept")
    <3>1. nst' = nst /\ (co' = Cs!Goes(co, "acc", "sleep") \/ co' = [co EXCEPT !["acc"] = Cs!Ended])
      BY <1>6, <2>2 DEF Cs!AcceptorLoops
    <3>2. co'["acc"].at # "accept" /\ co' = [c \in {"acc", "mgr"} |-> co'[c]]
      BY <1>0, <1>c, <3>1 DEF Cs!Goes, Cs!Suspended, Cs!Ended, CsTypes
    <3>3. CsTypes'
      BY <1>0, <2>0, <2>n, <3>1, <3>2 DEF CsTypes
    <3>4. CsHeld'
      BY <1>c, <2>h, <3>1, <3>2 DEF CsHeld
    <3>5. CsFiled'
      BY <1>0, <2>0, <3>1 DEF CsFiled
    <3> QED BY <3>3, <3>4, <3>5 DEF CsInv
  <2> QED BY <2>1, <2>2
<1>7. CASE Cs!MgrResumes
  <2>0. UNCHANGED <<nstart, nopen, missed>> /\ Cs!Swept \subseteq Cs!Pooled
        /\ \A s \in Cs!Swept : nst[s] = "dead"
    BY <1>7 DEF Cs!MgrResumes, Cs!Swept
  <2>1. /\ npool' = [e \in Endpoint |-> IF npool[e] \in Cs!Swept THEN NoSession ELSE npool[e]]
        /\ nst' = [s \in TcpSession |-> IF s \in Cs!Swept THEN "none" ELSE nst[s]]
        /\ ep' = [s \in TcpSession |-> IF s \in Cs!Swept THEN Cs!Unknown ELSE ep[s]]
    BY <1>7 DEF Cs!MgrResumes
  <2>2. co'["acc"] = co["acc"] /\ co' = [c \in {"acc", "mgr"} |-> co'[c]]
    BY <1>0, <1>7 DEF Cs!MgrResumes, Cs!Goes, CsTypes
  <2>3. Cs!Pooled' \subseteq Cs!Pooled
    BY <1>0, <2>1 DEF CsTypes, Cs!Pooled
  <2>4. Cardinality(Cs!Pooled') \in Nat /\ Cardinality(Cs!Pooled') <= Cardinality(Cs!Pooled)
    BY <1>0, <2>3, CsFewer
  <2>5. CsTypes'
    BY <1>0, <2>0, <2>1, <2>2 DEF CsTypes
  <2>6. CsHeld'
    <3>1. \A s \in TcpSession : nst'[s] = "held" <=> nst[s] = "held"
      BY <2>0, <2>1
    <3>2. co["acc"] = Cs!Coro("accept", "ok") => ep'[Cs!Held'] \in Endpoint
      <4> SUFFICES ASSUME co["acc"] = Cs!Coro("accept", "ok") PROVE ep'[Cs!Held'] \in Endpoint
        OBVIOUS
      <4>1. PICK h \in TcpSession : nst[h] = "held"
        BY <1>0, <1>c DEF CsHeld
      <4>2. Cs!Held = h /\ Cs!Held' = h
        BY <1>0, <3>1, <4>1 DEF CsHeld, Cs!Held
      <4> QED BY <1>0, <2>0, <2>1, <4>1, <4>2 DEF CsHeld
    <3>3. co["acc"].at = "accept" => Cardinality(Cs!Pooled') < MaxSession
      BY <1>0, <1>m, <2>4 DEF CsHeld
    <3> QED BY <1>0, <2>2, <3>1, <3>2, <3>3 DEF CsHeld
  <2>7. CsFiled'
    <3>1. Cardinality(Cs!Pooled') <= MaxSession
      BY <1>0, <1>m, <2>4 DEF CsFiled
    <3>2. \A e \in Endpoint : npool'[e] # NoSession =>
            ep'[npool'[e]] = e /\ nst'[npool'[e]] \in {"run", "dead"} /\ npool'[e] \notin missed'
      BY <1>0, <2>0, <2>1 DEF CsFiled, CsTypes
    <3>3. \A s \in missed' : nst'[s] = "run"
      BY <1>0, <2>0, <2>1 DEF CsFiled, CsTypes
    <3>4. nopen' => \A s \in TcpSession : nst'[s] = "run" => s \in Cs!Pooled' \cup missed'
      <4> SUFFICES ASSUME nopen, NEW s \in TcpSession, nst'[s] = "run", s \notin missed PROVE s \in Cs!Pooled'
        BY <2>0
      <4>1. nst[s] = "run" /\ s \notin Cs!Swept
        BY <2>1
      <4>2. PICK e \in Endpoint : npool[e] = s
        BY <1>0, <4>1 DEF CsFiled, Cs!Pooled
      <4>3. npool'[e] = s
        BY <2>1, <4>1, <4>2
      <4> QED BY <1>0, <4>3 DEF Cs!Pooled
    <3> QED BY <3>1, <3>2, <3>3, <3>4 DEF CsFiled
  <2> QED BY <2>5, <2>6, <2>7 DEF CsInv
<1>8. CASE Cs!AcceptDone
  <2>0. co["acc"] = Cs!Coro("accept", "none") /\ co["acc"].at = "accept" /\ nstart
    BY <1>0, <1>8, <1>c DEF Cs!AcceptDone, Cs!Awaits, Cs!Suspended, CsTypes, Cs!New
  <2>1. PICK h \in TcpSession : nst[h] = "held"
    BY <1>0, <2>0 DEF CsHeld
  <2>2. Cs!Held = h /\ \A s \in TcpSession : nst[s] = "held" => s = h
    BY <1>0, <2>0, <2>1 DEF CsHeld, Cs!Held
  <2>3. /\ UNCHANGED <<nstart, nopen, npool, nst, missed>> /\ Cs!Pooled' = Cs!Pooled /\ Cs!Held' = h
        /\ \/ \E e \in Endpoint : ep' = [ep EXCEPT ![h] = e] /\ co' = [co EXCEPT !["acc"].op = "ok"]
           \/ ep' = ep /\ co' = [co EXCEPT !["acc"].op = "error"]
    BY <1>8, <2>2 DEF Cs!AcceptDone, Cs!Pooled, Cs!Held
  <2>4. /\ co' = [c \in {"acc", "mgr"} |-> co'[c]] /\ co'["acc"].at = "accept"
        /\ co'["acc"].op = "ok" => ep'[h] \in Endpoint
        /\ ep' = [s \in TcpSession |-> ep'[s]]
        /\ \A s \in TcpSession : s # h => ep'[s] = ep[s]
    BY <1>0, <1>c, <2>0, <2>3 DEF CsTypes, Cs!Coro
  <2>5. CsTypes'
    BY <1>0, <2>0, <2>3, <2>4 DEF CsTypes
  <2>6. CsHeld'
    BY <1>0, <1>c, <2>0, <2>3, <2>4 DEF CsHeld
  <2>7. CsFiled'
    <3>1. \A e \in Endpoint : npool[e] # NoSession => npool[e] \in TcpSession /\ npool[e] # h
      BY <1>0, <2>1 DEF CsTypes, CsFiled
    <3> QED BY <1>0, <2>3, <2>4, <3>1 DEF CsFiled
  <2> QED BY <2>5, <2>6, <2>7 DEF CsInv
<1>9. CASE Cs!Fires("acc", "sleep") \/ Cs!Fires("mgr", "wait")
  <2>1. UNCHANGED <<nstart, nopen, npool, nst, ep, missed>> /\ Cs!Pooled' = Cs!Pooled /\ Cs!Held' = Cs!Held
    BY <1>9 DEF Cs!Fires, Cs!Pooled, Cs!Held
  <2>2. co' = [c \in {"acc", "mgr"} |-> co'[c]]
        /\ (co'["acc"] = co["acc"] \/ (co["acc"].at = "sleep" /\ co'["acc"].at = "sleep"))
    BY <1>0, <1>9, <1>c DEF Cs!Fires, Cs!Awaits, Cs!Suspended, CsTypes, Cs!Coro
  <2>3. CsTypes'
    BY <1>0, <1>c, <2>1, <2>2 DEF CsTypes, Cs!New
  <2>4. CsHeld'
    BY <1>0, <1>c, <2>1, <2>2 DEF CsHeld
  <2>5. CsFiled'
    BY <1>0, <2>1 DEF CsFiled
  <2> QED BY <2>3, <2>4, <2>5 DEF CsInv
<1>10. CASE Cs!SessionDies
  <2>1. PICK d \in TcpSession :
          /\ nst[d] = "run"
          /\ nst' = [nst EXCEPT ![d] = IF d \in missed THEN "none" ELSE "dead"]
          /\ ep' = [ep EXCEPT ![d] = IF d \in missed THEN Cs!Unknown ELSE @]
          /\ missed' = missed \ {d}
    BY <1>10 DEF Cs!SessionDies
  <2>2. UNCHANGED <<nstart, nopen, npool, co>> /\ Cs!Pooled' = Cs!Pooled
    BY <1>10 DEF Cs!SessionDies, Cs!Pooled
  <2>3. CsTypes'
    BY <1>0, <2>1, <2>2 DEF CsTypes
  <2>4. CsHeld'
    <3>1. \A s \in TcpSession : nst'[s] = "held" <=> nst[s] = "held"
      BY <1>0, <2>1 DEF CsTypes
    <3>2. co["acc"] = Cs!Coro("accept", "ok") => ep'[Cs!Held'] \in Endpoint
      <4> SUFFICES ASSUME co["acc"] = Cs!Coro("accept", "ok") PROVE ep'[Cs!Held'] \in Endpoint
        OBVIOUS
      <4>1. PICK h \in TcpSession : nst[h] = "held"
        BY <1>0, <1>c DEF CsHeld
      <4>2. Cs!Held = h /\ Cs!Held' = h
        BY <1>0, <3>1, <4>1 DEF CsHeld, Cs!Held
      <4> QED BY <1>0, <2>1, <4>1, <4>2 DEF CsHeld, CsTypes
    <3> QED BY <1>0, <2>2, <3>1, <3>2 DEF CsHeld
  <2>5. CsFiled'
    <3>1. \A e \in Endpoint : npool[e] # NoSession => npool[e] \in TcpSession /\ npool[e] \notin missed
      BY <1>0 DEF CsTypes, CsFiled
    <3>2. \A e \in Endpoint : npool'[e] # NoSession =>
            ep'[npool'[e]] = e /\ nst'[npool'[e]] \in {"run", "dead"} /\ npool'[e] \notin missed'
      BY <1>0, <2>1, <2>2, <3>1 DEF CsFiled, CsTypes
    <3>3. /\ \A s \in missed' : nst'[s] = "run"
          /\ nopen' => \A s \in TcpSession : nst'[s] = "run" => s \in Cs!Pooled' \cup missed'
      BY <1>0, <2>1, <2>2 DEF CsFiled, CsTypes
    <3> QED BY <1>0, <2>2, <3>2, <3>3 DEF CsFiled
  <2> QED BY <2>3, <2>4, <2>5 DEF CsInv
<1> QED BY <1>1, <1>2, <1>3, <1>4, <1>5, <1>6, <1>7, <1>8, <1>9, <1>10 DEF Cs!Next, Cs!Acceptor

LEMMA CsHolds == CsInv => Cs!MapHolds
<1> SUFFICES ASSUME CsInv PROVE Cs!MapHolds
  OBVIOUS
<1>1. Cs!Cardinality(Cs!Pooled) = Cardinality(Cs!Pooled)
  BY CsCardinality
<1> QED BY <1>1 DEF Cs!MapHolds, CsInv, CsFiled

-----------------------------------------------------------------------------
(***************************************************************************)
(* The UDP server.  A receive is begun only with room in the pool, and its *)
(* datagram is the only thing that takes it.                               *)
(***************************************************************************)
UdpCoro == [at : {"new", "start", "loop", "sleep", "receive", "wait", "end"}, op : {"none", "ok", "error"}]
UdpSession == [run : BOOLEAN, hasData : BOOLEAN, timer : UdpCoro, due : BOOLEAN]

UdpTypes ==
  /\ npool \in SUBSET Endpoint /\ IsFiniteSet(npool)
  /\ ses \in [Endpoint -> UdpSession]
  /\ co \in [{"recv", "mgr"} -> UdpCoro]

UdpInv ==
  /\ UdpTypes
  /\ Cardinality(npool) <= MaxSession
  /\ co["recv"].at = "receive" => Cardinality(npool) < MaxSession
  /\ co["recv"] = Udp!Coro("receive", "ok") => from \in Endpoint
  /\ nopen => \A e \in Endpoint : ses[e].run /\ ses[e].timer # Udp!New => e \in npool

LEMMA UdpCardinality == \A S : Udp!Cardinality(S) = Cardinality(S)
BY Zenon DEF Udp!Cardinality, Cardinality

LEMMA UdpInit == Udp!Init => UdpInv
<1> SUFFICES ASSUME Udp!Init PROVE UdpInv
  OBVIOUS
<1>1. IsFiniteSet({}) /\ Cardinality({}) = 0
  BY FS_EmptySet
<1>2. co = [c \in {"recv", "mgr"} |-> [at |-> "new", op |-> "none"]] /\ npool = {} /\ ses = [e \in Endpoint |-> Udp!NewSession]
  BY DEF Udp!Init, Udp!New, Udp!Coro
<1>3. UdpTypes
  <2>1. Udp!NewSession \in UdpSession
    BY DEF Udp!NewSession, Udp!New, Udp!Coro, UdpSession, UdpCoro
  <2> QED BY <1>1, <1>2, <2>1 DEF UdpTypes, UdpCoro
<1> QED BY <1>1, <1>2, <1>3, MaxSessionAssumption DEF UdpInv, Udp!NewSession, Udp!Coro

LEMMA UdpStep ==
  ASSUME UdpInv, Udp!Next
  PROVE  UdpInv'
<1>0. UdpInv /\ UdpTypes
  BY DEF UdpInv
<1>m. MaxSession \in Nat /\ Cardinality(npool) \in Nat
  BY <1>0, MaxSessionAssumption, FS_CardinalityType DEF UdpTypes
<1>c. \A at, op : Udp!Coro(at, op).at = at /\ Udp!Coro(at, op).op = op
  BY DEF Udp!Coro
\* A pool that is not larger.
<1>f. ASSUME npool' \subseteq npool PROVE /\ npool' \in SUBSET Endpoint /\ IsFiniteSet(npool')
                                          /\ Cardinality(npool') <= MaxSession
                                          /\ Cardinality(npool) < MaxSession => Cardinality(npool') < MaxSession
  <2>1. IsFiniteSet(npool') /\ Cardinality(npool') <= Cardinality(npool) /\ Cardinality(npool') \in Nat
    BY <1>0, <1>f, FS_Subset, FS_CardinalityType DEF UdpTypes
  <2> QED BY <1>0, <1>f, <1>m, <2>1 DEF UdpInv, UdpTypes
<1>1. CASE Udp!Start \/ Udp!StopCall \/ Udp!Fires("recv", "sleep") \/ Udp!Fires("mgr", "wait")
  <2>1. UNCHANGED <<nopen, from, npool, ses>>
    BY <1>1 DEF Udp!Start, Udp!StopCall, Udp!Fires
  <2>2. /\ co' \in [{"recv", "mgr"} -> UdpCoro]
        /\ co'["recv"] = co["recv"] \/ co'["recv"].at \in {"start", "sleep"}
    BY <1>0, <1>1 DEF Udp!Start, Udp!StopCall, Udp!Fires, Udp!Awaits, Udp!Suspended, Udp!Spawned, Udp!Coro, UdpTypes, UdpCoro
  <2> QED BY <1>0, <1>c, <2>1, <2>2 DEF UdpInv, UdpTypes
<1>2. CASE Udp!StopHandler
  <2>1. npool' \subseteq npool /\ ~nopen' /\ from' = from
    BY <1>2 DEF Udp!StopHandler
  <2>2. ses' = [e \in Endpoint |-> IF e \in npool /\ ses[e].run THEN [ses[e] EXCEPT !.run = FALSE, !.due = TRUE] ELSE ses[e]]
    BY <1>2 DEF Udp!StopHandler
  <2>3. \A e \in Endpoint : [ses[e] EXCEPT !.run = FALSE, !.due = TRUE] \in UdpSession
    BY <1>0 DEF UdpTypes, UdpSession
  <2>4. ses' \in [Endpoint -> UdpSession]
    BY <1>0, <2>2, <2>3 DEF UdpTypes
  <2>5. /\ co' \in [{"recv", "mgr"} -> UdpCoro] /\ co'["recv"].at = co["recv"].at
        /\ co'["recv"].op = "ok" => co'["recv"] = co["recv"]
    <3>1. co' = Udp!Cancelled(co, {"recv", "mgr"})
      BY <1>2 DEF Udp!StopHandler
    <3> QED BY <1>0, <3>1 DEF Udp!Cancelled, UdpTypes, UdpCoro
  <2>6. npool' \in SUBSET Endpoint /\ IsFiniteSet(npool')
    BY <1>f, <2>1
  <2>7. UdpTypes'
    BY <2>4, <2>5, <2>6 DEF UdpTypes
  <2>8. co'["recv"].at = "receive" => Cardinality(npool') < MaxSession
    BY <1>0, <1>f, <2>1, <2>5 DEF UdpInv
  <2>9. co'["recv"] = Udp!Coro("receive", "ok") => from' \in Endpoint
    BY <1>0, <1>c, <2>1, <2>5 DEF UdpInv
  <2>10. Cardinality(npool') <= MaxSession
    BY <1>f, <2>1
  <2> QED BY <2>1, <2>7, <2>8, <2>9, <2>10 DEF UdpInv
<1>3. CASE Udp!Receives
  <2>0. co["recv"] = Udp!Coro("receive", "ok") /\ co["recv"].at = "receive" /\ from \in Endpoint
    BY <1>0, <1>3, <1>c DEF Udp!Receives, UdpInv
  <2>1. /\ co' = [co EXCEPT !["recv"] = Udp!Coro("loop", "ok")]
        /\ npool' = npool \cup {from} /\ UNCHANGED <<nopen, from>>
        /\ ses' = [ses EXCEPT ![from] = [IF from \in npool THEN ses[from] ELSE Udp!Started EXCEPT !.hasData = TRUE]]
    BY <1>3 DEF Udp!Receives
  <2>2. IsFiniteSet(npool') /\ Cardinality(npool') <= MaxSession
    <3>1. IsFiniteSet(npool') /\ (Cardinality(npool') = Cardinality(npool) \/ Cardinality(npool') = Cardinality(npool) + 1)
      BY <1>0, <2>1, FS_AddElement DEF UdpTypes
    <3> QED BY <1>0, <1>m, <2>0, <3>1 DEF UdpInv
  <2>3. /\ Udp!Started \in UdpSession
        /\ \A x \in UdpSession : [x EXCEPT !.hasData = TRUE] \in UdpSession
    BY DEF UdpSession, UdpCoro, Udp!Started, Udp!NewSession, Udp!Spawned, Udp!New, Udp!Coro
  <2>4. ses' \in [Endpoint -> UdpSession] /\ \A e \in Endpoint \ {from} : ses'[e] = ses[e]
    BY <1>0, <2>0, <2>1, <2>3 DEF UdpTypes
  <2>5. co' \in [{"recv", "mgr"} -> UdpCoro] /\ co'["recv"].at = "loop"
    BY <1>0, <2>1 DEF UdpTypes, UdpCoro, Udp!Coro
  <2>6. UdpTypes'
    BY <1>0, <2>0, <2>1, <2>2, <2>3, <2>4, <2>5 DEF UdpTypes
  <2> QED BY <1>0, <1>c, <2>1, <2>2, <2>4, <2>5, <2>6 DEF UdpInv
<1>4. CASE Udp!ReceiverLoops
  <2>1. UNCHANGED <<nopen, from, npool, ses>>
    BY <1>4 DEF Udp!ReceiverLoops
  <2>2. /\ co' \in [{"recv", "mgr"} -> UdpCoro]
        /\ co'["recv"].op = "none"
        /\ co'["recv"].at = "receive" => ~Udp!Full
    <3>1. \/ co' = [co EXCEPT !["recv"] = Udp!Coro("end", "none")]
          \/ co' = [co EXCEPT !["recv"] = Udp!Coro("sleep", "none")]
          \/ ~Udp!Full /\ co' = [co EXCEPT !["recv"] = Udp!Coro("receive", "none")]
      BY <1>4 DEF Udp!ReceiverLoops, Udp!Goes, Udp!Suspended, Udp!Ended
    <3> QED BY <1>0, <3>1 DEF UdpTypes, UdpCoro, Udp!Coro
  <2>3. ~Udp!Full => Cardinality(npool) < MaxSession
    BY <1>m, UdpCardinality DEF Udp!Full
  <2> QED BY <1>0, <1>c, <2>1, <2>2, <2>3 DEF UdpInv, UdpTypes
<1>5. CASE Udp!MgrResumes
  <2>1. /\ npool' \subseteq npool /\ \A e \in npool : ses[e].run => e \in npool'
        /\ UNCHANGED <<nopen, from, ses>>
    BY <1>5 DEF Udp!MgrResumes
  <2>2. co' \in [{"recv", "mgr"} -> UdpCoro] /\ co'["recv"] = co["recv"]
    BY <1>0, <1>5 DEF Udp!MgrResumes, Udp!Goes, Udp!Suspended, Udp!Ended, Udp!Coro, UdpTypes, UdpCoro
  <2> QED BY <1>0, <1>f, <2>1, <2>2 DEF UdpInv, UdpTypes
<1>6. ASSUME NEW e \in Endpoint, Udp!SessionStep(e) PROVE UdpInv'
  <2>1. UNCHANGED <<nopen, co, from, npool>>
    BY <1>6 DEF Udp!SessionStep, Udp!Ticks, Udp!SessionStops, Udp!SessionTimer
  <2>2. /\ ses' \in [Endpoint -> UdpSession] /\ \A x \in Endpoint \ {e} : ses'[x] = ses[x]
        /\ ses'[e].run /\ ses'[e].timer # Udp!New => ses[e].run /\ ses[e].timer # Udp!New
    <3>1. CASE Udp!Ticks(e)
      <4>1. ses[e].timer # Udp!New
        BY <3>1, <1>c DEF Udp!Ticks, Udp!New
      <4>2. \/ ses' = [ses EXCEPT ![e] = [ses[e] EXCEPT !.timer = Udp!Ended, !.run = FALSE]]
            \/ ses[e].run /\ ses' = [ses EXCEPT ![e] =
                  [ses[e] EXCEPT !.timer = Udp!Suspended("wait"), !.hasData = ses[e].hasData /\ ses[e].timer.at = "start"]]
        BY <1>0, <3>1 DEF Udp!Ticks, UdpTypes, UdpSession
      <4>3. Udp!Ended \in UdpCoro /\ Udp!Suspended("wait") \in UdpCoro
        BY DEF UdpCoro, Udp!Ended, Udp!Suspended, Udp!Coro
      <4>4. ses[e] \in UdpSession
        BY <1>0 DEF UdpTypes
      <4>5. PICK s \in UdpSession : ses' = [ses EXCEPT ![e] = s] /\ (s.run => ses[e].run)
        <5>1. CASE ses' = [ses EXCEPT ![e] = [ses[e] EXCEPT !.timer = Udp!Ended, !.run = FALSE]]
          <6>1. /\ [ses[e] EXCEPT !.timer = Udp!Ended, !.run = FALSE] \in UdpSession
                /\ ~[ses[e] EXCEPT !.timer = Udp!Ended, !.run = FALSE].run
            BY <4>3, <4>4 DEF UdpSession
          <6> QED BY <5>1, <6>1
        <5>2. CASE /\ ses[e].run
                   /\ ses' = [ses EXCEPT ![e] =
                        [ses[e] EXCEPT !.timer = Udp!Suspended("wait"), !.hasData = ses[e].hasData /\ ses[e].timer.at = "start"]]
          <6>1. [ses[e] EXCEPT !.timer = Udp!Suspended("wait"), !.hasData = ses[e].hasData /\ ses[e].timer.at = "start"]
                  \in UdpSession
            BY <4>3, <4>4 DEF UdpSession
          <6> QED BY <5>2, <6>1
        <5> QED BY <4>2, <5>1, <5>2
      <4> QED BY <1>0, <4>1, <4>5 DEF UdpTypes
    <3>2. CASE Udp!SessionStops(e)
      <4>1. ses' = [ses EXCEPT ![e].due = FALSE,
                        ![e].timer = IF @ = Udp!Suspended("wait") THEN Udp!Coro("wait", "error") ELSE @]
        BY <3>2 DEF Udp!SessionStops
      <4>2. Udp!Suspended("wait") # Udp!New /\ Udp!Coro("wait", "error") \in UdpCoro
        BY DEF Udp!Suspended, Udp!New, Udp!Coro, UdpCoro
      <4> QED BY <1>0, <4>1, <4>2 DEF UdpTypes, UdpSession
    <3>3. CASE Udp!SessionTimer(e)
      <4>1. ses' = [ses EXCEPT ![e].timer.op = "ok"] /\ ses[e].timer = Udp!Suspended("wait")
        BY <3>3 DEF Udp!SessionTimer
      <4>2. Udp!Suspended("wait") # Udp!New /\ \A x \in UdpCoro : [x EXCEPT !.op = "ok"] \in UdpCoro
        BY DEF Udp!Suspended, Udp!New, Udp!Coro, UdpCoro
      <4> QED BY <1>0, <4>1, <4>2 DEF UdpTypes, UdpSession
    <3> QED BY <1>6, <3>1, <3>2, <3>3 DEF Udp!SessionStep
  <2> QED BY <1>0, <2>1, <2>2 DEF UdpInv, UdpTypes
<1>7. CASE Udp!Datagram
  <2>1. UNCHANGED <<nopen, npool, ses>> /\ from' \in Endpoint /\ co["recv"].at = "receive"
        /\ co' = [co EXCEPT !["recv"].op = "ok"]
    <3>1. co["recv"] = Udp!Coro("receive", "none")
      BY <1>7 DEF Udp!Datagram, Udp!Awaits, Udp!Suspended
    <3> QED BY <1>7, <1>c, <3>1 DEF Udp!Datagram
  <2>2. co' \in [{"recv", "mgr"} -> UdpCoro] /\ co'["recv"].at = "receive"
    BY <1>0, <2>1 DEF UdpTypes, UdpCoro
  <2>3. UdpTypes'
    BY <1>0, <2>1, <2>2 DEF UdpTypes
  <2> QED BY <1>0, <2>1, <2>3 DEF UdpInv
<1>8. CASE Udp!ReceiveFails
  <2>1. UNCHANGED <<nopen, from, npool, ses>> /\ co["recv"] = Udp!Coro("receive", "none")
        /\ co' = [co EXCEPT !["recv"].op = "error"]
    BY <1>8 DEF Udp!ReceiveFails, Udp!Awaits, Udp!Suspended
  <2>2. co' \in [{"recv", "mgr"} -> UdpCoro] /\ co'["recv"].op = "error" /\ co["recv"].at = "receive"
    BY <1>0, <1>c, <2>1 DEF UdpTypes, UdpCoro, Udp!Coro
  <2>3. UdpTypes'
    BY <1>0, <2>1, <2>2 DEF UdpTypes
  <2>4. co'["recv"] # Udp!Coro("receive", "ok")
    BY <1>c, <2>2
  <2> QED BY <1>0, <2>1, <2>2, <2>3, <2>4 DEF UdpInv
<1> QED BY <1>1, <1>2, <1>3, <1>4, <1>5, <1>6, <1>7, <1>8 DEF Udp!Next, Udp!Receiver

LEMMA UdpHolds == UdpInv => Udp!SessionsBounded
<1>1. Udp!Cardinality(npool) = Cardinality(npool)
  BY UdpCardinality
<1> QED BY <1>1 DEF Udp!SessionsBounded, UdpInv

-----------------------------------------------------------------------------
(***************************************************************************)
(* The TCP session.                                                        *)
(***************************************************************************)
CsSesCoro == [at : {"new", "start", "wait", "write", "head", "body", "end"}, op : {"none", "ok", "error", "bad"}]

CsSesTypes ==
  /\ co \in [{"send", "recv", "timer"} -> CsSesCoro]
  /\ posted \in Seq(Nat) /\ list \in Seq(Nat) /\ writing \in Seq(Nat) /\ out \in Seq(Nat)
  /\ due \subseteq {"sock", "mgr"}

\* Something is being written, or was when the sender left.
CsSesInv ==
  /\ CsSesTypes
  /\ CsSes!NothingLost
  /\ writing # <<>> => (co["send"].at = "write" /\ co["send"].op # "ok") \/ co["send"].at = "end"
  /\ co["send"].at = "end" => co["send"].op = "none"

LEMMA CsSesInit == CsSes!Init => CsSesInv
<1> SUFFICES ASSUME CsSes!Init PROVE CsSesInv
  OBVIOUS
<1>1. /\ posted = <<>> /\ list = <<>> /\ writing = <<>> /\ out = <<>> /\ due = {}
      /\ co = [c \in {"send", "recv", "timer"} |-> [at |-> "new", op |-> "none"]]
  BY DEF CsSes!Init, CsSes!New, CsSes!Coro
<1>2. CsSes!Calls = 0
  BY <1>1 DEF CsSes!Calls
<1>3. <<>> \o <<>> \o <<>> \o <<>> = [i \in 1..0 |-> i]
  OBVIOUS
<1>4. CsSes!NothingLost
  BY <1>1, <1>2, <1>3 DEF CsSes!NothingLost
<1> QED BY <1>1, <1>4 DEF CsSesInv, CsSesTypes, CsSesCoro

\* A cancellation completes what is awaited, with an error.
LEMMA CsSesCancelled ==
  ASSUME NEW f \in [{"send", "recv", "timer"} -> CsSesCoro], NEW C
  PROVE  /\ CsSes!Cancelled(f, C) \in [{"send", "recv", "timer"} -> CsSesCoro]
         /\ \A c \in {"send", "recv", "timer"} :
              /\ CsSes!Cancelled(f, C)[c].at = f[c].at
              /\ CsSes!Cancelled(f, C)[c] = f[c] \/ (f[c].at # "end" /\ CsSes!Cancelled(f, C)[c].op = "error")
BY DEF CsSes!Cancelled, CsSesCoro

\* Steps that leave the messages alone and the sender where it is, or let it leave.
LEMMA CsSesQuiet ==
  ASSUME CsSesInv, co' \in [{"send", "recv", "timer"} -> CsSesCoro], due' \subseteq {"sock", "mgr"},
         UNCHANGED <<posted, list, writing, out>>,
         \/ co'["send"] = co["send"]
         \/ co'["send"].at = co["send"].at /\ co["send"].at # "end" /\ co'["send"].op = "error"
         \/ co'["send"].at = "end" /\ co'["send"].op = "none"
         \/ co'["send"].at = "start" /\ writing = <<>>
         \/ co'["send"].at = "wait" /\ writing = <<>> /\ list = <<>>
  PROVE  CsSesInv'
<1>1. CsSes!Calls' = CsSes!Calls
  BY DEF CsSes!Calls
<1>2. CsSes!Awaits(co', "send", "wait") => CsSes!Awaits(co, "send", "wait") \/ list = <<>>
  BY DEF CsSes!Awaits, CsSes!Suspended, CsSes!Coro, CsSesInv, CsSesTypes, CsSesCoro
<1>3. CsSes!NothingLost'
  BY <1>1, <1>2 DEF CsSesInv, CsSes!NothingLost, CsSes!Awaits
<1> QED BY <1>3 DEF CsSesInv, CsSesTypes

LEMMA CsSesLeaves ==
  ASSUME CsSesTypes, NEW c \in {"send", "recv", "timer"}, CsSes!Leaves(c)
  PROVE  /\ co' \in [{"send", "recv", "timer"} -> CsSesCoro] /\ due' \subseteq {"sock", "mgr"}
         /\ c = "send" => co'["send"].at = "end" /\ co'["send"].op = "none"
         /\ c # "send" => \/ co'["send"] = co["send"]
                          \/ co'["send"].at = co["send"].at /\ co["send"].at # "end" /\ co'["send"].op = "error"
<1> DEFINE ended == [co EXCEPT ![c] = CsSes!Ended]
<1>1. /\ ended \in [{"send", "recv", "timer"} -> CsSesCoro]
      /\ c = "send" => ended["send"].at = "end" /\ ended["send"].op = "none"
      /\ c # "send" => ended["send"] = co["send"]
  BY DEF CsSes!Ended, CsSes!Coro, CsSesTypes, CsSesCoro
<1>2. /\ co' = ended \/ \E C : co' = CsSes!Cancelled(ended, C)
      /\ due' \subseteq {"sock", "mgr"}
  BY DEF CsSes!Leaves, CsSesTypes
<1> HIDE DEF ended
<1> QED BY <1>1, <1>2, CsSesCancelled

LEMMA CsSesStep ==
  ASSUME CsSesInv, CsSes!Next
  PROVE  CsSesInv'
<1> DEFINE q == out \o writing \o list
<1>0. CsSesTypes /\ CsSes!NothingLost /\ q \o posted = Count(CsSes!Calls)
  BY DEF CsSesInv, CsSes!NothingLost, Count
<1>t. /\ q \in Seq(Nat) /\ q \o posted \in Seq(Nat) /\ out \o writing \in Seq(Nat)
      /\ CsSes!Calls \in Nat
  <2>1. out \in Seq(Nat) /\ writing \in Seq(Nat) /\ list \in Seq(Nat) /\ posted \in Seq(Nat)
    BY <1>0 DEF CsSesTypes
  <2>2. out \o writing \in Seq(Nat)
    BY <2>1, ConcatProperties
  <2>3. q \in Seq(Nat)
    BY <2>1, <2>2, ConcatProperties
  <2>4. q \o posted \in Seq(Nat)
    <3> HIDE DEF q
    <3> QED BY <2>1, <2>3, ConcatProperties
  <2> QED BY <2>1, <2>2, <2>3, <2>4 DEF CsSes!Calls
<1>1. CASE CsSes!Start
  <2>1. co["send"] = CsSes!New /\ co' = [c \in DOMAIN co |-> CsSes!Spawned]
        /\ UNCHANGED <<due, posted, list, writing, out>>
    BY <1>1 DEF CsSes!Start, CsSes!flags, CsSes!data
  <2>2. co["send"].at = "new" /\ co' \in [{"send", "recv", "timer"} -> CsSesCoro] /\ co'["send"].at = "start"
    BY <1>0, <2>1 DEF CsSes!New, CsSes!Spawned, CsSes!Coro, CsSesTypes, CsSesCoro
  <2>3. writing = <<>>
    BY <2>2 DEF CsSesInv
  <2> QED BY <1>0, <2>1, <2>2, <2>3, CsSesQuiet DEF CsSesTypes
<1>2. CASE CsSes!SendMsg
  <2>1. posted' = Append(posted, CsSes!Calls + 1) /\ UNCHANGED <<due, co, list, writing, out>>
    BY <1>2 DEF CsSes!SendMsg, CsSes!flags
  <2>2. posted' \in Seq(Nat) /\ Len(posted') = Len(posted) + 1
    BY <1>0, <1>t, <2>1, AppendProperties DEF CsSesTypes
  <2>3. CsSes!Calls' = CsSes!Calls + 1
    BY <1>0, <2>1, <2>2 DEF CsSes!Calls, CsSesTypes
  <2>4. q \o posted' = Count(CsSes!Calls + 1)
    <3>1. q \o posted' = Append(q \o posted, CsSes!Calls + 1)
      <4>1. posted \in Seq(Nat) /\ CsSes!Calls + 1 \in Nat
        BY <1>0, <1>t DEF CsSesTypes
      <4> HIDE DEF q
      <4> QED BY SMTT(30), <1>t, <2>1, <4>1, ConcatAppend
    <3> QED BY <1>0, <1>t, <3>1, CountIs
  <2>5. CsSes!NothingLost'
    BY <1>0, <2>1, <2>3, <2>4 DEF CsSes!NothingLost, CsSes!Awaits, Count
  <2> QED BY <1>0, <2>1, <2>2, <2>5 DEF CsSesInv, CsSesTypes
<1>3. CASE CsSes!Queue
  <2>1. posted # <<>> /\ posted' = Tail(posted) /\ list' = Append(list, Head(posted)) /\ co' = CsSes!Woken
        /\ UNCHANGED <<due, writing, out>>
    BY <1>3 DEF CsSes!Queue, CsSes!flags
  <2>2. /\ posted' \in Seq(Nat) /\ Len(posted') = Len(posted) - 1 /\ Head(posted) \in Nat
        /\ list' \in Seq(Nat) /\ Len(list') = Len(list) + 1
    BY <1>0, <2>1, HeadTailProperties, AppendProperties DEF CsSesTypes
  <2>3. CsSes!Calls' = CsSes!Calls
    BY <1>0, <2>1, <2>2 DEF CsSes!Calls, CsSesTypes
  <2>4. out \o writing \o list' \o posted' = q \o posted
    <3>1. (out \o writing) \o list' = Append(q, Head(posted))
      <4>1. list \in Seq(Nat)
        BY <1>0 DEF CsSesTypes
      <4>2. \A x \in Nat : (out \o writing) \o Append(list, x) = Append((out \o writing) \o list, x)
        BY SMTT(30), <1>t, <4>1, ConcatAppend
      <4> QED BY <2>1, <2>2, <4>2
    <3> QED BY <1>0, <1>t, <2>1, <3>1, ConcatMoves DEF CsSesTypes
  <2>5. /\ co' \in [{"send", "recv", "timer"} -> CsSesCoro]
        /\ co'["send"].at = co["send"].at
        /\ co'["send"] = co["send"] \/ (co["send"].at = "wait" /\ co'["send"].op = "error")
        /\ co["send"].at = "wait" => co'["send"].op # "none"
    <3>1. CASE co["send"].at = "wait"
      <4>1. co' = CsSes!Cancelled(co, {"send"})
        BY <2>1, <3>1 DEF CsSes!Woken
      <4> QED BY <1>0, <3>1, <4>1 DEF CsSes!Cancelled, CsSesTypes, CsSesCoro
    <3>2. CASE co["send"].at # "wait"
      BY <1>0, <2>1, <3>2 DEF CsSes!Woken, CsSesTypes
    <3> QED BY <3>1, <3>2
  <2>6. ~CsSes!Awaits(co', "send", "wait")
    BY <2>5 DEF CsSes!Awaits, CsSes!Suspended, CsSes!Coro
  <2>7. CsSes!NothingLost'
    BY <1>0, <2>1, <2>3, <2>4, <2>6 DEF CsSes!NothingLost, CsSes!Awaits, Count
  <2> QED BY <1>0, <2>1, <2>2, <2>5, <2>7 DEF CsSesInv, CsSesTypes
<1>4. CASE CsSes!StopCall \/ CsSes!StopHandler \/ CsSes!Receives \/ CsSes!Ticks \/ CsSes!ReadDone \/ CsSes!TimerFires
           \/ CsSes!SendLeaves
  <2>1. UNCHANGED <<posted, list, writing, out>>
    BY <1>4 DEF CsSes!StopCall, CsSes!StopHandler, CsSes!Receives, CsSes!RecvGoesOn, CsSes!RecvLeaves, CsSes!Ticks,
                CsSes!TimerGoesOn, CsSes!TimerLeaves, CsSes!ReadDone, CsSes!TimerFires, CsSes!SendLeaves, CsSes!data
  <2>2. CASE CsSes!SendLeaves \/ CsSes!RecvLeaves \/ CsSes!TimerLeaves
    <3>1. CsSes!Leaves("send") \/ CsSes!Leaves("recv") \/ CsSes!Leaves("timer")
      BY <2>2 DEF CsSes!SendLeaves, CsSes!RecvLeaves, CsSes!TimerLeaves
    <3>2. PICK c \in {"send", "recv", "timer"} : CsSes!Leaves(c)
      BY <3>1
    <3> QED BY <1>0, <2>1, <3>2, CsSesLeaves, CsSesQuiet
  <2>3. CASE CsSes!StopCall
    <3>1. co' = co /\ due' \subseteq {"sock", "mgr"}
      BY <2>3 DEF CsSes!StopCall
    <3> QED BY <1>0, <2>1, <3>1, CsSesQuiet DEF CsSesTypes
  <2>4. CASE CsSes!StopHandler
    <3>1. PICK C : co' = CsSes!Cancelled(co, C) /\ due' \subseteq due
      BY <2>4 DEF CsSes!StopHandler
    <3> QED BY <1>0, <2>1, <3>1, CsSesCancelled, CsSesQuiet DEF CsSesTypes
  <2>5. CASE CsSes!RecvGoesOn \/ CsSes!TimerGoesOn \/ CsSes!ReadDone \/ CsSes!TimerFires
    <3>1. /\ co' \in [{"send", "recv", "timer"} -> CsSesCoro] /\ co'["send"] = co["send"]
          /\ due' = due
      <4>1. CASE CsSes!RecvGoesOn \/ CsSes!TimerGoesOn
        BY <1>0, <4>1 DEF CsSes!RecvGoesOn, CsSes!TimerGoesOn, CsSes!Goes, CsSes!Suspended, CsSes!Coro, CsSes!flags, CsSesTypes, CsSesCoro
      <4>2. CASE CsSes!ReadDone \/ CsSes!TimerFires
        <5>1. /\ due' = due
              /\ \E c \in {"recv", "timer"}, op \in {"ok", "error", "bad"} : co' = [co EXCEPT ![c].op = op]
          BY <4>2 DEF CsSes!ReadDone, CsSes!TimerFires, CsSes!Outcomes, CsSes!flags
        <5>2. PICK c \in {"recv", "timer"}, op \in {"ok", "error", "bad"} : co' = [co EXCEPT ![c].op = op]
          BY <5>1
        <5>3. [co[c] EXCEPT !.op = op] \in CsSesCoro /\ co \in [{"send", "recv", "timer"} -> CsSesCoro]
          BY <1>0 DEF CsSesTypes, CsSesCoro
        <5>4. co' = [co EXCEPT ![c] = [co[c] EXCEPT !.op = op]]
          BY <5>2
        <5> QED BY <5>1, <5>3, <5>4
      <4> QED BY <2>5, <4>1, <4>2
    <3> QED BY <1>0, <2>1, <3>1, CsSesQuiet DEF CsSesTypes
  <2> QED BY <1>4, <2>2, <2>3, <2>4, <2>5 DEF CsSes!Receives, CsSes!Ticks
<1>5. CASE CsSes!SendWrites
  <2>1. list # <<>> /\ writing' = list /\ list' = <<>> /\ co' = CsSes!Goes(co, "send", "write") /\ UNCHANGED <<due, posted, out>>
    BY <1>5 DEF CsSes!SendWrites, CsSes!flags
  <2>2. writing = <<>>
    <3>1. co["send"].at # "end" /\ (co["send"].at = "write" => co["send"].op = "ok")
      BY <1>5 DEF CsSes!SendWrites, CsSes!SenderLooks, CsSes!Coro
    <3> QED BY <3>1 DEF CsSesInv
  <2>3. out \o writing' \o list' = q
    BY <1>0, <1>t, <2>1, <2>2, ConcatEmptySeq, ConcatProperties DEF CsSesTypes
  <2>4. CsSes!Calls' = CsSes!Calls
    BY <1>0, <2>1, <2>2 DEF CsSes!Calls, CsSesTypes
  <2>5. co' \in [{"send", "recv", "timer"} -> CsSesCoro] /\ co'["send"].at = "write" /\ co'["send"].op = "none"
    BY <1>0, <2>1 DEF CsSes!Goes, CsSes!Suspended, CsSes!Coro, CsSesTypes, CsSesCoro
  <2>6. CsSes!NothingLost'
    BY <1>0, <2>1, <2>3, <2>4 DEF CsSes!NothingLost, CsSes!Awaits, Count
  <2> QED BY <1>0, <2>1, <2>5, <2>6 DEF CsSesInv, CsSesTypes
<1>6. CASE CsSes!SendWaits
  <2>1. list = <<>> /\ co' = CsSes!Goes(co, "send", "wait") /\ UNCHANGED <<due, posted, list, writing, out>>
    BY <1>6 DEF CsSes!SendWaits, CsSes!flags, CsSes!data
  <2>2. writing = <<>>
    <3>1. co["send"].at # "end" /\ (co["send"].at = "write" => co["send"].op = "ok")
      BY <1>6 DEF CsSes!SendWaits, CsSes!SenderLooks, CsSes!Coro
    <3> QED BY <3>1 DEF CsSesInv
  <2>3. co' \in [{"send", "recv", "timer"} -> CsSesCoro] /\ co'["send"].at = "wait"
    BY <1>0, <2>1 DEF CsSes!Goes, CsSes!Suspended, CsSes!Coro, CsSesTypes, CsSesCoro
  <2> QED BY <1>0, <2>1, <2>2, <2>3, CsSesQuiet DEF CsSesTypes
<1>7. CASE CsSes!WriteDone
  <2>1. co["send"] = CsSes!Coro("write", "none") /\ UNCHANGED <<due, posted, list>>
    BY <1>7 DEF CsSes!WriteDone, CsSes!Awaits, CsSes!Suspended, CsSes!flags
  <2>2. PICK op \in {"ok", "error"} :
          /\ co' = [co EXCEPT !["send"].op = op]
          /\ IF op = "ok" THEN out' = out \o writing /\ writing' = <<>> ELSE UNCHANGED <<out, writing>>
    BY <1>7 DEF CsSes!WriteDone, CsSes!Outcomes
  <2>3. /\ co' \in [{"send", "recv", "timer"} -> CsSesCoro] /\ co'["send"].at = "write" /\ co["send"].at = "write"
        /\ co'["send"].op = op
    BY <1>0, <2>1, <2>2 DEF CsSes!Coro, CsSesTypes, CsSesCoro
  <2>4. CASE op = "error"
    BY <1>0, <2>1, <2>2, <2>3, <2>4, CsSesQuiet DEF CsSesTypes
  <2>5. CASE op = "ok"
    <3>1. out' \o writing' \o list = q /\ out' \in Seq(Nat) /\ Len(out') = Len(out) + Len(writing)
      <4>1. out' = out \o writing /\ writing' = <<>>
        BY <2>2, <2>5
      <4>2. (out \o writing) \o <<>> = out \o writing
        BY <1>t, ConcatEmptySeq
      <4>3. out \in Seq(Nat) /\ writing \in Seq(Nat)
        BY <1>0 DEF CsSesTypes
      <4> QED BY <1>t, <4>1, <4>2, <4>3, ConcatProperties
    <3>2. CsSes!Calls' = CsSes!Calls
      BY <1>0, <2>1, <2>2, <2>5, <3>1 DEF CsSes!Calls, CsSesTypes
    <3>3. ~CsSes!Awaits(co', "send", "wait")
      BY <2>3 DEF CsSes!Awaits, CsSes!Suspended, CsSes!Coro
    <3>4. CsSes!NothingLost'
      BY <1>0, <2>1, <3>1, <3>2, <3>3 DEF CsSes!NothingLost, CsSes!Awaits, Count
    <3> QED BY <1>0, <2>1, <2>2, <2>3, <2>5, <3>1, <3>4 DEF CsSesInv, CsSesTypes
  <2> QED BY <2>4, <2>5
<1> QED BY <1>1, <1>2, <1>3, <1>4, <1>5, <1>6, <1>7 DEF CsSes!Next, CsSes!Sends

-----------------------------------------------------------------------------
(***************************************************************************)
(* The HTTP session.  A request is unanswered between the end of its read  *)
(* and the end of the write of its response, and every request answered    *)
(* before the last, unless it is to be the last, lets the connection live. *)
(***************************************************************************)
HttpSesCoro == [at : {"new", "start", "wait", "read", "handle", "write", "end"}, op : {"none", "ok", "error", "failed"}]

Answered == Len(out) = Len(asked)
Owed == Len(asked) = Len(out) + 1
GoesOn(i) == asked[i].keep \/ (asked[i].kind = "handled" /\ out[i] = 200)

\* The response in flight answers the last request.
Answering ==
  /\ \E op \in {"ok", "failed"} : rsp = HttpSes!Status(asked[Len(asked)].kind, op)
  /\ ~close => asked[Len(asked)].keep \/ (asked[Len(asked)].kind = "handled" /\ rsp = 200)

HttpSesTypes ==
  /\ co \in [{"serve", "timer"} -> HttpSesCoro]
  /\ asked \in Seq(HttpSes!Request) /\ out \in Seq(Nat) /\ rsp \in Nat
  /\ close \in BOOLEAN

HttpSesInv ==
  /\ HttpSesTypes
  /\ HttpSes!RepliesInOrder
  /\ LET c == co["serve"] IN
       /\ c.at \in {"new", "start"} => Answered /\ asked = <<>>
       /\ c.at = "read" /\ c.op \in {"none"} => Answered /\ \A i \in DOMAIN asked : GoesOn(i)
       /\ c.at = "read" /\ c.op = "ok" => Owed
       /\ c.at = "handle" => Owed /\ HttpSes!Req.kind = "handled" /\ c.op \in {"none", "ok", "failed"}
       /\ c.at = "write" /\ c.op = "none" => Owed /\ Answering
       /\ c.at = "write" /\ c.op = "ok" => Answered /\ asked # <<>> /\ (~close => GoesOn(Len(asked)))
       /\ c.at \in {"new", "end"} => c.op = "none"
       /\ c.at # "handle" => c.op # "failed"
       /\ c.at # "wait"

LEMMA HttpSesInit == HttpSes!Init => HttpSesInv
<1> SUFFICES ASSUME HttpSes!Init PROVE HttpSesInv
  OBVIOUS
<1>1. /\ co = [c \in {"serve", "timer"} |-> [at |-> "new", op |-> "none"]]
      /\ asked = <<>> /\ out = <<>> /\ rsp = 0 /\ close = FALSE
  BY DEF HttpSes!Init, HttpSes!New, HttpSes!Coro
<1>2. HttpSesTypes
  <2>1. <<>> \in Seq(HttpSes!Request) /\ <<>> \in Seq(Nat)
    BY Z3
  <2>2. co \in [{"serve", "timer"} -> HttpSesCoro]
    BY <1>1 DEF HttpSesCoro
  <2> QED BY <1>1, <2>1, <2>2 DEF HttpSesTypes
<1>3. HttpSes!RepliesInOrder
  BY <1>1 DEF HttpSes!RepliesInOrder
<1> QED BY <1>1, <1>2, <1>3 DEF HttpSesInv, Answered

LEMMA HttpSesStatus == \A kind \in HttpSes!Kind, op \in {"ok", "failed"} : HttpSes!Status(kind, op) \in Nat
BY DEF HttpSes!Kind, HttpSes!Status

\* Steps that leave the messages alone, and the serving coroutine where it
\* is, awaiting nothing any more, or gone.
LEMMA HttpSesQuiet ==
  ASSUME HttpSesInv, UNCHANGED <<asked, out, rsp, close>>, co' \in [{"serve", "timer"} -> HttpSesCoro],
         \/ co'["serve"] = co["serve"]
         \/ co'["serve"].at = "end" /\ co'["serve"].op = "none"
         \/ co'["serve"].at = co["serve"].at /\ co["serve"].at \notin {"new", "end", "handle"} /\ co'["serve"].op = "error"
  PROVE  HttpSesInv'
BY DEF HttpSesInv, HttpSesTypes, HttpSes!RepliesInOrder, Answered, Owed, GoesOn, Answering, HttpSes!Req

LEMMA HttpSesStep ==
  ASSUME HttpSesInv, HttpSes!Next
  PROVE  HttpSesInv'
<1>0. HttpSesTypes /\ HttpSes!RepliesInOrder /\ Len(asked) \in Nat /\ Len(out) \in Nat
  BY DEF HttpSesInv, HttpSesTypes
<1>c. \A at, op : HttpSes!Coro(at, op).at = at /\ HttpSes!Coro(at, op).op = op
  BY DEF HttpSes!Coro
<1>1. CASE HttpSes!Start
  <2>1. /\ co["serve"] = HttpSes!New /\ co' = [c \in DOMAIN co |-> HttpSes!Spawned]
        /\ UNCHANGED <<asked, out, rsp, close>>
    BY <1>1 DEF HttpSes!Start
  <2>2. co["serve"].at = "new" /\ co' \in [{"serve", "timer"} -> HttpSesCoro] /\ co'["serve"] = [at |-> "start", op |-> "ok"]
    BY <1>0, <2>1 DEF HttpSes!New, HttpSes!Spawned, HttpSes!Coro, HttpSesTypes, HttpSesCoro
  <2> QED BY <1>0, <2>1, <2>2 DEF HttpSesInv, HttpSesTypes, HttpSes!RepliesInOrder, Answered
<1>2. CASE HttpSes!StopCall \/ HttpSes!TimerFires \/ HttpSes!TimerGoesOn \/ HttpSes!TimerLeaves
  <2>1. /\ UNCHANGED <<asked, out, rsp, close>>
        /\ co' \in [{"serve", "timer"} -> HttpSesCoro] /\ co'["serve"] = co["serve"]
    BY <1>0, <1>2 DEF HttpSes!StopCall, HttpSes!TimerFires, HttpSes!TimerGoesOn, HttpSes!TimerLeaves, HttpSes!Leaves,
                      HttpSes!Goes, HttpSes!Suspended, HttpSes!Ended, HttpSes!Coro, HttpSesTypes, HttpSesCoro
  <2> QED BY <2>1, HttpSesQuiet
<1>3. CASE HttpSes!StopHandler
  <2>1. PICK C : co' = HttpSes!Cancelled(co, C) /\ ("serve" \in C => co["serve"].at # "handle")
    BY <1>3 DEF HttpSes!StopHandler, HttpSes!Stoppable
  <2>2. UNCHANGED <<asked, out, rsp, close>>
    BY <1>3 DEF HttpSes!StopHandler
  <2>3. /\ co' \in [{"serve", "timer"} -> HttpSesCoro]
        /\ \/ co'["serve"] = co["serve"]
           \/ co'["serve"].at = co["serve"].at /\ co["serve"].at \notin {"new", "end", "handle"} /\ co'["serve"].op = "error"
    <3>1. \A x \in HttpSesCoro : [x EXCEPT !.op = "error"] \in HttpSesCoro
      BY DEF HttpSesCoro
    <3>2. co \in [{"serve", "timer"} -> HttpSesCoro]
      BY <1>0 DEF HttpSesTypes
    <3>3. co' \in [{"serve", "timer"} -> HttpSesCoro]
      BY <2>1, <3>1, <3>2 DEF HttpSes!Cancelled
    <3>4. co'["serve"] = IF "serve" \in C /\ co["serve"].op = "none" /\ co["serve"].at \notin {"new", "end"}
                         THEN [co["serve"] EXCEPT !.op = "error"] ELSE co["serve"]
      BY <2>1, <3>2 DEF HttpSes!Cancelled
    <3> QED BY <2>1, <3>2, <3>3, <3>4 DEF HttpSesCoro
  <2> QED BY <2>2, <2>3, HttpSesQuiet
<1>4. CASE HttpSes!ServeLeaves
  <2>1. UNCHANGED <<asked, out, rsp, close>> /\ co' = [co EXCEPT !["serve"] = HttpSes!Ended]
    BY <1>4 DEF HttpSes!ServeLeaves, HttpSes!Leaves
  <2>2. co' \in [{"serve", "timer"} -> HttpSesCoro] /\ co'["serve"].at = "end" /\ co'["serve"].op = "none"
    BY <1>0, <2>1 DEF HttpSes!Ended, HttpSes!Coro, HttpSesTypes, HttpSesCoro
  <2> QED BY <2>1, <2>2, HttpSesQuiet
<1>5. CASE HttpSes!SocketFails
  <2>1. UNCHANGED <<asked, out, rsp, close>> /\ co' = [co EXCEPT !["serve"].op = "error"] /\ co["serve"].at \in {"read", "write"}
    BY <1>5, <1>c DEF HttpSes!SocketFails, HttpSes!Awaits, HttpSes!Suspended
  <2>2. co' \in [{"serve", "timer"} -> HttpSesCoro] /\ co'["serve"].at = co["serve"].at /\ co'["serve"].op = "error"
    BY <1>0, <2>1 DEF HttpSesTypes, HttpSesCoro
  <2> QED BY <2>1, <2>2, HttpSesQuiet
<1>6. CASE HttpSes!Reads
  <2>1. /\ co' = [co EXCEPT !["serve"] = HttpSes!Coro("read", "none")] /\ UNCHANGED <<asked, out, rsp, close>> /\ ~close
        /\ co["serve"] = HttpSes!Coro("start", "ok") \/ (co["serve"].at = "write" /\ co["serve"].op = "ok")
    BY <1>6 DEF HttpSes!Reads, HttpSes!Goes, HttpSes!Suspended, HttpSes!Spawned
  <2>2. co' \in [{"serve", "timer"} -> HttpSesCoro] /\ co'["serve"].at = "read" /\ co'["serve"].op = "none"
    BY <1>0, <2>1 DEF HttpSes!Coro, HttpSesTypes, HttpSesCoro
  <2>3. Answered /\ \A i \in DOMAIN asked : GoesOn(i)
    <3>1. CASE co["serve"] = HttpSes!Coro("start", "ok")
      BY <1>c, <3>1 DEF HttpSesInv
    <3>2. CASE co["serve"].at = "write" /\ co["serve"].op = "ok"
      <4>1. Answered /\ asked # <<>> /\ GoesOn(Len(asked))
        BY <2>1, <3>2 DEF HttpSesInv
      <4>2. \A i \in 1..(Len(asked) - 1) : GoesOn(i)
        BY <1>0 DEF HttpSes!RepliesInOrder, GoesOn
      <4>3. DOMAIN asked = 1..Len(asked)
        BY <1>0 DEF HttpSesTypes
      <4>4. \A i \in 1..Len(asked) : i \in 1..(Len(asked) - 1) \/ i = Len(asked)
        BY <1>0
      <4> QED BY <4>1, <4>2, <4>3, <4>4
    <3> QED BY <2>1, <3>1, <3>2
  <2>4. (Answered /\ \A i \in DOMAIN asked : GoesOn(i))'
    BY <2>1, <2>3 DEF Answered, GoesOn
  <2>5. HttpSesTypes' /\ HttpSes!RepliesInOrder'
    BY <1>0, <2>1, <2>2 DEF HttpSesTypes, HttpSes!RepliesInOrder
  <2> QED BY <2>2, <2>4, <2>5 DEF HttpSesInv
<1>7. CASE HttpSes!Routes \/ HttpSes!AnswersHandled
  <2>1. UNCHANGED <<asked, out>> /\ Owed /\ asked # <<>> /\ asked[Len(asked)] \in HttpSes!Request
    <3>1. UNCHANGED <<asked, out>> /\ Owed
      BY <1>7, <1>c DEF HttpSes!Routes, HttpSes!AnswersHandled, HttpSesInv
    <3> QED BY <1>0, <3>1 DEF HttpSesTypes, Owed
  <2>2. /\ HttpSes!Req.kind \in HttpSes!Kind /\ HttpSes!Req.keep \in BOOLEAN
    BY <2>1 DEF HttpSes!Req, HttpSes!Request
  <2>3. CASE HttpSes!Routes /\ HttpSes!Req.kind = "handled"
    <3>1. co' = [co EXCEPT !["serve"] = HttpSes!Coro("handle", "none")] /\ UNCHANGED <<asked, out, rsp, close>>
      BY <2>3 DEF HttpSes!Routes, HttpSes!Goes, HttpSes!Suspended
    <3>2. co' \in [{"serve", "timer"} -> HttpSesCoro] /\ co'["serve"].at = "handle" /\ co'["serve"].op = "none"
      BY <1>0, <3>1 DEF HttpSes!Coro, HttpSesTypes, HttpSesCoro
    <3> QED BY <1>0, <2>1, <2>3, <3>1, <3>2 DEF HttpSesInv, HttpSesTypes, HttpSes!RepliesInOrder, Owed, HttpSes!Req
  <2>4. CASE (HttpSes!Routes /\ HttpSes!Req.kind # "handled") \/ HttpSes!AnswersHandled
    <3>1. co' = [co EXCEPT !["serve"] = HttpSes!Coro("write", "none")]
      BY <2>4 DEF HttpSes!Routes, HttpSes!AnswersHandled, HttpSes!Goes, HttpSes!Suspended
    <3>2. co' \in [{"serve", "timer"} -> HttpSesCoro] /\ co'["serve"].at = "write" /\ co'["serve"].op = "none"
      BY <1>0, <3>1 DEF HttpSes!Coro, HttpSesTypes, HttpSesCoro
    <3>3. /\ close' \in BOOLEAN
          /\ \E op \in {"ok", "failed"} : rsp' = HttpSes!Status(HttpSes!Req.kind, op)
          /\ ~close' => HttpSes!Req.keep \/ (HttpSes!Req.kind = "handled" /\ rsp' = 200)
      <4>1. CASE HttpSes!Routes /\ HttpSes!Req.kind # "handled"
        BY <2>2, <4>1 DEF HttpSes!Routes
      <4>2. CASE HttpSes!AnswersHandled
        <5>1. /\ HttpSes!Req.kind = "handled" /\ co["serve"].op \in {"ok", "failed"}
              /\ close' \in HttpSes!Closes /\ rsp' = HttpSes!Status("handled", co["serve"].op)
          BY <4>2 DEF HttpSes!AnswersHandled, HttpSes!Resumes, HttpSesInv
        <5>2. co["serve"].op = "ok" => rsp' = 200
          BY <5>1 DEF HttpSes!Status
        <5> QED BY <2>2, <5>1, <5>2 DEF HttpSes!Closes
      <4> QED BY <2>4, <4>1, <4>2
    <3>4. rsp' \in Nat /\ Answering' /\ Owed'
      BY <2>1, <2>2, <3>3, HttpSesStatus DEF Answering, Owed, HttpSes!Req
    <3>5. HttpSesTypes' /\ HttpSes!RepliesInOrder'
      BY <1>0, <2>1, <3>2, <3>3, <3>4 DEF HttpSesTypes, HttpSes!RepliesInOrder
    <3> QED BY <3>2, <3>4, <3>5 DEF HttpSesInv
  <2> QED BY <1>7, <2>3, <2>4
<1>8. CASE HttpSes!RequestArrives
  <2>1. /\ co["serve"] = HttpSes!Coro("read", "none") /\ co' = [co EXCEPT !["serve"].op = "ok"]
        /\ UNCHANGED <<out, rsp, close>>
    BY <1>8 DEF HttpSes!RequestArrives, HttpSes!Awaits, HttpSes!Suspended
  <2>2. PICK r \in HttpSes!Request : asked' = Append(asked, r)
    BY <1>8 DEF HttpSes!RequestArrives
  <2>3. co' \in [{"serve", "timer"} -> HttpSesCoro] /\ co'["serve"].at = "read" /\ co'["serve"].op = "ok"
    BY <1>0, <1>c, <2>1 DEF HttpSesTypes, HttpSesCoro
  <2>4. Answered /\ \A i \in DOMAIN asked : GoesOn(i)
    BY <1>c, <2>1 DEF HttpSesInv
  <2>5. /\ asked' \in Seq(HttpSes!Request) /\ Len(asked') = Len(asked) + 1 /\ DOMAIN asked = 1..Len(asked)
        /\ DOMAIN out = 1..Len(out)
        /\ \A i \in 1..Len(asked) : asked'[i] = asked[i]
    BY <1>0, <2>2, AppendProperties DEF HttpSesTypes
  <2>6. Owed'
    BY <2>1, <2>4, <2>5 DEF Answered, Owed
  <2>7. HttpSes!RepliesInOrder'
    <3>1. \A i \in DOMAIN out : \E op \in {"ok", "failed"} : out[i] = HttpSes!Status(asked'[i].kind, op)
      BY <1>0, <2>4, <2>5 DEF HttpSes!RepliesInOrder, Answered
    <3>2. \A i \in 1..(Len(asked') - 1) : asked'[i].keep \/ (asked'[i].kind = "handled" /\ out[i] = 200)
      BY <1>0, <2>4, <2>5 DEF GoesOn
    <3>3. Len(out) = Len(asked') - 1
      BY <1>0, <2>4, <2>5 DEF Answered
    <3> QED BY <2>1, <3>1, <3>2, <3>3 DEF HttpSes!RepliesInOrder
  <2> QED BY <1>0, <2>1, <2>3, <2>5, <2>6, <2>7 DEF HttpSesInv, HttpSesTypes
<1>9. CASE HttpSes!HandlerDone
  <2>1. /\ co["serve"] = HttpSes!Coro("handle", "none") /\ UNCHANGED <<asked, out, rsp, close>>
        /\ \E op \in {"ok", "failed"} : co' = [co EXCEPT !["serve"].op = op]
    BY <1>9 DEF HttpSes!HandlerDone, HttpSes!Awaits, HttpSes!Suspended
  <2>2. co' \in [{"serve", "timer"} -> HttpSesCoro] /\ co'["serve"].at = "handle" /\ co'["serve"].op \in {"ok", "failed"}
    BY <1>0, <1>c, <2>1 DEF HttpSesTypes, HttpSesCoro
  <2> QED BY <1>0, <1>c, <2>1, <2>2 DEF HttpSesInv, HttpSesTypes, HttpSes!RepliesInOrder, Owed, HttpSes!Req
<1>10. CASE HttpSes!WriteDone
  <2>1. /\ co["serve"] = HttpSes!Coro("write", "none") /\ co' = [co EXCEPT !["serve"].op = "ok"]
        /\ UNCHANGED <<asked, rsp, close>> /\ out' = Append(out, rsp)
    BY <1>10 DEF HttpSes!WriteDone, HttpSes!Awaits, HttpSes!Suspended
  <2>2. co' \in [{"serve", "timer"} -> HttpSesCoro] /\ co'["serve"].at = "write" /\ co'["serve"].op = "ok"
    BY <1>0, <1>c, <2>1 DEF HttpSesTypes, HttpSesCoro
  <2>3. Owed /\ Answering
    BY <1>c, <2>1 DEF HttpSesInv
  <2>4. /\ out' \in Seq(Nat) /\ Len(out') = Len(out) + 1 /\ DOMAIN out = 1..Len(out)
        /\ DOMAIN out' = 1..(Len(out) + 1)
        /\ out'[Len(out) + 1] = rsp /\ \A i \in 1..Len(out) : out'[i] = out[i]
    BY <1>0, <2>1, AppendProperties DEF HttpSesTypes
  <2>5. Answered' /\ asked # <<>> /\ (~close => GoesOn(Len(asked))')
    BY <1>0, <2>1, <2>3, <2>4 DEF Answered, Owed, Answering, GoesOn, HttpSesTypes
  <2>6. HttpSes!RepliesInOrder'
    <3>1. \A i \in DOMAIN out' : \E op \in {"ok", "failed"} : out'[i] = HttpSes!Status(asked[i].kind, op)
      BY <1>0, <2>3, <2>4 DEF HttpSes!RepliesInOrder, Answering, Owed
    <3>2. \A i \in 1..(Len(asked) - 1) : asked[i].keep \/ (asked[i].kind = "handled" /\ out'[i] = 200)
      BY <1>0, <2>3, <2>4 DEF HttpSes!RepliesInOrder, Owed
    <3> QED BY <2>1, <2>5, <3>1, <3>2 DEF HttpSes!RepliesInOrder, Answered
  <2>7. (~close => GoesOn(Len(asked)))'
    BY <2>1, <2>5
  <2> QED BY <1>0, <2>1, <2>2, <2>4, <2>5, <2>6, <2>7 DEF HttpSesInv, HttpSesTypes
<1> QED BY <1>1, <1>2, <1>3, <1>4, <1>5, <1>6, <1>7, <1>8, <1>9, <1>10 DEF HttpSes!Next, HttpSes!Serves, HttpSes!Ticks

-----------------------------------------------------------------------------
(***************************************************************************)
(* The log session.  ofs_ never writes to a renamed file, and a renaming   *)
(* finds the second of the one before it over: the timer has fired since.  *)
(***************************************************************************)
\* What FlattenSeq computes, one sequence after the other.
Joins(F, T, s) ==
  /\ F \in [0..Len(s) -> Seq(T)]
  /\ F[0] = <<>>
  /\ \A i \in 1..Len(s) : F[i] = F[i - 1] \o s[i]

\* A function that starts with v and goes on with the steps g.
Steps(g, V, n) == g \in [1..n -> [V -> V]]
Follows(F, V, v, n, g) == F \in [0..n -> V] /\ F[0] = v /\ \A i \in 1..n : F[i] = g[i][F[i - 1]]

LEMMA StepsGo ==
  ASSUME NEW V, NEW v, NEW n, NEW g, v \in V, n \in Nat, Steps(g, V, n)
  PROVE  \E F : Follows(F, V, v, n, g)
BY RecursionExists DEF Steps, Follows

LEMMA FlattenJoins ==
  ASSUME NEW T, NEW s \in Seq(Seq(T))
  PROVE  \E F : Joins(F, T, s) /\ LogSes!FlattenSeq(s) = F[Len(s)]
<1> DEFINE V == Seq(T)
           v == <<>>
           n == Len(s)
           Is(f) == f = [i \in 1..n |-> IF i = 1 THEN s[i] ELSE f[i - 1] \o s[i]]
           flatten == CHOOSE f : Is(f)
<1>0. n \in Nat /\ v \in V /\ s \in [1..n -> V]
  OBVIOUS
<1>c. \A w \in V, u \in V : w \o u \in V
  BY ConcatProperties
<1>e. \A u \in V : <<>> \o u = u
  BY ConcatEmptySeq
<1>d. LogSes!FlattenSeq(s) = IF n = 0 THEN s ELSE flatten[n]
  BY DEF LogSes!FlattenSeq
<1>v. v = <<>>
  OBVIOUS
<1>n. n = Len(s)
  OBVIOUS
<1>V. V = Seq(T)
  OBVIOUS
<1>is. \A f : Is(f) <=> f = [i \in 1..n |-> IF i = 1 THEN s[i] ELSE f[i - 1] \o s[i]]
  OBVIOUS
<1>fl. flatten = CHOOSE f : Is(f)
  OBVIOUS
<1>z. n = 0 => s = <<>>
  OBVIOUS
<1> HIDE DEF V, v, n, Is, flatten
<1>2. PICK F \in [0..n -> V] : F[0] = v /\ \A i \in 1..n : F[i] = F[i - 1] \o s[i]
  <2> DEFINE g == [i \in 1..n |-> [w \in V |-> w \o s[i]]]
  <2>1. Steps(g, V, n)
    BY <1>0, <1>c DEF Steps
  <2>2. \A i \in 1..n, w \in V : g[i][w] = w \o s[i]
    OBVIOUS
  <2> HIDE DEF g
  <2>3. PICK F : Follows(F, V, v, n, g)
    <3>1. n \in Nat /\ v \in V
      BY <1>0
    <3> QED BY ONLY <2>1, <3>1, StepsGo
  <2>4. F \in [0..n -> V] /\ F[0] = v
    BY <2>3 DEF Follows
  <2>5. \A i \in 1..n : F[i] = g[i][F[i - 1]]
    BY <2>3 DEF Follows
  <2>6. \A i \in 1..n : F[i] = F[i - 1] \o s[i]
    <3>1. \A i \in 1..n : F[i - 1] \in V
      BY <1>0, <2>4
    <3> QED BY <2>2, <2>5, <3>1
  <2> QED BY <2>4, <2>6
<1>3. \A i \in 1..n : F[i] = F[i - 1] \o s[i]
  BY <1>2
<1>b. 1 \in 1..n => F[1] = F[0] \o s[1]
  <2>1. \A x, y \in Nat : x = y + 1 => x - 1 = y
    OBVIOUS
  <2>2. 1 - 1 = 0
    BY <2>1
  <2> QED BY <1>3, <2>2
<1>4. Joins(F, T, s)
  BY <1>2, <1>3, <1>v, <1>n, <1>V DEF Joins
<1>5. LogSes!FlattenSeq(s) = F[n]
  <2>1. CASE n = 0
    BY <1>d, <1>2, <1>v, <1>z, <2>1
  <2>2. CASE n # 0
    <3> DEFINE f == [i \in 1..n |-> F[i]]
    <3>1. \A i \in 1..n : f[i] = IF i = 1 THEN s[i] ELSE f[i - 1] \o s[i]
      <4>1. ASSUME NEW i \in 1..n PROVE f[i] = IF i = 1 THEN s[i] ELSE f[i - 1] \o s[i]
        <5>1. CASE i = 1
          <6>1. F[1] = F[0] \o s[1]
            BY <1>b, <5>1
          <6>2. F[0] = <<>> /\ s[1] \in V
            BY <1>0, <1>2, <1>v, <5>1
          <6> QED BY <1>e, <5>1, <6>1, <6>2
        <5>2. CASE i # 1
          <6>1. i - 1 \in 1..n
            BY <1>0, <5>2
          <6>2. F[i] = F[i - 1] \o s[i]
            BY <1>3
          <6> QED BY <5>2, <6>1, <6>2
        <5> QED BY <5>1, <5>2
      <4> QED BY <4>1
    <3>2. f = [i \in 1..n |-> IF i = 1 THEN s[i] ELSE f[i - 1] \o s[i]]
      <4>1. DOMAIN f = 1..n
        OBVIOUS
      <4>2. f = [i \in 1..n |-> f[i]]
        OBVIOUS
      <4> HIDE DEF f
      <4> QED BY <3>1, <4>2
    <3> HIDE DEF f
    <3>3. Is(f)
      BY <1>is, <3>2
    <3>4. Is(flatten)
      BY Zenon, <1>fl, <3>3
    <3>5. \A i \in 1..n : flatten[i] = IF i = 1 THEN s[i] ELSE flatten[i - 1] \o s[i]
      BY <1>is, <3>4
    <3> DEFINE U == {m \in Nat : m + 1 \in 1..n => flatten[m + 1] = F[m + 1]}
    <3>6. 0 \in U
      <4>1. CASE 1 \in 1..n
        <5>1. flatten[1] = s[1]
          BY <3>5, <4>1
        <5>2. F[1] = F[0] \o s[1] /\ F[0] = <<>> /\ s[1] \in V
          BY <1>0, <1>2, <1>b, <1>v, <4>1
        <5> QED BY <1>e, <5>1, <5>2
      <4> QED BY <4>1
    <3>7. ASSUME NEW m \in U PROVE m + 1 \in U
      <4>1. ASSUME (m + 1) + 1 \in 1..n PROVE flatten[(m + 1) + 1] = F[(m + 1) + 1]
        <5>1. m \in Nat /\ m + 1 \in 1..n /\ (m + 1) + 1 # 1 /\ ((m + 1) + 1) - 1 = m + 1
          BY <1>0, <4>1
        <5>2. flatten[m + 1] = F[m + 1]
          BY <3>7, <5>1
        <5>3. F[(m + 1) + 1] = F[m + 1] \o s[(m + 1) + 1]
          BY <1>3, <4>1, <5>1
        <5>4. flatten[(m + 1) + 1] = flatten[m + 1] \o s[(m + 1) + 1]
          BY <3>5, <4>1, <5>1
        <5> QED BY <5>2, <5>3, <5>4
      <4> QED BY <4>1
    <3>8. U = Nat
      <4> HIDE DEF U
      <4>1. U \subseteq Nat
        BY DEF U
      <4> QED BY <3>6, <3>7, <4>1, SetInduction
    <3>9. n - 1 \in U /\ (n - 1) + 1 = n /\ n \in 1..n
      <4> HIDE DEF U
      <4> QED BY <1>0, <2>2, <3>8
    <3> QED BY <1>d, <2>2, <3>9
  <2> QED BY <2>1, <2>2
<1> QED BY <1>4, <1>5, <1>n

LEMMA FlattenAppend ==
  ASSUME NEW T, NEW s \in Seq(Seq(T)), NEW x \in Seq(T)
  PROVE  /\ LogSes!FlattenSeq(s) \in Seq(T)
         /\ LogSes!FlattenSeq(Append(s, x)) = LogSes!FlattenSeq(s) \o x
<1> DEFINE r == Append(s, x)
           n == Len(s)
<1>1. r \in Seq(Seq(T)) /\ Len(r) = n + 1 /\ n \in Nat /\ r[n + 1] = x /\ \A i \in 1..n : r[i] = s[i]
  BY AppendProperties
<1> HIDE DEF r
<1>2. PICK F : Joins(F, T, s) /\ LogSes!FlattenSeq(s) = F[n]
  BY FlattenJoins
<1>3. PICK G : Joins(G, T, r) /\ LogSes!FlattenSeq(r) = G[n + 1]
  BY <1>1, FlattenJoins
<1>f. F \in [0..n -> Seq(T)] /\ F[0] = <<>> /\ \A i \in 1..n : F[i] = F[i - 1] \o s[i]
  BY <1>2 DEF Joins
<1>j. G[0] = <<>> /\ \A i \in 1..(n + 1) : G[i] = G[i - 1] \o r[i]
  BY <1>1, <1>3 DEF Joins
<1> DEFINE U == {m \in Nat : m <= n => G[m] = F[m]}
<1> HIDE DEF n
<1>4. 0 \in U
  BY <1>f, <1>j
<1>5. ASSUME NEW m \in U PROVE m + 1 \in U
  <2>1. ASSUME m + 1 <= n PROVE G[m + 1] = F[m + 1]
    <3>1. m \in Nat /\ m + 1 \in 1..n /\ m + 1 \in 1..(n + 1) /\ (m + 1) - 1 = m /\ m <= n
      BY <1>1, <2>1
    <3>2. G[m] = F[m] /\ r[m + 1] = s[m + 1]
      BY <1>1, <1>5, <3>1
    <3>3. F[m + 1] = F[m] \o s[m + 1]
      BY <1>f, <3>1
    <3>4. G[m + 1] = G[m] \o r[m + 1]
      BY <1>j, <3>1
    <3> QED BY <3>2, <3>3, <3>4
  <2> QED BY <2>1
<1>6. U = Nat
  <2> HIDE DEF U
  <2>1. U \subseteq Nat
    BY DEF U
  <2> QED BY <1>4, <1>5, <2>1, SetInduction
<1>7. G[n] = F[n]
  <2>1. n \in U
    <3> HIDE DEF U
    <3> QED BY <1>1, <1>6
  <2> QED BY <1>1, <2>1
<1>8. G[n + 1] = G[n] \o x
  <2>1. n + 1 \in 1..(n + 1) /\ (n + 1) - 1 = n
    BY <1>1
  <2>2. G[n + 1] = G[n] \o r[n + 1]
    BY <1>j, <2>1
  <2> QED BY <1>1, <2>2
<1>9. F[n] \in Seq(T)
  BY <1>1, <1>f
<1> QED BY <1>2, <1>3, <1>7, <1>8, <1>9 DEF r

LogSesCoro == [at : {"new", "start", "wait", "read", "end"}, op : {"none", "ok", "error"}]

LogSesTypes ==
  /\ co \in [{"recv", "timer"} -> LogSesCoro]
  /\ list \in Seq(Nat) /\ writing \in Seq(Seq(Nat))
  /\ posted \in {"none", "log"}

LogSesInv ==
  /\ LogSesTypes
  /\ LogSes!NothingOverwritten
  /\ co["timer"] = LogSes!Coro("wait", "ok") => ~out

LEMMA LogSesInit == LogSes!Init => LogSesInv
<1> SUFFICES ASSUME LogSes!Init PROVE LogSesInv
  OBVIOUS
<1>1. /\ co = [c \in {"recv", "timer"} |-> [at |-> "new", op |-> "none"]] /\ hasData = FALSE
      /\ posted = "none" /\ list = <<>> /\ writing = <<>> /\ out = FALSE
  BY DEF LogSes!Init, LogSes!New, LogSes!Coro
<1>2. LogSes!FlattenSeq(<<>>) = <<>>
  BY DEF LogSes!FlattenSeq
<1>3. LogSes!Written = 0
  BY <1>1, <1>2 DEF LogSes!Written
<1>4. <<>> \o <<>> = [i \in 1..0 |-> i]
  OBVIOUS
<1>5. LogSes!NothingOverwritten
  BY <1>1, <1>2, <1>3, <1>4 DEF LogSes!NothingOverwritten
<1> QED BY <1>1, <1>5 DEF LogSesInv, LogSesTypes, LogSesCoro

LEMMA LogSesCancelled ==
  ASSUME NEW f \in [{"recv", "timer"} -> LogSesCoro], NEW C
  PROVE  /\ LogSes!Cancelled(f, C) \in [{"recv", "timer"} -> LogSesCoro]
         /\ LogSes!Cancelled(f, C)["timer"] = LogSes!Coro("wait", "ok") => f["timer"] = LogSes!Coro("wait", "ok")
BY DEF LogSes!Cancelled, LogSesCoro, LogSes!Coro

\* Steps that leave the files alone.
LEMMA LogSesQuiet ==
  ASSUME LogSesInv, UNCHANGED <<list, writing>>, co' \in [{"recv", "timer"} -> LogSesCoro], posted' \in {"none", "log"},
         hasData' => hasData, co'["timer"] = LogSes!Coro("wait", "ok") => ~out'
  PROVE  LogSesInv'
<1>1. LogSes!Written' = LogSes!Written
  BY DEF LogSes!Written
<1> QED BY <1>1 DEF LogSesInv, LogSesTypes, LogSes!NothingOverwritten, LogSes!Coro

\* The read goes to the end of the log.
LEMMA LogSesWrite ==
  ASSUME LogSesInv, LogSes!Write
  PROVE  list' \in Seq(Nat) /\ writing' = writing /\ out' = out /\ LogSes!NothingOverwritten'
<1>0. LogSesTypes /\ LogSes!NothingOverwritten
  BY DEF LogSesInv
<1> DEFINE flat == LogSes!FlattenSeq(writing)
           n == LogSes!Written
<1>1. flat \in Seq(Nat)
  BY <1>0, FlattenAppend, EmptySeq DEF LogSesTypes
<1>2. n \in Nat /\ n = Len(list) + Len(flat)
  BY <1>0, <1>1 DEF LogSesTypes, LogSes!Written
<1>3. list' = Append(list, n + 1) /\ writing' = writing /\ out' = out
  BY <1>0 DEF LogSes!Write, LogSes!File, LogSesTypes
<1>4. list' \in Seq(Nat) /\ Len(list') = Len(list) + 1 /\ list' # <<>>
  BY <1>0, <1>2, <1>3, AppendProperties DEF LogSesTypes
<1>5. LogSes!Written' = n + 1
  <2>1. LogSes!Written' = Len(list') + Len(flat)
    BY <1>3 DEF LogSes!Written
  <2> HIDE DEF n, flat
  <2> QED BY <1>0, <1>1, <1>2, <1>4, <2>1 DEF LogSesTypes
<1>6. flat \o list' = Count(n + 1)
  <2>1. flat \o list = Count(n)
    BY <1>0 DEF LogSes!NothingOverwritten, Count
  <2> HIDE DEF n, flat
  <2>2. \A k \in Nat : flat \o Append(list, k) = Append(flat \o list, k)
    BY <1>0, <1>1, ConcatAppend DEF LogSesTypes
  <2>3. flat \o list' = Append(Count(n), n + 1)
    BY <1>2, <1>3, <2>1, <2>2
  <2> QED BY <1>2, <2>3, CountIs
<1>7. LogSes!FlattenSeq(writing)' = flat
  BY <1>3
<1> QED BY <1>3, <1>4, <1>5, <1>6, <1>7 DEF LogSes!NothingOverwritten, Count

\* A renaming in a second of its own moves the log to a file of its own.
LEMMA LogSesRename ==
  ASSUME LogSesInv, LogSes!Rename, ~out, ~hasData'
  PROVE  list' \in Seq(Nat) /\ writing' \in Seq(Seq(Nat)) /\ LogSes!NothingOverwritten'
<1>0. LogSesTypes /\ LogSes!NothingOverwritten
  BY DEF LogSesInv
<1> DEFINE flat == LogSes!FlattenSeq(writing)
<1>1. list' = <<>> /\ writing' = Append(writing, list)
  BY DEF LogSes!Rename
<1>2. flat \in Seq(Nat) /\ LogSes!FlattenSeq(writing') = flat \o list /\ flat \o list \in Seq(Nat)
  BY <1>0, <1>1, FlattenAppend, ConcatProperties DEF LogSesTypes
<1>3. Len(flat \o list) = Len(flat) + Len(list) /\ Len(flat) \in Nat /\ Len(list) \in Nat
  BY <1>0, <1>2, ConcatProperties DEF LogSesTypes
<1>4. LogSes!Written' = LogSes!Written
  <2>1. LogSes!Written' = Len(list') + Len(flat \o list)
    BY <1>1, <1>2 DEF LogSes!Written
  <2>2. LogSes!Written = Len(list) + Len(flat)
    BY DEF LogSes!Written
  <2> HIDE DEF flat
  <2> QED BY <1>1, <1>3, <2>1, <2>2
<1>5. (flat \o list) \o <<>> = flat \o list
  BY <1>2, ConcatEmptySeq
<1>6. LogSes!FlattenSeq(writing') \o list' = [i \in 1..LogSes!Written |-> i]
  BY <1>0, <1>1, <1>2, <1>5 DEF LogSes!NothingOverwritten
<1>7. writing' \in Seq(Seq(Nat))
  BY <1>0, <1>1, AppendProperties DEF LogSesTypes
<1> QED BY <1>1, <1>4, <1>6, <1>7 DEF LogSes!NothingOverwritten

LEMMA LogSesLeaves ==
  ASSUME LogSesTypes, NEW c \in {"recv", "timer"}, NEW file \in {"none", "log"}, LogSes!Leaves(c, file)
  PROVE  /\ co' \in [{"recv", "timer"} -> LogSesCoro] /\ posted' \in {"none", "log"}
         /\ co'["timer"] = LogSes!Coro("wait", "ok") => c = "recv" /\ co["timer"] = LogSes!Coro("wait", "ok")
<1> DEFINE ended == [co EXCEPT ![c] = LogSes!Ended]
<1>1. /\ ended \in [{"recv", "timer"} -> LogSesCoro]
      /\ ended["timer"] = LogSes!Coro("wait", "ok") => c = "recv" /\ co["timer"] = LogSes!Coro("wait", "ok")
  BY DEF LogSes!Ended, LogSes!Coro, LogSesTypes, LogSesCoro
<1>2. co' = ended \/ \E C : co' = LogSes!Cancelled(ended, C)
  BY DEF LogSes!Leaves
<1>3. posted' \in {"none", "log"}
  BY DEF LogSes!Leaves
<1> HIDE DEF ended
<1> QED BY <1>1, <1>2, <1>3, LogSesCancelled

LEMMA LogSesStep ==
  ASSUME ~SubSecond, LogSesInv, LogSes!Next
  PROVE  LogSesInv'
<1>0. LogSesTypes /\ (co["timer"] = LogSes!Coro("wait", "ok") => ~out)
  BY DEF LogSesInv
<1>1. CASE LogSes!Start \/ LogSes!StopCall \/ LogSes!ReadDone
  <2>1. UNCHANGED <<hasData, posted, list, writing, out>>
    BY <1>1 DEF LogSes!Start, LogSes!StopCall, LogSes!ReadDone, LogSes!files
  <2>2. /\ co' \in [{"recv", "timer"} -> LogSesCoro]
        /\ co'["timer"] = LogSes!Coro("wait", "ok") => co["timer"] = LogSes!Coro("wait", "ok")
    <3>1. \/ co' = co
          \/ co' = [c \in DOMAIN co |-> LogSes!Coro("start", "ok")]
          \/ \E op \in {"ok", "error"} : co' = [co EXCEPT !["recv"].op = op]
      BY <1>1 DEF LogSes!Start, LogSes!StopCall, LogSes!ReadDone, LogSes!Spawned
    <3>2. CASE co' = co
      BY <1>0, <3>2 DEF LogSesTypes
    <3>3. CASE co' = [c \in DOMAIN co |-> LogSes!Coro("start", "ok")]
      BY <1>0, <3>3 DEF LogSesTypes, LogSesCoro, LogSes!Coro
    <3>4. CASE \E op \in {"ok", "error"} : co' = [co EXCEPT !["recv"].op = op]
      BY <1>0, <3>4 DEF LogSesTypes, LogSesCoro
    <3> QED BY <3>1, <3>2, <3>3, <3>4
  <2> QED BY <1>0, <2>1, <2>2, LogSesQuiet DEF LogSesTypes
<1>2. CASE LogSes!StopHandler
  <2>1. co' = LogSes!Cancelled(co, DOMAIN co) /\ posted' = "none" /\ UNCHANGED <<hasData, list, writing, out>>
    BY <1>2 DEF LogSes!StopHandler
  <2> QED BY <1>0, <2>1, LogSesCancelled, LogSesQuiet DEF LogSesTypes
<1>3. CASE LogSes!TimerFires
  <2>1. co' = [co EXCEPT !["timer"].op = "ok"] /\ out' = FALSE /\ UNCHANGED <<hasData, posted, list, writing>>
    BY <1>3 DEF LogSes!TimerFires
  <2>2. co' \in [{"recv", "timer"} -> LogSesCoro]
    BY <1>0, <2>1 DEF LogSesTypes, LogSesCoro
  <2> QED BY <1>0, <2>1, <2>2, LogSesQuiet DEF LogSesTypes
<1>4. CASE LogSes!RecvGoesOn
  <2>1. co' = LogSes!Goes(co, "recv", "read")
    BY <1>4 DEF LogSes!RecvGoesOn
  <2>2. co' \in [{"recv", "timer"} -> LogSesCoro] /\ co'["timer"] = co["timer"]
    BY <1>0, <2>1 DEF LogSes!Goes, LogSes!Suspended, LogSes!Coro, LogSesTypes, LogSesCoro
  <2>3. CASE LogSes!Write /\ posted' = LogSes!File
    <3>1. posted' \in {"none", "log"}
      BY <1>0, <2>3 DEF LogSes!File, LogSesTypes
    <3> QED BY <1>0, <2>2, <2>3, <3>1, LogSesWrite DEF LogSesInv, LogSesTypes, LogSes!Coro
  <2>4. CASE UNCHANGED <<hasData, posted, list, writing, out>>
    BY <1>0, <2>2, <2>4, LogSesQuiet DEF LogSesTypes
  <2> QED BY <1>4, <2>3, <2>4 DEF LogSes!RecvGoesOn, LogSes!files
<1>5. CASE LogSes!RecvLeaves
  <2>1. CASE LogSes!Write /\ LogSes!Leaves("recv", LogSes!File)
    <3>1. LogSes!File \in {"none", "log"}
      BY <1>0 DEF LogSes!File, LogSesTypes
    <3>2. /\ co' \in [{"recv", "timer"} -> LogSesCoro] /\ posted' \in {"none", "log"}
          /\ co'["timer"] = LogSes!Coro("wait", "ok") => co["timer"] = LogSes!Coro("wait", "ok")
      BY <1>0, <2>1, <3>1, LogSesLeaves
    <3> QED BY <1>0, <2>1, <3>2, LogSesWrite DEF LogSesInv, LogSesTypes, LogSes!Coro
  <2>2. CASE LogSes!Leaves("recv", posted) /\ UNCHANGED <<hasData, list, writing, out>>
    <3>1. posted \in {"none", "log"}
      BY <1>0 DEF LogSesTypes
    <3> QED BY <1>0, <2>2, <3>1, LogSesLeaves, LogSesQuiet
  <2> QED BY <1>5, <2>1, <2>2 DEF LogSes!RecvLeaves
<1>6. CASE LogSes!TimerGoesOn
  <2>1. co' = LogSes!Goes(co, "timer", "wait") /\ co["timer"].op = "ok"
    BY <1>6 DEF LogSes!TimerGoesOn
  <2>2. co' \in [{"recv", "timer"} -> LogSesCoro] /\ co'["timer"] # LogSes!Coro("wait", "ok")
    BY <1>0, <2>1 DEF LogSes!Goes, LogSes!Suspended, LogSes!Coro, LogSesTypes, LogSesCoro
  <2>3. CASE LogSes!TooLarge /\ LogSes!Rename /\ posted' = LogSes!Closed
    <3>1. co["timer"] = LogSes!Coro("wait", "ok") /\ ~hasData'
      <4>1. co["timer"].at = "wait" /\ co["timer"] \in LogSesCoro
        BY <1>0, <2>3 DEF LogSes!TooLarge, LogSesTypes
      <4> QED BY <1>6, <2>1, <4>1 DEF LogSes!Coro, LogSesCoro, LogSes!TimerGoesOn
    <3> QED BY <1>0, <2>2, <2>3, <3>1, LogSesRename DEF LogSesInv, LogSesTypes, LogSes!Closed, LogSes!Coro
  <2>4. CASE UNCHANGED <<posted, list, writing, out>>
    <3>1. hasData' => hasData
      BY <1>6 DEF LogSes!TimerGoesOn
    <3> QED BY <1>0, <2>2, <2>4, <3>1, LogSesQuiet DEF LogSesTypes
  <2> QED BY <1>6, <2>3, <2>4 DEF LogSes!TimerGoesOn, LogSes!files
<1>7. CASE LogSes!TimerLeaves
  <2>1. hasData' = (hasData /\ co["timer"] # LogSes!Coro("wait", "ok"))
    BY <1>7 DEF LogSes!TimerLeaves
  <2>2. CASE LogSes!TooLarge /\ co["timer"].op = "ok" /\ LogSes!Rename /\ LogSes!Leaves("timer", LogSes!Closed)
    <3>1. co["timer"] = LogSes!Coro("wait", "ok")
      <4>1. co["timer"].at = "wait" /\ co["timer"] \in LogSesCoro
        BY <1>0, <2>2 DEF LogSes!TooLarge, LogSesTypes
      <4> QED BY <2>2, <4>1 DEF LogSes!Coro, LogSesCoro
    <3>2. /\ co' \in [{"recv", "timer"} -> LogSesCoro] /\ posted' \in {"none", "log"}
          /\ co'["timer"] # LogSes!Coro("wait", "ok")
      BY <1>0, <2>2, LogSesLeaves DEF LogSes!Closed
    <3> QED BY <1>0, <2>1, <2>2, <3>1, <3>2, LogSesRename DEF LogSesInv, LogSesTypes, LogSes!Coro
  <2>3. CASE LogSes!Leaves("timer", posted) /\ UNCHANGED <<list, writing, out>>
    <3>1. posted \in {"none", "log"}
      BY <1>0 DEF LogSesTypes
    <3> QED BY <1>0, <2>1, <2>3, <3>1, LogSesLeaves, LogSesQuiet
  <2> QED BY <1>7, <2>2, <2>3 DEF LogSes!TimerLeaves
<1> QED BY <1>1, <1>2, <1>3, <1>4, <1>5, <1>6, <1>7 DEF LogSes!Next, LogSes!Receives, LogSes!Ticks

-----------------------------------------------------------------------------
(***************************************************************************)
(* The executor.  The guard is released once, by a Stop that has returned, *)
(* and a thread that has left run() has found nothing to do; there is no   *)
(* more to do from then on, as every start function was called before the  *)
(* first thread was made.                                                  *)
(***************************************************************************)
ExecInv ==
  /\ co \in [Thread -> {"none", "run", "exit", "threw"}]
  /\ from # "idle" => nstart
  /\ (\E t \in Thread : co[t] # "none") => nstart /\ writing = <<>>
  /\ ses # "nobody" => nrun
  /\ nopen \/ (nrun /\ ses = "nobody")
  /\ (\E t \in Thread : co[t] = "exit") => ~nopen /\ ~Exec!Work
  /\ Exec!Joined => \A t \in Thread : co[t] \in {"exit", "threw"}

LEMMA ExecInit == Exec!Init => ExecInv
<1> SUFFICES ASSUME Exec!Init PROVE ExecInv
  OBVIOUS
<1>1. co = [t \in Thread |-> "none"] /\ from = "idle" /\ ses = "nobody" /\ nopen = TRUE
  BY DEF Exec!Init
<1> QED BY <1>1 DEF ExecInv, Exec!Joined

LEMMA ExecFacts ==
  ASSUME ExecInv
  PROVE  /\ from # "idle" => nstart
         /\ ses # "nobody" => nrun
         /\ nopen \/ (nrun /\ ses = "nobody")
BY DEF ExecInv

\* Steps that leave the threads alone, and give them no work once the guard is released.
LEMMA ExecQuiet ==
  ASSUME ExecInv, UNCHANGED co, nstart => nstart',
         from' = from \/ (from' # "joined" /\ from # "joined" /\ (from' # "idle" => nstart')),
         writing' = writing \/ ~nstart,
         ses' # "nobody" => nrun', nrun => nrun', nopen' \/ (nrun' /\ ses' = "nobody"),
         ~nopen /\ ~Exec!Work /\ nstart /\ writing = <<>> => ~nopen' /\ ~Exec!Work'
  PROVE  ExecInv'
BY DEF ExecInv, Exec!Joined

LEMMA ExecStep ==
  ASSUME ExecInv, Exec!Next
  PROVE  ExecInv'
<1>1. CASE (\E s \in Service : Exec!RegisterSvrFunc(s)) \/ Exec!EnableStopSignal
  <2>1. ~nstart /\ from = "idle" /\ UNCHANGED <<nstart, nrun, nopen, from, writing, ses, co>>
    BY <1>1 DEF Exec!RegisterSvrFunc, Exec!EnableStopSignal, Exec!flags
  <2> QED BY <2>1, ExecFacts, ExecQuiet
<1>2. CASE Exec!Start
  <2>1. ~nstart /\ nstart' /\ from' = "start" /\ from = "idle" /\ UNCHANGED <<nrun, nopen, ses, co>>
    BY <1>2 DEF Exec!Start, ExecInv
  <2> QED BY <2>1, ExecFacts, ExecQuiet
<1>3. CASE Exec!StartFunc
  <2>1. writing # <<>> /\ UNCHANGED <<nstart, nrun, nopen, from, ses, co>>
    BY <1>3 DEF Exec!StartFunc, Exec!flags
  <2> QED BY <2>1 DEF ExecInv, Exec!Joined
<1>4. CASE Exec!MakeThread
  <2>1. from = "start" /\ writing = <<>> /\ from' \in {"start", "started"} /\ UNCHANGED <<nstart, nrun, nopen, writing, ses, nst, due>>
    BY <1>4 DEF Exec!MakeThread, Exec!flags
  <2>2. PICK t \in Thread : co[t] = "none" /\ co' = [co EXCEPT ![t] = "run"]
    BY <1>4 DEF Exec!MakeThread
  <2>3. co' \in [Thread -> {"none", "run", "exit", "threw"}] /\ \A u \in Thread : co'[u] = "exit" => co[u] = "exit"
    BY <2>2 DEF ExecInv
  <2>4. Exec!Work' = Exec!Work
    BY <2>1 DEF Exec!Work
  <2> QED BY <2>1, <2>3, <2>4 DEF ExecInv, Exec!Joined
<1>5. CASE Exec!Join
  <2>1. /\ UNCHANGED <<nstart, nrun, nopen, writing, ses, co, nst, due>>
        /\ from \in {"started", "join"}
        /\ from' \in {"join", "joined"}
        /\ from' = "joined" => \A t \in Thread : co[t] \in {"exit", "threw"}
    BY <1>5 DEF Exec!Join, Exec!flags, Exec!lists
  <2>2. Exec!Work' = Exec!Work
    BY <2>1 DEF Exec!Work
  <2> QED BY <2>1, <2>2 DEF ExecInv, Exec!Joined
<1>6. CASE Exec!StopCall \/ Exec!SignalHandler
  <2>1. UNCHANGED <<nstart, nopen, from, writing, co, nst>>
    BY <1>6 DEF Exec!StopCall, Exec!SignalHandler
  <2>2. nrun' /\ (nrun => ses' = ses)
    BY <1>6 DEF Exec!StopCall, Exec!SignalHandler, Exec!Stop
  <2>3. nrun => (due' = due \/ due' = "ended")
    BY <1>6 DEF Exec!StopCall, Exec!SignalHandler
  <2>4. nrun => (Exec!Work' => Exec!Work)
    BY <2>1, <2>2, <2>3 DEF Exec!Work
  <2> QED BY <2>1, <2>2, <2>4, ExecFacts, ExecQuiet
<1>7. CASE Exec!StopFunc
  <2>1. ses # "nobody" /\ UNCHANGED <<nstart, nrun, nopen, from, writing, ses, co>>
    BY <1>7 DEF Exec!StopFunc, Exec!flags
  <2> QED BY <2>1, ExecFacts, ExecQuiet
<1>8. CASE Exec!StopReturns
  <2>1. ses # "nobody" /\ ses' = "nobody" /\ nopen' = FALSE /\ UNCHANGED <<nstart, nrun, from, writing, co>>
    BY <1>8 DEF Exec!StopReturns, Exec!flags, Exec!Released
  <2> QED BY <2>1, ExecFacts, ExecQuiet
<1>9. CASE Exec!SignalArrives \/ Exec!ServiceEnds
  <2>1. Exec!Work /\ UNCHANGED <<nstart, nrun, nopen, from, writing, ses, co>>
    BY <1>9 DEF Exec!SignalArrives, Exec!ServiceEnds, Exec!flags, Exec!lists, Exec!Work
  <2> QED BY <2>1, ExecFacts, ExecQuiet
<1>10. CASE Exec!ThreadExits \/ Exec!ThreadThrows
  <2>1. UNCHANGED <<nstart, nrun, nopen, from, writing, ses, nst, due>>
    BY <1>10 DEF Exec!ThreadExits, Exec!ThreadThrows, Exec!flags, Exec!lists
  <2>2. PICK t \in Thread, at \in {"exit", "threw"} :
          co[t] = "run" /\ co' = [co EXCEPT ![t] = at] /\ (at = "exit" => ~nopen /\ ~Exec!Work)
    BY <1>10 DEF Exec!ThreadExits, Exec!ThreadThrows, Exec!Free
  <2>3. Exec!Work' = Exec!Work
    BY <2>1 DEF Exec!Work
  <2>4. co' \in [Thread -> {"none", "run", "exit", "threw"}] /\ \A u \in Thread : u # t => co'[u] = co[u]
    BY <2>2 DEF ExecInv
  <2>5. co'[t] = at
    BY <2>2 DEF ExecInv
  <2> QED BY <2>1, <2>2, <2>3, <2>4, <2>5 DEF ExecInv, Exec!Joined
<1> QED BY <1>1, <1>2, <1>3, <1>4, <1>5, <1>6, <1>7, <1>8, <1>9, <1>10 DEF Exec!Next, Exec!OwnerSteps, Exec!StopSteps

LEMMA ExecHolds == ExecInv => Exec!JoinMeansDone
BY DEF ExecInv, Exec!JoinMeansDone

-----------------------------------------------------------------------------
(***************************************************************************)
(* The fiber executor.  Every task given to Post is in one place: with its *)
(* caller, in the channel, with a thread, run, or refused.  A function     *)
(* from callers or threads to tasks is such a place; 0 is no task.         *)
(***************************************************************************)
Holds(f) == {f[x] : x \in DOMAIN f} \ {0}
Single(f) == \A x, y \in DOMAIN f : f[x] = f[y] /\ f[x] # 0 => x = y

LEMMA HoldsMore ==
  ASSUME NEW S, NEW f \in [S -> Nat], NEW g \in [S -> Nat], NEW x \in S,
         \A y \in S : y # x => g[y] = f[y], f[x] = 0, Single(f), g[x] # 0, g[x] \notin Holds(f)
  PROVE  Single(g) /\ Holds(g) = Holds(f) \cup {g[x]}
BY DEF Single, Holds

LEMMA HoldsLess ==
  ASSUME NEW S, NEW f \in [S -> Nat], NEW g \in [S -> Nat], NEW x \in S,
         \A y \in S : y # x => g[y] = f[y], g[x] = 0, Single(f), f[x] # 0
  PROVE  Single(g) /\ Holds(g) = Holds(f) \ {f[x]} /\ f[x] \in Holds(f)
BY DEF Single, Holds

Tasks(f) == [t \in Thread |-> f[t].task]
Pushed == Holds(nst)
Tasked == Holds(Tasks(co))
Queued == Range(posted)

FiberThread == [at : {"none", "pop", "run", "exit", "threw"}, task : Nat]

FiberTypes ==
  /\ co \in [Thread -> FiberThread]
  /\ nst \in [Fiber!Caller -> Nat]
  /\ posted \in Seq(Nat)
  /\ hasData \in Nat

\* No task is lost or in two places.
Kept ==
  /\ 1..hasData = out \cup due \cup Queued \cup Pushed \cup Tasked
  /\ out \cap (due \cup Queued \cup Pushed \cup Tasked) = {}
  /\ due \cap (Queued \cup Pushed \cup Tasked) = {}
  /\ Queued \cap (Pushed \cup Tasked) = {}
  /\ Pushed \cap Tasked = {}
  /\ Single(nst) /\ Single(Tasks(co)) /\ Once(posted, Nat)

FiberInv ==
  /\ FiberTypes
  /\ Kept
  /\ \A t \in Thread : co[t].at = "run" <=> co[t].task # 0
  /\ (\E t \in Thread : co[t].at = "exit") => nopen /\ posted = <<>>
  /\ from # "idle" => nstart
  /\ Fiber!Joined => \A t \in Thread : co[t].at \in {"exit", "threw"}

LEMMA FiberRange == \A f : Fiber!Range(f) = Range(f)
BY DEF Fiber!Range, Range

LEMMA FiberHolds == FiberInv => Fiber!AcceptedAreRun
<1> SUFFICES ASSUME FiberInv PROVE Fiber!AcceptedAreRun
  OBVIOUS
<1>1. FiberTypes /\ Kept
  BY DEF FiberInv
<1> DEFINE pushed == {nst[p] : p \in Fiber!Caller}
           tasked == {co[t].task : t \in Thread}
<1>2. pushed \ {0} = Pushed /\ tasked \ {0} = Tasked
  BY <1>1 DEF FiberTypes, Pushed, Tasked, Holds, Tasks
<1>3. 0 \notin out /\ 0 \notin Queued
  <2>1. 0 \notin 1..hasData
    BY <1>1 DEF FiberTypes
  <2> QED BY <1>1, <2>1 DEF Kept
<1>4. out \cap (due \cup Queued \cup pushed \cup tasked) \subseteq {0}
  <2> HIDE DEF pushed, tasked
  <2> QED BY <1>1, <1>2, <1>3 DEF Kept
<1>5. ASSUME Fiber!Joined, NEW t \in Thread, co[t].at # "threw"
      PROVE  out = (1..hasData) \ (due \cup pushed)
  <2>1. posted = <<>> /\ \A u \in Thread : co[u].task = 0
    BY <1>5 DEF FiberInv
  <2>2. Queued = {} /\ Tasked = {}
    <3>1. Queued = {}
      BY <2>1, EmptyOnce DEF Queued
    <3>2. tasked \subseteq {0}
      BY <2>1
    <3> QED BY <1>2, <3>1, <3>2
  <2> HIDE DEF pushed, tasked
  <2> QED BY <1>1, <1>2, <1>3, <2>2 DEF Kept, FiberTypes
<1> HIDE DEF Pushed, Tasked
<1> QED BY <1>4, <1>5, FiberRange DEF Fiber!AcceptedAreRun, Queued, Fiber!NoTask

LEMMA FiberInit == Fiber!Init => FiberInv
<1> SUFFICES ASSUME Fiber!Init PROVE FiberInv
  OBVIOUS
<1>1. /\ co = [t \in Thread |-> [at |-> "none", task |-> 0]] /\ nst = [p \in Fiber!Caller |-> 0]
      /\ posted = <<>> /\ hasData = 0 /\ due = {} /\ out = {} /\ from = "idle"
  BY DEF Fiber!Init, Fiber!At, Fiber!NoTask
<1>2. FiberTypes
  BY <1>1 DEF FiberTypes, FiberThread
<1>3. Pushed = {} /\ Tasked = {} /\ Queued = {} /\ Once(posted, Nat)
  BY <1>1, EmptyOnce DEF Pushed, Tasked, Queued, Holds, Tasks
<1>4. Single(nst) /\ Single(Tasks(co))
  BY <1>1 DEF Single, Tasks
<1>5. 1..hasData = {}
  BY <1>1
<1>6. Kept
  BY <1>1, <1>3, <1>4, <1>5 DEF Kept
<1> QED BY <1>1, <1>2, <1>6 DEF FiberInv, Fiber!Joined

\* Steps that leave the tasks alone.
LEMMA FiberQuiet ==
  ASSUME FiberInv, UNCHANGED <<nst, posted, hasData, due, out>>, co' \in [Thread -> FiberThread],
         \A t \in Thread : /\ co'[t].task = co[t].task /\ (co'[t].at = "run" <=> co[t].at = "run")
                           /\ co'[t].at = "exit" => co[t].at = "exit" \/ (nopen /\ posted = <<>>)
                           /\ co[t].at \in {"exit", "threw"} => co'[t].at \in {"exit", "threw"},
         nopen => nopen', nstart => nstart',
         \/ from' = from
         \/ from' # "joined" /\ (from' # "idle" => nstart')
         \/ from' = "joined" /\ nstart' /\ \A t \in Thread : co'[t].at \in {"exit", "threw"}
  PROVE  FiberInv'
<1>1. Tasks(co') = Tasks(co)
  BY DEF Tasks
<1>2. Tasked' = Tasked /\ Queued' = Queued /\ Pushed' = Pushed
  BY <1>1 DEF Tasked, Queued, Pushed, Tasks
<1>3. Kept'
  BY <1>1, <1>2 DEF FiberInv, Kept, Tasks
<1>4. FiberTypes'
  BY DEF FiberInv, FiberTypes, Fiber!Caller
<1> QED BY <1>3, <1>4 DEF FiberInv, Fiber!Joined

\* A task is posted by p.
LEMMA FiberPost ==
  ASSUME FiberInv, NEW p \in Fiber!Caller, Fiber!Post(p), UNCHANGED <<posted, due, out, co, nopen, nstart, from>>
  PROVE  FiberInv'
<1>0. FiberTypes /\ Kept
  BY DEF FiberInv
<1> DEFINE n == hasData + 1
<1>1. nst[p] = 0 /\ hasData' = n /\ nst' = [nst EXCEPT ![p] = n]
  BY DEF Fiber!Post, Fiber!Idle, Fiber!NoTask
<1>2. n \in Nat \ {0} /\ n \notin 1..hasData /\ 1..hasData' = (1..hasData) \cup {n}
  BY <1>0, <1>1 DEF FiberTypes
<1>3. nst' \in [Fiber!Caller -> Nat] /\ Single(nst') /\ Holds(nst') = Holds(nst) \cup {n}
  <2> HIDE DEF n
  <2>1. n \notin Holds(nst)
    BY <1>0, <1>2 DEF Kept, Pushed
  <2>2. nst \in [Fiber!Caller -> Nat] /\ Single(nst)
    BY <1>0 DEF FiberTypes, Kept
  <2>3. nst' \in [Fiber!Caller -> Nat] /\ nst'[p] = n /\ \A q \in Fiber!Caller : q # p => nst'[q] = nst[q]
    BY <1>1, <1>2, <2>2
  <2>4. Single(nst') /\ Holds(nst') = Holds(nst) \cup {nst'[p]}
    <3>1. nst[p] = 0 /\ nst'[p] # 0 /\ nst'[p] \notin Holds(nst)
      BY <1>1, <1>2, <2>1, <2>2, <2>3
    <3>2. \A q \in Fiber!Caller : q # p => nst'[q] = nst[q]
      BY <2>3
    <3> QED BY <2>2, <2>3, <3>1, <3>2, HoldsMore
  <2> QED BY <2>3, <2>4
<1>4. Pushed' = Pushed \cup {n} /\ Tasked' = Tasked /\ Queued' = Queued
  BY <1>3 DEF Pushed, Tasked, Queued, Tasks
<1>5. Kept'
  <2>1. Single(nst)' /\ Single(Tasks(co))' /\ Once(posted, Nat)'
    BY <1>0, <1>3 DEF Kept, Tasks, Single
  <2> HIDE DEF n
  <2> QED BY <1>0, <1>1, <1>2, <1>4, <2>1 DEF Kept
<1>6. FiberTypes'
  BY <1>0, <1>1, <1>2, <1>3 DEF FiberTypes, Fiber!Caller
<1> QED BY <1>5, <1>6 DEF FiberInv, Fiber!Joined

LEMMA FiberPushes ==
  ASSUME FiberInv, NEW p \in Fiber!Caller, Fiber!Pushes(p)
  PROVE  FiberInv'
<1>0. FiberTypes /\ Kept
  BY DEF FiberInv
<1> DEFINE n == nst[p]
<1>1. n # 0 /\ nst' = [nst EXCEPT ![p] = 0] /\ UNCHANGED <<nstart, from, nopen, co, hasData, out>>
  BY DEF Fiber!Pushes, Fiber!NoTask, Fiber!flags
<1>2. nst' \in [Fiber!Caller -> Nat] /\ Single(nst') /\ Holds(nst') = Holds(nst) \ {n} /\ n \in Holds(nst)
  <2>1. nst \in [Fiber!Caller -> Nat] /\ Single(nst)
    BY <1>0 DEF FiberTypes, Kept
  <2>2. nst' \in [Fiber!Caller -> Nat] /\ nst'[p] = 0 /\ \A q \in Fiber!Caller : q # p => nst'[q] = nst[q]
    BY <1>1, <2>1
  <2>3. nst[p] # 0 /\ nst'[p] = 0
    BY <1>1, <2>2
  <2>4. \A q \in Fiber!Caller : q # p => nst'[q] = nst[q]
    BY <2>2
  <2>5. Single(nst') /\ Holds(nst') = Holds(nst) \ {nst[p]} /\ nst[p] \in Holds(nst)
    BY <2>1, <2>2, <2>3, <2>4, HoldsLess
  <2> QED BY <2>2, <2>5
<1>3. n \in Nat
  BY <1>0 DEF FiberTypes
<1> HIDE DEF n
<1>4. Pushed' = Pushed \ {n} /\ n \in Pushed /\ Tasked' = Tasked
  BY <1>1, <1>2 DEF Pushed, Tasked, Tasks
<1>5. Single(nst)' /\ Single(Tasks(co))'
  BY <1>0, <1>1, <1>2 DEF Kept, Tasks, Single
<1>6. CASE nopen /\ due' = due \cup {n} /\ posted' = posted
  <2>1. Queued' = Queued /\ Once(posted, Nat)'
    BY <1>0, <1>6 DEF Queued, Kept
  <2>2. Kept'
    BY <1>0, <1>1, <1>4, <1>5, <1>6, <2>1 DEF Kept
  <2>3. FiberTypes'
    BY <1>0, <1>1, <1>2, <1>6 DEF FiberTypes, Fiber!Caller
  <2> QED BY <1>1, <1>6, <2>2, <2>3 DEF FiberInv, Fiber!Joined
<1>7. CASE ~nopen /\ posted' = Append(posted, n) /\ due' = due
  <2>1. n \notin Queued
    BY <1>0, <1>4 DEF Kept
  <2>2. posted' \in Seq(Nat) /\ Queued' = Queued \cup {n} /\ Once(posted, Nat)'
    <3>1. posted \in Seq(Nat) /\ Once(posted, Nat) /\ n \notin Range(posted)
      BY <1>0, <2>1 DEF FiberTypes, Kept, Queued
    <3>2. /\ Append(posted, n) \in Seq(Nat) /\ Range(Append(posted, n)) = Range(posted) \cup {n}
          /\ Once(Append(posted, n), Nat)
      BY <1>3, <3>1, AppendOnce
    <3> QED BY <1>7, <3>2 DEF Queued, Once, Range
  <2>3. Kept'
    BY <1>0, <1>1, <1>4, <1>5, <1>7, <2>2 DEF Kept
  <2>4. FiberTypes'
    BY <1>0, <1>1, <1>2, <2>2 DEF FiberTypes, Fiber!Caller
  <2> QED BY <1>1, <1>7, <2>3, <2>4 DEF FiberInv, Fiber!Joined
<1> QED BY <1>6, <1>7 DEF Fiber!Pushes, n

\* A thread that becomes f, with the task n of it instead of m, one of which is none.
LEMMA FiberThreads ==
  ASSUME FiberTypes, NEW t \in Thread, NEW x \in FiberThread, co' = [co EXCEPT ![t] = x]
  PROVE  /\ co' \in [Thread -> FiberThread] /\ co'[t] = x
         /\ \A u \in Thread : u # t => co'[u] = co[u]
         /\ Tasks(co) \in [Thread -> Nat] /\ Tasks(co') = [Tasks(co) EXCEPT ![t] = x.task] /\ Tasks(co)[t] = co[t].task
<1>1. co' \in [Thread -> FiberThread] /\ co'[t] = x /\ \A u \in Thread : u # t => co'[u] = co[u]
  BY DEF FiberTypes
<1>2. \A y \in FiberThread : y.task \in Nat
  BY DEF FiberThread
<1>3. Tasks(co) \in [Thread -> Nat] /\ Tasks(co)[t] = co[t].task
  BY <1>2 DEF FiberTypes, Tasks
<1>4. Tasks(co') = [Tasks(co) EXCEPT ![t] = x.task]
  BY <1>1, <1>3 DEF Tasks
<1> QED BY <1>1, <1>3, <1>4

LEMMA FiberPop ==
  ASSUME FiberInv, NEW t \in Thread, Fiber!Pop(t)
  PROVE  FiberInv'
<1>0. FiberTypes /\ Kept
  BY DEF FiberInv
<1>1. co[t].at = "pop" /\ co[t].task = 0 /\ UNCHANGED <<nstart, from, nopen, nst, hasData, due, out>>
  BY DEF Fiber!Pop, Fiber!flags, FiberInv
<1>2. CASE Fiber!Drained /\ co' = [co EXCEPT ![t] = Fiber!At("exit")] /\ UNCHANGED posted
  <2>1. Fiber!At("exit") \in FiberThread /\ Fiber!At("exit").at = "exit" /\ Fiber!At("exit").task = 0
    BY DEF Fiber!At, Fiber!NoTask, FiberThread
  <2> QED BY <1>0, <1>1, <1>2, <2>1, FiberThreads, FiberQuiet DEF Fiber!Drained
<1>3. CASE posted # <<>> /\ co' = [co EXCEPT ![t] = [at |-> "run", task |-> Head(posted)]] /\ posted' = Tail(posted)
  <2> DEFINE n == Head(posted)
  <2>1. /\ n \in Nat /\ posted' \in Seq(Nat) /\ Range(posted) = {n} \cup Range(posted')
        /\ Once(posted', Nat) /\ n \notin Range(posted')
    BY <1>0, <1>3, TailOnce DEF FiberTypes, Kept
  <2> HIDE DEF n
  <2>2. Queued' = Queued \ {n} /\ n \in Queued /\ n # 0
    <3>1. Queued' = Queued \ {n} /\ n \in Queued
      BY <2>1 DEF Queued
    <3>2. 0 \notin 1..hasData
      BY <1>0 DEF FiberTypes
    <3> QED BY <1>0, <3>1, <3>2 DEF Kept
  <2> DEFINE x == [at |-> "run", task |-> n]
  <2>3. x \in FiberThread /\ x.at = "run" /\ x.task = n
    BY <2>1 DEF FiberThread
  <2> HIDE DEF x
  <2>4. co' = [co EXCEPT ![t] = x]
    BY <1>3 DEF x, n
  <2>5. /\ co' \in [Thread -> FiberThread] /\ co'[t] = x
        /\ \A u \in Thread : u # t => co'[u] = co[u]
        /\ Tasks(co) \in [Thread -> Nat] /\ Tasks(co') = [Tasks(co) EXCEPT ![t] = n] /\ Tasks(co)[t] = 0
    BY <1>0, <1>1, <2>3, <2>4, FiberThreads
  <2>6. Single(Tasks(co')) /\ Holds(Tasks(co')) = Holds(Tasks(co)) \cup {n}
    <3>1. n \notin Holds(Tasks(co)) /\ Single(Tasks(co))
      BY <1>0, <2>2 DEF Kept, Tasked
    <3>2. n \in Nat \ {0}
      BY <2>1, <2>2
    <3>3. Tasks(co') \in [Thread -> Nat] /\ Tasks(co')[t] = n /\ \A u \in Thread : u # t => Tasks(co')[u] = Tasks(co)[u]
      BY <2>5, <3>2
    <3>4. Single(Tasks(co')) /\ Holds(Tasks(co')) = Holds(Tasks(co)) \cup {Tasks(co')[t]}
      <4>1. Tasks(co) \in [Thread -> Nat] /\ Tasks(co)[t] = 0 /\ Tasks(co')[t] # 0 /\ Tasks(co')[t] \notin Holds(Tasks(co))
        BY <2>5, <3>1, <3>2, <3>3
      <4>2. \A u \in Thread : u # t => Tasks(co')[u] = Tasks(co)[u]
        BY <3>3
      <4> QED BY <3>1, <3>3, <4>1, <4>2, HoldsMore
    <3> QED BY <3>3, <3>4
  <2>7. Tasked' = Tasked \cup {n} /\ Pushed' = Pushed
    BY <1>1, <2>6 DEF Tasked, Pushed, Tasks
  <2>8. Kept'
    <3>1. Single(nst)' /\ Single(Tasks(co))' /\ Once(posted, Nat)'
      BY <1>0, <1>1, <2>1, <2>6 DEF Kept, Single, Tasks, Once
    <3> QED BY <1>0, <1>1, <2>2, <2>7, <3>1 DEF Kept
  <2>9. FiberTypes'
    BY <1>0, <1>1, <2>1, <2>5 DEF FiberTypes, Fiber!Caller
  <2>10. (\A u \in Thread : co[u].at = "run" <=> co[u].task # 0)'
    BY <2>2, <2>3, <2>5 DEF FiberInv
  <2>11. (\E u \in Thread : co[u].at = "exit")' => FALSE
    BY <1>3, <2>3, <2>5 DEF FiberInv
  <2>12. (Fiber!Joined => \A u \in Thread : co[u].at \in {"exit", "threw"})'
    BY <1>1 DEF FiberInv, Fiber!Joined
  <2> QED BY <1>1, <2>8, <2>9, <2>10, <2>11, <2>12 DEF FiberInv
<1> QED BY <1>2, <1>3 DEF Fiber!Pop

LEMMA FiberTaskEnds ==
  ASSUME FiberInv, NEW t \in Thread, NEW at \in {"pop", "threw"}, Fiber!TaskEnds(t, at)
  PROVE  FiberInv'
<1>0. FiberTypes /\ Kept
  BY DEF FiberInv
<1> DEFINE n == co[t].task
           x == Fiber!At(at)
<1>1. /\ co[t].at = "run" /\ n # 0 /\ co' = [co EXCEPT ![t] = x] /\ out' = out \cup {n}
      /\ UNCHANGED <<nstart, from, nopen, nst, hasData, due, posted>>
  BY DEF Fiber!TaskEnds, Fiber!Running, Fiber!flags, FiberInv
<1>2. x \in FiberThread /\ x.at = at /\ x.task = 0
  BY DEF Fiber!At, Fiber!NoTask, FiberThread
<1> HIDE DEF n, x
<1>3. /\ co' \in [Thread -> FiberThread] /\ co'[t] = x
      /\ \A u \in Thread : u # t => co'[u] = co[u]
      /\ Tasks(co) \in [Thread -> Nat] /\ Tasks(co') = [Tasks(co) EXCEPT ![t] = 0] /\ Tasks(co)[t] = n
  BY <1>0, <1>1, <1>2, FiberThreads DEF n
<1>4. Single(Tasks(co')) /\ Holds(Tasks(co')) = Holds(Tasks(co)) \ {n} /\ n \in Holds(Tasks(co))
  <2>1. Single(Tasks(co))
    BY <1>0 DEF Kept
  <2>2. Tasks(co') \in [Thread -> Nat] /\ Tasks(co')[t] = 0 /\ \A u \in Thread : u # t => Tasks(co')[u] = Tasks(co)[u]
    BY <1>3
  <2>3. Tasks(co) \in [Thread -> Nat] /\ Tasks(co)[t] # 0
    BY <1>1, <1>3
  <2>4. \A u \in Thread : u # t => Tasks(co')[u] = Tasks(co)[u]
    BY <2>2
  <2>5. Single(Tasks(co')) /\ Holds(Tasks(co')) = Holds(Tasks(co)) \ {Tasks(co)[t]} /\ Tasks(co)[t] \in Holds(Tasks(co))
    BY <2>1, <2>2, <2>3, <2>4, HoldsLess
  <2> QED BY <1>3, <2>5
<1>5. Tasked' = Tasked \ {n} /\ n \in Tasked /\ Pushed' = Pushed /\ Queued' = Queued
  BY <1>1, <1>4 DEF Tasked, Pushed, Queued, Tasks
<1>6. Kept'
  <2>1. Single(nst)' /\ Single(Tasks(co))' /\ Once(posted, Nat)'
    BY <1>0, <1>1, <1>4 DEF Kept, Single, Tasks, Once
  <2> QED BY <1>0, <1>1, <1>5, <2>1 DEF Kept
<1>7. FiberTypes'
  BY <1>0, <1>1, <1>3 DEF FiberTypes, Fiber!Caller
<1>8. (\A u \in Thread : co[u].at = "run" <=> co[u].task # 0)'
  BY <1>2, <1>3 DEF FiberInv
<1>9. (\E u \in Thread : co[u].at = "exit")' => nopen' /\ posted' = <<>>
  BY <1>1, <1>2, <1>3 DEF FiberInv
<1>10. (Fiber!Joined => \A u \in Thread : co[u].at \in {"exit", "threw"})'
  BY <1>1 DEF FiberInv, Fiber!Joined
<1> QED BY <1>1, <1>6, <1>7, <1>8, <1>9, <1>10 DEF FiberInv

LEMMA FiberStep ==
  ASSUME FiberInv, Fiber!Next
  PROVE  FiberInv'
<1>0. FiberTypes /\ (from # "idle" => nstart)
  BY DEF FiberInv
<1>1. CASE Fiber!PostCall
  <2>1. PICK p \in Fiber!Caller : Fiber!Post(p)
    BY <1>1 DEF Fiber!PostCall, Fiber!Caller
  <2> QED BY <1>1, <2>1, FiberPost DEF Fiber!PostCall, Fiber!flags
<1>2. CASE \E p \in Fiber!Caller : Fiber!Pushes(p)
  BY <1>2, FiberPushes
<1>3. CASE Fiber!RegisterSvrFunc \/ Fiber!Start \/ Fiber!StopCall \/ Fiber!StopFunc \/ Fiber!StopReturns
  <2>1. /\ UNCHANGED <<nst, posted, hasData, due, out, co>>
        /\ nopen => nopen'
        /\ nstart => nstart'
        /\ from' = from \/ (from' = "start" /\ nstart')
    BY <1>3 DEF Fiber!RegisterSvrFunc, Fiber!Start, Fiber!StopCall, Fiber!StopFunc, Fiber!StopReturns, Fiber!tasks, Fiber!flags
  <2> QED BY <1>0, <2>1, FiberQuiet DEF FiberTypes
<1>4. CASE Fiber!StartFunc
  <2>1. UNCHANGED <<posted, due, out, co, nopen, nstart, from>>
    BY <1>4 DEF Fiber!StartFunc, Fiber!flags
  <2>2. CASE Fiber!Post("owner")
    BY <2>1, <2>2, FiberPost DEF Fiber!Caller
  <2>3. CASE UNCHANGED <<hasData, nst>>
    BY <1>0, <2>1, <2>3, FiberQuiet DEF FiberTypes
  <2> QED BY <1>4, <2>2, <2>3 DEF Fiber!StartFunc
<1>5. CASE Fiber!MakeThread
  <2>1. /\ UNCHANGED <<nst, posted, hasData, due, out, nopen, nstart>> /\ from = "start" /\ from' \in {"start", "started"}
    BY <1>5 DEF Fiber!MakeThread, Fiber!tasks, Fiber!flags
  <2>2. PICK t \in Thread : co[t].at = "none" /\ co' = [co EXCEPT ![t] = Fiber!At("pop")]
    BY <1>5 DEF Fiber!MakeThread
  <2>3. Fiber!At("pop") \in FiberThread /\ Fiber!At("pop").at = "pop" /\ Fiber!At("pop").task = 0
    BY DEF Fiber!At, Fiber!NoTask, FiberThread
  <2>4. co[t].task = 0
    BY <2>2 DEF FiberInv
  <2> QED BY <1>0, <2>1, <2>2, <2>3, <2>4, FiberThreads, FiberQuiet
<1>6. CASE Fiber!Join
  <2>1. /\ UNCHANGED <<nst, posted, hasData, due, out, co, nopen, nstart>> /\ from \in {"started", "join"}
        /\ from' = "join" \/ (from' = "joined" /\ \A t \in Thread : co[t].at \in {"exit", "threw"})
    BY <1>6 DEF Fiber!Join, Fiber!tasks, Fiber!flags
  <2> QED BY <1>0, <2>1, FiberQuiet DEF FiberTypes
<1>7. CASE \E t \in Thread : Fiber!Pop(t)
  BY <1>7, FiberPop
<1>8. CASE \E t \in Thread : Fiber!TaskReturns(t) \/ Fiber!TaskThrows(t)
  <2>1. PICK t \in Thread, at \in {"pop", "threw"} : Fiber!TaskEnds(t, at)
    BY <1>8 DEF Fiber!TaskReturns, Fiber!TaskThrows
  <2> QED BY <2>1, FiberTaskEnds
<1> QED BY <1>1, <1>2, <1>3, <1>4, <1>5, <1>6, <1>7, <1>8 DEF Fiber!Next, Fiber!OwnerSteps, Fiber!StopSteps

-----------------------------------------------------------------------------
(***************************************************************************)
(* The parts together.  A behaviour is about one part, whose invariant its *)
(* steps keep; the log session needs a timer period of a second or more.   *)
(***************************************************************************)
PartsInv ==
  /\ part = "cs" => CsInv
  /\ part = "udp" => UdpInv
  /\ part = "cssession" => CsSesInv
  /\ part = "httpsession" => HttpSesInv
  /\ part = "logsession" /\ ~SubSecond => LogSesInv
  /\ part = "executor" => ExecInv
  /\ part = "fiber" => FiberInv

LEMMA PartsInit == MCInit => PartsInv
<1> SUFFICES ASSUME MCInit PROVE PartsInv
  OBVIOUS
<1>1. /\ part = "cs" => Cs!Init
      /\ part = "udp" => Udp!Init
      /\ part = "cssession" => CsSes!Init
      /\ part = "httpsession" => HttpSes!Init
      /\ part = "logsession" => LogSes!Init
      /\ part = "executor" => Exec!Init
      /\ part = "fiber" => Fiber!Init
  BY DEF MCInit
<1> QED BY <1>1, CsInit, UdpInit, CsSesInit, HttpSesInit, LogSesInit, ExecInit, FiberInit DEF PartsInv

\* A step is one of the part's own, or changes nothing.
LEMMA PartsSteps ==
  ASSUME [MCNext]_mcvars
  PROVE  /\ part' = part
         /\ \/ part = "cs" => Cs!Next
            \/ UNCHANGED <<nstart, nopen, npool, nst, co, ep, missed>>
         /\ \/ part = "udp" => Udp!Next
            \/ UNCHANGED <<nopen, npool, co, from, ses>>
         /\ \/ part = "cssession" => CsSes!Next
            \/ UNCHANGED <<due, co, posted, list, writing, out>>
         /\ \/ part = "httpsession" => HttpSes!Next
            \/ UNCHANGED <<co, close, rsp, asked, out>>
         /\ \/ part = "logsession" => LogSes!Next
            \/ UNCHANGED <<co, hasData, posted, list, writing, out>>
         /\ \/ part = "executor" => Exec!Next
            \/ UNCHANGED <<nstart, nrun, nopen, nst, due, co, from, ses, writing>>
         /\ \/ part = "fiber" => Fiber!Next
            \/ UNCHANGED <<nstart, nopen, nst, due, co, from, hasData, posted, out>>
<1>1. CASE MCNext
  BY <1>1 DEF MCNext, CsRest, UdpRest, CsSesRest, HttpSesRest, LogSesRest, ExecRest
<1>2. CASE UNCHANGED mcvars
  BY <1>2 DEF mcvars, net
<1> QED BY <1>1, <1>2

LEMMA PartsStep ==
  ASSUME PartsInv, [MCNext]_mcvars
  PROVE  PartsInv'
<1>1. (part = "cs" => CsInv)'
  <2>1. ASSUME CsInv, UNCHANGED <<nstart, nopen, npool, nst, co, ep, missed>> PROVE CsInv'
    BY <2>1 DEF CsInv, CsTypes, CsHeld, CsFiled, Cs!Pooled, Cs!Held
  <2> QED BY <2>1, PartsSteps, CsStep DEF PartsInv
<1>2. (part = "udp" => UdpInv)'
  <2>1. ASSUME UdpInv, UNCHANGED <<nopen, npool, co, from, ses>> PROVE UdpInv'
    BY <2>1 DEF UdpInv, UdpTypes
  <2> QED BY <2>1, PartsSteps, UdpStep DEF PartsInv
<1>3. (part = "cssession" => CsSesInv)'
  <2>1. ASSUME CsSesInv, UNCHANGED <<due, co, posted, list, writing, out>> PROVE CsSesInv'
    BY <2>1 DEF CsSesInv, CsSesTypes, CsSes!NothingLost, CsSes!Calls
  <2> QED BY <2>1, PartsSteps, CsSesStep DEF PartsInv
<1>4. (part = "httpsession" => HttpSesInv)'
  <2>1. ASSUME HttpSesInv, UNCHANGED <<co, close, rsp, asked, out>> PROVE HttpSesInv'
    BY <2>1 DEF HttpSesInv, HttpSesTypes, HttpSes!RepliesInOrder, HttpSes!Req, Answered, Owed, GoesOn, Answering
  <2> QED BY <2>1, PartsSteps, HttpSesStep DEF PartsInv
<1>5. (part = "logsession" /\ ~SubSecond => LogSesInv)'
  <2>1. ASSUME LogSesInv, UNCHANGED <<co, hasData, posted, list, writing, out>> PROVE LogSesInv'
    BY <2>1 DEF LogSesInv, LogSesTypes, LogSes!NothingOverwritten, LogSes!Written
  <2> QED BY <2>1, PartsSteps, LogSesStep DEF PartsInv
<1>6. (part = "executor" => ExecInv)'
  <2>1. ASSUME ExecInv, UNCHANGED <<nstart, nrun, nopen, nst, due, co, from, ses, writing>> PROVE ExecInv'
    BY <2>1 DEF ExecInv, Exec!Work, Exec!Joined
  <2> QED BY <2>1, PartsSteps, ExecStep DEF PartsInv
<1>7. (part = "fiber" => FiberInv)'
  <2>1. ASSUME FiberInv, UNCHANGED <<nstart, nopen, nst, due, co, from, hasData, posted, out>> PROVE FiberInv'
    BY <2>1 DEF FiberInv, FiberTypes, Kept, Tasks, Pushed, Tasked, Queued, Fiber!Caller, Fiber!Joined
  <2> QED BY <2>1, PartsSteps, FiberStep DEF PartsInv
<1> QED BY <1>1, <1>2, <1>3, <1>4, <1>5, <1>6, <1>7 DEF PartsInv

LEMMA PartsHold == PartsInv => (~SubSecond \/ part # "logsession" => ServersHold)
BY CsHolds, UdpHolds, ExecHolds, FiberHolds DEF PartsInv, ServersHold, CsSesInv, HttpSesInv, LogSesInv

LEMMA AlwaysParts == MCSpec => []PartsInv
BY PartsInit, PartsStep, PTL DEF MCSpec

\* What the pools, sessions and executors promise: the maps of the TCP and
\* the UDP server are bounded and filed by endpoint, a TCP session neither
\* loses nor doubles nor reorders messages, an HTTP session answers every
\* request once and in order, a log session keeps every read unless its timer
\* fires twice within a second, and the two executors have done what they
\* accepted when Join returns.
THEOREM ServersKeepTheirWord ==
  ASSUME ~SubSecond
  PROVE  MCSpec => []ServersHold
<1>1. PartsInv => ServersHold
  BY PartsHold
<1> QED BY <1>1, AlwaysParts, PTL

\* The period of the log session's timer matters to the log session only.
THEOREM OthersKeepTheirWord == MCSpec => [](part # "logsession" => ServersHold)
<1>1. PartsInv => (part # "logsession" => ServersHold)
  BY PartsHold
<1> QED BY <1>1, AlwaysParts, PTL
=============================================================================
