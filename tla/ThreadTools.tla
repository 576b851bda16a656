------------------------------- MODULE ThreadTools -------------------------------
(***************************************************************************)
(* The helpers of ytlib/thread: LightSignal and LightSignalAtomic          *)
(* (signal.hpp), CoroSched, a coroutine whose values another thread takes  *)
(* (coroutine_tools.hpp), and the ids of GuidGener (guid.hpp).             *)
(***************************************************************************)
EXTENDS Integers, Sequences, FiniteSets

CONSTANTS
  Thread,     \* threads that use the signal
  MaxYield,   \* bound: values the coroutine yields
  InstNum,    \* GUID_INST_NUM: one more than the largest instance number
  Time,       \* what the clock may show: seconds since 2021
  MaxGuid     \* bound: guids that are generated

VARIABLES
  atomic,     \* the signal is a LightSignalAtomic
  flag,       \* flag_ of the signal
  pc,         \* "idle", "sleep", "woken", "notify" (between the store and notify_all)
  owed,       \* history: threads that a notify found asleep and that have not returned
  state,      \* flag_ of the CoroSched: "RUN", "YIELD", "END"
  body,       \* the coroutine: "run", "stored" (flag_, not yet suspended), "parked", "done"
  ret,        \* ret_: how many values the coroutine has given
  user,       \* "new" (no Get since Resume), "seen", "exchange" (within Resume)
  seen,       \* history: what the first Get after each Resume returned
  careful,    \* history: every Resume followed a Get
  broken,     \* a coroutine that was not suspended has been resumed
  guid,       \* the guid of one object id: its time t and instance number ins
  issued      \* history: the guids that were given

svars == <<atomic, flag, pc, owed>>
cvars == <<state, body, ret, user, seen, careful, broken>>
gvars == <<guid, issued>>

SignalInit ==
  /\ atomic \in BOOLEAN /\ flag = FALSE
  /\ pc = [t \in Thread |-> "idle"] /\ owed = {}

CoroInit ==
  /\ state = "RUN" /\ body = "run" /\ ret = 0
  /\ user = "new" /\ seen = <<>> /\ careful = TRUE /\ broken = FALSE

GuidInit == guid = [t |-> 0, ins |-> 0] /\ issued = <<>>

Init == SignalInit /\ CoroInit /\ GuidInit

-----------------------------------------------------------------------------
Asleep == {t \in Thread : pc[t] = "sleep"}

\* Mutant of Woken: notify_one.
OneWoken == IF Asleep = {} THEN pc ELSE [pc EXCEPT ![CHOOSE t \in Asleep : TRUE] = "woken"]

Woken == [t \in Thread |-> IF t \in Asleep THEN "woken" ELSE pc[t]]

\* A waiter of the mutex version does not look at flag_ once it is woken.
Wait(t) ==
  /\ pc[t] = "idle" /\ ~flag
  /\ pc' = [pc EXCEPT ![t] = "sleep"]
  /\ UNCHANGED <<atomic, flag, owed>>

Notify(t) ==
  /\ pc[t] = "idle" /\ flag' = TRUE
  /\ IF atomic THEN pc' = [pc EXCEPT ![t] = "notify"] /\ UNCHANGED owed
     ELSE pc' = Woken /\ owed' = owed \cup Asleep
  /\ UNCHANGED atomic

NotifyAll(t) ==
  /\ pc[t] = "notify"
  /\ pc' = [Woken EXCEPT ![t] = "idle"]
  /\ owed' = IF flag THEN owed \cup Asleep ELSE owed
  /\ UNCHANGED <<atomic, flag>>

Returns(t) ==
  /\ pc[t] = "woken"
  /\ pc' = [pc EXCEPT ![t] = IF atomic /\ ~flag THEN "sleep" ELSE "idle"]
  /\ owed' = IF atomic /\ ~flag THEN owed ELSE owed \ {t}
  /\ UNCHANGED <<atomic, flag>>

\* A wake-up without a notify, or the time of wait_for is over.
WakesUp(t) ==
  /\ pc[t] = "sleep"
  /\ pc' = [pc EXCEPT ![t] = "woken"]
  /\ UNCHANGED <<atomic, flag, owed>>

\* After a reset, a LightSignalAtomic owes its wake-ups to nobody.
Reset(t) ==
  /\ pc[t] = "idle" /\ flag' = FALSE
  /\ owed' = IF atomic THEN {} ELSE owed
  /\ UNCHANGED <<atomic, pc>>

SignalNext ==
  \E t \in Thread : Wait(t) \/ Notify(t) \/ NotifyAll(t) \/ Returns(t) \/ WakesUp(t) \/ Reset(t)

\* Nobody sleeps on a set flag, unless the notify_all is still to come, and
\* whoever a notify found asleep returns, even if a reset follows (of a
\* LightSignalAtomic: unless one follows).
NotifiedReturn ==
  /\ flag => Asleep = {} \/ \E t \in Thread : pc[t] = "notify"
  /\ owed \cap Asleep = {}

-----------------------------------------------------------------------------
\* co_yield and co_return store the flag first; the coroutine is suspended
\* only after that.
Gives ==
  /\ body = "run" /\ ~broken /\ ret' = ret + 1
  /\ \/ ret < MaxYield /\ state' = "YIELD" /\ body' = "stored"
     \/ state' = "END" /\ body' = "done"
  /\ UNCHANGED <<user, seen, careful, broken>>

Suspends ==
  /\ body = "stored" /\ ~broken /\ body' = "parked"
  /\ UNCHANGED <<state, ret, user, seen, careful, broken>>

\* Get waits while the flag is RUN.
Get ==
  /\ user \in {"new", "seen"} /\ state # "RUN" /\ ~broken
  /\ user' = "seen"
  /\ seen' = IF user = "new" THEN Append(seen, ret) ELSE seen
  /\ UNCHANGED <<state, body, ret, careful, broken>>

\* Resume loads the flag and then exchanges it.
Resume ==
  /\ user \in {"new", "seen"} /\ state # "END" /\ ~broken
  /\ user' = "exchange" /\ careful' = (careful /\ user = "seen")
  /\ UNCHANGED <<state, body, ret, seen, broken>>

Exchange ==
  /\ user = "exchange" /\ user' = "new" /\ state' = "RUN"
  /\ body' = IF state = "YIELD" /\ body = "parked" THEN "run" ELSE body
  /\ broken' = (broken \/ (state = "YIELD" /\ body = "stored"))
  /\ UNCHANGED <<ret, seen, careful>>

CoroNext == Gives \/ Suspends \/ Get \/ Resume \/ Exchange

\* A user that takes each value before it resumes gets every value once and
\* in order and never waits for a coroutine that has ended, unless it is fast
\* enough to resume one that is not suspended yet.
ValuesInOrder ==
  careful /\ ~broken =>
    /\ seen = [i \in DOMAIN seen |-> i]
    /\ state = "RUN" <=> body = "run"

-----------------------------------------------------------------------------
\* GetGuid when the clock shows cur.  The comparison of the instance number
\* with GUID_INST_NUM, which does not fit its field, never fails: it wraps.
GetGuid(cur) ==
  /\ Len(issued) < MaxGuid
  /\ guid' = IF cur > guid.t THEN [t |-> cur, ins |-> 0]
             ELSE [guid EXCEPT !.ins = (guid.ins + 1) % InstNum]
  /\ issued' = Append(issued, guid')

GuidNext == \E cur \in Time : GetGuid(cur)

Id(g) == g.t * InstNum + g.ins

\* Ids increase, also when the clock is set back, as long as no second has
\* more than InstNum of them.
Crowded == \E t \in Time : Cardinality({i \in DOMAIN issued : issued[i].t = t}) > InstNum
GuidsIncrease == Crowded \/ \A i, j \in DOMAIN issued : i < j => Id(issued[i]) < Id(issued[j])

-----------------------------------------------------------------------------
Next ==
  \/ SignalNext /\ UNCHANGED <<cvars, gvars>>
  \/ CoroNext /\ UNCHANGED <<svars, gvars>>
  \/ GuidNext /\ UNCHANGED <<svars, cvars>>

Spec == Init /\ [][Next]_<<svars, cvars, gvars>>
=============================================================================
