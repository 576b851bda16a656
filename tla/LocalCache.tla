------------------------------ MODULE LocalCache ------------------------------
(***************************************************************************)
(* LocalCache (cache/local_cache.hpp): a map with two lists of its keys,   *)
(* one in the order of their last use, one in the order of their loading.  *)
(* Its calls do not overlap: the class leaves locking to its user.  Times  *)
(* are ticks of steady_clock.                                              *)
(***************************************************************************)
EXTENDS Naturals, Sequences, FiniteSets, SequencesExt

CONSTANTS
  Key,
  Value,
  Moved,      \* what is left of a value that was moved from
  Nullopt,    \* std::nullopt
  Capacity,   \* Cfg: capacity, clean_size, ttl, as they are passed
  CleanSize,
  Ttl,
  MaxTime     \* bound: the last tick looked at

ASSUME CfgAssumption == Capacity \in Nat /\ CleanSize \in Nat /\ Ttl \in Nat /\ MaxTime \in Nat
ASSUME ValueAssumption == Moved \notin Value /\ Nullopt \notin Value \cup {Moved}

\* Cfg::Verify
Target == IF CleanSize >= Capacity THEN (9 * Capacity) \div 10 ELSE CleanSize

VARIABLES
  now,        \* steady_clock
  data_map,   \* from the present keys to [val, load_time]
  lru_list,
  ttl_list,
  ret         \* what the last Get returned, Nullopt after any other call

vars == <<now, data_map, lru_list, ttl_list, ret>>

Cache == [map |-> data_map, lru |-> lru_list, ttl |-> ttl_list]

Becomes(c) == data_map' = c.map /\ lru_list' = c.lru /\ ttl_list' = c.ttl

Empty == [map |-> [k \in {} |-> Nullopt], lru |-> <<>>, ttl |-> <<>>]

Init ==
  /\ now = 0
  /\ data_map = Empty.map /\ lru_list = Empty.lru /\ ttl_list = Empty.ttl
  /\ ret = Nullopt

Size(c) == Cardinality(DOMAIN c.map)

\* list.erase of the nodes of the keys ks
Erased(list, ks) ==
  LET from[n \in 0..Len(list)] ==
        IF n = 0 THEN <<>>
        ELSE IF list[n] \in ks THEN from[n - 1] ELSE Append(from[n - 1], list[n])
  IN  from[Len(list)]

\* The keys of ks leave the map and both lists.
Without(c, ks) ==
  [map |-> [k \in DOMAIN c.map \ ks |-> c.map[k]],
   lru |-> Erased(c.lru, ks),
   ttl |-> Erased(c.ttl, ks)]

\* splice(list.end(), list, itr)
ToEnd(list, k) == Append(Erased(list, {k}), k)

\* Mutant of Expired: a value is kept one tick too long.
ExpiredLater(c, k) == c.map[k].load_time + Ttl + 1 < now

Expired(c, k) == c.map[k].load_time + Ttl < now

\* ttl_list_ is walked from its front up to the first key that has not expired.
CleanExpireddata(c) ==
  Without(c, {c.ttl[i] : i \in {n \in DOMAIN c.ttl : \A j \in 1..n : Expired(c, c.ttl[j])}})

\* Clean, down to Target: the keys used least recently go.
Cleaned(c) ==
  LET d == CleanExpireddata(c)
  IN  IF Size(d) <= Target THEN d
      ELSE Without(d, {d.lru[i] : i \in 1..(Size(d) - Target)})

-----------------------------------------------------------------------------
\* Mutant of Found: a hit is not a use.
FoundUnused(c, k) == c

Found(c, k) == [c EXCEPT !.lru = ToEnd(@, k)]

Get(k) ==
  LET c == CleanExpireddata(Cache) IN
    /\ IF k \in DOMAIN c.map
       THEN Becomes(Found(c, k)) /\ ret' = c.map[k].val
       ELSE Becomes(c) /\ ret' = Nullopt
    /\ UNCHANGED now

Entry(v) == [val |-> v, load_time |-> now]

Full(c) == Size(c) >= Capacity

Inserted(k, v) ==
  LET c == [map |-> [x \in DOMAIN data_map \cup {k} |-> IF x = k THEN Entry(v) ELSE data_map[x]],
            lru |-> Append(lru_list, k),
            ttl |-> Append(ttl_list, k)]
  IN  IF Full(c) THEN Cleaned(c) ELSE c

\* Mutant of Reloaded: the new load time does not move the key in ttl_list_.
ReloadedInPlace(k, v) ==
  [map |-> [data_map EXCEPT ![k] = Entry(v)], lru |-> ToEnd(lru_list, k), ttl |-> ttl_list]

Reloaded(k, v) ==
  [map |-> [data_map EXCEPT ![k] = Entry(v)], lru |-> ToEnd(lru_list, k), ttl |-> ToEnd(ttl_list, k)]

\* emplace may move an rvalue into a node even when the key is present; what
\* is then assigned is what the move left.
Update(k, v, rvalue) ==
  /\ IF k \in DOMAIN data_map
     THEN \E w \in IF rvalue THEN {v, Moved} ELSE {v} : Becomes(Reloaded(k, w))
     ELSE Becomes(Inserted(k, v))
  /\ ret' = Nullopt
  /\ UNCHANGED now

Del(k) ==
  /\ Becomes(Without(CleanExpireddata(Cache), {k}))
  /\ ret' = Nullopt
  /\ UNCHANGED now

CallCleanExpireddata == Becomes(CleanExpireddata(Cache)) /\ ret' = Nullopt /\ UNCHANGED now

Clean == Becomes(Cleaned(Cache)) /\ ret' = Nullopt /\ UNCHANGED now

Clear == Becomes(Empty) /\ ret' = Nullopt /\ UNCHANGED now

Tick ==
  /\ now < MaxTime
  /\ now' = now + 1
  /\ UNCHANGED <<data_map, lru_list, ttl_list, ret>>

Next ==
  \/ \E k \in Key : Get(k) \/ Del(k)
  \/ \E k \in Key, v \in Value, rvalue \in BOOLEAN : Update(k, v, rvalue)
  \/ CallCleanExpireddata \/ Clean \/ Clear
  \/ Tick

Spec == Init /\ [][Next]_vars

-----------------------------------------------------------------------------
(***************************************************************************)
(* The map and the lists have the same keys, each once ("will be found",   *)
(* local_cache.hpp:134 and 159: the walks dereference the iterator that    *)
(* find returns), and ttl_list_ is in the order of the load times, which   *)
(* is why CleanExpireddata may stop at the first fresh key.                *)
(***************************************************************************)
ListsAgree ==
  /\ \A list \in {lru_list, ttl_list} : IsInjective(list) /\ Range(list) = DOMAIN data_map
  /\ \A i, j \in DOMAIN ttl_list :
       i <= j => data_map[ttl_list[i]].load_time <= data_map[ttl_list[j]].load_time

(***************************************************************************)
(* The lists implement the abstract cache: ages instead of time points, an *)
(* order of use instead of lru_list_.  So no expired value is returned,    *)
(* the cache stays below its capacity, and no key leaves while one that    *)
(* was used less recently stays.                                           *)
(***************************************************************************)
Age(k) == IF data_map[k].load_time + Ttl < now THEN Ttl + 1 ELSE now - data_map[k].load_time

Aging == INSTANCE AgingCache WITH
  entry <- [k \in DOMAIN data_map |-> [val |-> data_map[k].val, age |-> Age(k)]],
  before <- {p \in Key \X Key :
               \E i, j \in DOMAIN lru_list : i < j /\ p = <<lru_list[i], lru_list[j]>>}

ImplementsAgingCache == Aging!Spec
=============================================================================
