----------------------------- MODULE RemoteCache ------------------------------
(***************************************************************************)
(* RemoteCache (execution/remote_cache.hpp): concurrent Get coroutines     *)
(* share a LocalCache and fetch what it has not.  The cache is used under  *)
(* local_cache_mutex_ and no coroutine suspends while it holds it, so each *)
(* use is one step; the fetch is awaited without it.                       *)
(*                                                                         *)
(* Every write of the remote data makes a new version of it: the values    *)
(* are version numbers.                                                    *)
(***************************************************************************)
EXTENDS LocalCache

CONSTANTS
  Call,       \* calls of Get, each made once
  Asked,      \* the keys they ask for
  MaxFetch    \* bound on the time from a miss until its answer is stored

ASSUME AskedAssumption == Asked \subseteq Key /\ Value \subseteq Nat /\ 0 \in Value
ASSUME MaxFetchAssumption == MaxFetch \in Nat

VARIABLES
  pc,         \* per call: "idle", "fetch", "reply", "store", "done"
  key,        \* per call: its argument
  val,        \* per call: what the fetch brought, and then what Get returned
  since,      \* per call: when it missed
  remote,     \* per key: the version of the remote data
  replaced    \* history, per key and version: when it was replaced

calls == <<pc, key, val, since>>
source == <<remote, replaced>>
rvars == <<vars, calls, source>>

RemoteInit ==
  /\ Init
  /\ pc = [c \in Call |-> "idle"]
  /\ key \in [Call -> Asked]
  /\ val = [c \in Call |-> Nullopt]
  /\ since = [c \in Call |-> 0]
  /\ remote = [k \in Asked |-> 0]
  /\ replaced = [k \in Asked |-> [v \in Value |-> 0]]

Return(c, v) == pc' = [pc EXCEPT ![c] = "done"] /\ val' = [val EXCEPT ![c] = v]

Lookup(c) ==
  /\ pc[c] = "idle"
  /\ Get(key[c])
  /\ IF ret' # Nullopt
     THEN Return(c, ret') /\ UNCHANGED since
     ELSE /\ pc' = [pc EXCEPT ![c] = "fetch"]
          /\ since' = [since EXCEPT ![c] = now]
          /\ UNCHANGED val
  /\ UNCHANGED <<key, source>>

\* The remote data is read somewhere between the request and the answer.
RemoteReads(c) ==
  /\ pc[c] = "fetch"
  /\ pc' = [pc EXCEPT ![c] = "reply"]
  /\ val' = [val EXCEPT ![c] = remote[key[c]]]
  /\ UNCHANGED <<vars, key, since, source>>

FetchDone(c) ==
  /\ pc[c] = "reply"
  /\ pc' = [pc EXCEPT ![c] = "store"]
  /\ UNCHANGED <<vars, key, val, since, source>>

\* update_data_fun_ brings std::nullopt, or throws: nothing is stored.
FetchFails(c) ==
  /\ pc[c] \in {"fetch", "reply"}
  /\ Return(c, Nullopt)
  /\ UNCHANGED <<vars, key, since, source>>

\* Whatever other calls have stored meanwhile.
Store(c) ==
  /\ pc[c] = "store"
  /\ Update(key[c], val[c], FALSE)
  /\ Return(c, val[c])
  /\ UNCHANGED <<key, since, source>>

RemoteWrite(k) ==
  /\ remote[k] + 1 \in Value
  /\ remote' = [remote EXCEPT ![k] = @ + 1]
  /\ replaced' = [replaced EXCEPT ![k][remote[k]] = now]
  /\ UNCHANGED <<vars, calls>>

\* Bound: a fetch takes at most MaxFetch, its store included.
Pass ==
  /\ Tick
  /\ \A c \in Call : pc[c] \in {"fetch", "reply", "store"} => now < since[c] + MaxFetch
  /\ UNCHANGED <<calls, source>>

RemoteNext ==
  \/ \E c \in Call : Lookup(c) \/ RemoteReads(c) \/ FetchDone(c) \/ FetchFails(c) \/ Store(c)
  \/ \E k \in Asked : RemoteWrite(k)
  \/ Pass

RemoteSpec == RemoteInit /\ [][RemoteNext]_rvars

-----------------------------------------------------------------------------
(***************************************************************************)
(* How stale an answer can be: the version a call returns was current at   *)
(* most a fetch and a time-to-live ago.  It does not follow from the       *)
(* freshness of the cache's entries, which are dated by the store: between *)
(* reading and storing an answer other calls may have stored newer ones,   *)
(* and the old one then starts a life of its own.                          *)
(***************************************************************************)
Recent(k, v) == v = remote[k] \/ now <= replaced[k][v] + MaxFetch + Ttl

AnswersAreRecent ==
  [][\A c \in Call : (pc[c] # "done" /\ pc'[c] = "done" /\ val'[c] # Nullopt)
                        => Recent(key[c], val'[c])]_rvars
=============================================================================
