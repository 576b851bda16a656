------------------------------ MODULE ClientPool ------------------------------
(***************************************************************************)
(* AsioCsClientPool (boost_tools_asio/asio_cs_cli.hpp); the pools of UDP   *)
(* and HTTP clients are the same code.  The map is keyed by the hash of    *)
(* the address, and a client is reduced to its run_flag_.                  *)
(***************************************************************************)
EXTENDS Naturals, FiniteSets

CONSTANTS
  Endpoint,
  HashOf,      \* the hash of every endpoint; for HTTP that of host and service joined
  MaxClient,   \* max_client_num
  MaxMade      \* bound: clients made

NoClient == 0
Client == 1..MaxMade
Hash == {HashOf[e] : e \in Endpoint}

VARIABLES
  run,    \* run_flag_
  due,    \* the stop handler has not run on mgr_strand_
  map,    \* client_map_: per hash a client or NoClient
  made,   \* number of clients made
  crun,   \* per client: its run_flag_
  addr,   \* per client: the endpoint it was made for
  got     \* the last call: its endpoint and the client it returned, NoClient when it threw

vars == <<run, due, map, made, crun, addr, got>>

Unknown == CHOOSE e \in Endpoint : TRUE

Init ==
  /\ run = TRUE /\ due = FALSE /\ made = 0
  /\ map = [h \in Hash |-> NoClient]
  /\ crun = [c \in Client |-> FALSE]
  /\ addr = [c \in Client |-> Unknown]
  /\ got = [ep |-> Unknown, client |-> NoClient]

Used(mp) == {h \in Hash : mp[h] # NoClient}

Full(mp) == Cardinality(Used(mp)) >= MaxClient

Usable(h) == map[h] # NoClient /\ crun[map[h]]
Without(h) == [map EXCEPT ![h] = NoClient]

\* A full map is swept of the clients that have stopped.
Room(h) ==
  [k \in Hash |-> IF k # h /\ (~Full(Without(h)) \/ Usable(k)) THEN map[k] ELSE NoClient]

GetClient(e) ==
  LET h == HashOf[e]
  IN \/ /\ run /\ Usable(h)
        /\ got' = [ep |-> e, client |-> map[h]]
        /\ UNCHANGED <<map, made, crun, addr>>
     \/ /\ run /\ ~Usable(h) /\ ~Full(Room(h)) /\ made < MaxMade
        /\ made' = made + 1
        /\ crun' = [crun EXCEPT ![made'] = TRUE]
        /\ addr' = [addr EXCEPT ![made'] = e]
        /\ map' = [Room(h) EXCEPT ![h] = made']
        /\ got' = [ep |-> e, client |-> made']
     \/ /\ run => ~Usable(h) /\ Full(Room(h))
        /\ map' = IF run THEN Room(h) ELSE map
        /\ got' = [ep |-> e, client |-> NoClient]
        /\ UNCHANGED <<made, crun, addr>>

Stop ==
  /\ run
  /\ run' = FALSE /\ due' = TRUE
  /\ UNCHANGED <<map, made, crun, addr, got>>

StopHandler ==
  /\ due
  /\ due' = FALSE
  /\ crun' = [c \in Client |-> crun[c] /\ \A h \in Hash : map[h] # c]
  /\ map' = [h \in Hash |-> NoClient]
  /\ UNCHANGED <<run, made, addr, got>>

\* Its owner stops a client.
ClientStops(c) ==
  /\ crun[c]
  /\ crun' = [crun EXCEPT ![c] = FALSE]
  /\ UNCHANGED <<run, due, map, made, addr, got>>

Next ==
  \/ \E e \in Endpoint : GetClient(e) /\ UNCHANGED <<run, due>>
  \/ Stop \/ StopHandler
  \/ \E c \in Client : ClientStops(c)

Spec == Init /\ [][Next]_vars

-----------------------------------------------------------------------------
\* The map is bounded; every running client is in it, so that Stop reaches all,
\* and one runs for each address; a call gets a client of its own address (of
\* its own hash: the addresses here have different ones).
ClientsArePooled ==
  /\ Cardinality(Used(map)) <= MaxClient
  /\ \A c \in Client : crun[c] => \E h \in Hash : map[h] = c /\ h = HashOf[addr[c]]
  /\ ~run /\ ~due => \A c \in Client : ~crun[c]
  /\ got.client # NoClient => addr[got.client] = got.ep
=============================================================================
