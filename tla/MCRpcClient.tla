----------------------------- MODULE MCRpcClient ------------------------------
EXTENDS RpcClient, TLC
CONSTANTS c1, c2
SharedCtx == [c \in Call |-> CHOOSE x \in Context : TRUE]

\* The timed call is refused by the server, the other one succeeds.
Mixed == [c \in Call |-> {IF c \in Timed THEN "CANCELLED" ELSE "OK"}]
AllWell == [c \in Call |-> {"OK"}]
=============================================================================
