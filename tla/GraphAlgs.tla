------------------------------ MODULE GraphAlgs -------------------------------
(***************************************************************************)
(* The functions of container/graph.hpp.  A graph gives every vertex 1..n  *)
(* (its position in the vector of nodes) its sides: a function from the    *)
(* vertices it points to, to their weights.  The map of the sides is       *)
(* ordered by address; here the vertices lie in memory in their order.     *)
(***************************************************************************)
EXTENDS Integers, Sequences, FiniteSets, SequencesExt, Functions

V(g) == DOMAIN g
Sides(g, v) == SetToSortSeq(DOMAIN g[v], LAMBDA i, j : i < j)

insertGraphNode(g, v, w, side) == [g EXCEPT ![v] = [x \in DOMAIN @ \cup {w} |-> IF x = w THEN side ELSE @[x]]]
connectGraphNode(g, v, w, side) == insertGraphNode(insertGraphNode(g, v, w, side), w, v, side)

isUndirGraph(g) == \A v \in V(g) : \A w \in DOMAIN g[v] : v \in DOMAIN g[w] /\ g[w][v] = g[v][w]

createAdjMatrix(g) ==
  [i \in V(g) |-> [j \in V(g) |-> IF j \in DOMAIN g[i] THEN g[i][j] ELSE IF i = j THEN 0 ELSE -1]]

\* The sides are inserted one by one into nodes that have none.
copyGraph(g) ==
  FoldLeft(LAMBDA h, v : FoldLeft(LAMBDA x, w : insertGraphNode(x, v, w, g[v][w]), h, Sides(g, v)),
           [v \in V(g) |-> <<>>], [i \in 1..Cardinality(V(g)) |-> i])

RECURSIVE DFS(_, _, _), BFS(_, _, _), Settle(_, _), dijkstraPath(_, _)

\* vec is the result so far, and its members are the visited nodes.
DFS(g, v, vec) ==
  FoldLeft(LAMBDA out, w : IF w \in Range(out) THEN out ELSE DFS(g, w, out), Append(vec, v), Sides(g, v))

\* All children first, then each of them with all that hangs on it.
BFS(g, v, vec) ==
  LET seen == IF v \in Range(vec) THEN vec ELSE Append(vec, v)
      fresh == SelectSeq(Sides(g, v), LAMBDA w : w \notin Range(seen))
  IN FoldLeft(LAMBDA out, w : BFS(g, w, out), seen \o fresh, fresh)

\* One round of dijkstra: node cur is final, its sides are relaxed.
Relax(g, d) ==
  LET From(j) == d.re[d.cur] + g[d.cur][j]
      Better(j) == j \in DOMAIN g[d.cur] /\ j \notin d.flag \cup {d.cur} /\ (d.re[j] < 0 \/ d.re[j] > From(j))
  IN [d EXCEPT !.flag = @ \cup {d.cur},
               !.re = [j \in V(g) |-> IF Better(j) THEN From(j) ELSE d.re[j]],
               !.path = [j \in V(g) |-> IF Better(j) THEN d.cur ELSE d.path[j]]]

\* The first of the nearest nodes that are not final, or cur again.
Nearest(d) ==
  LET open == {j \in DOMAIN d.re : j \notin d.flag /\ d.re[j] >= 0}
  IN IF open = {} THEN d.cur
     ELSE CHOOSE j \in open : \A k \in open : d.re[j] < d.re[k] \/ (d.re[j] = d.re[k] /\ j <= k)

Settle(g, d) ==
  LET r == Relax(g, d)
  IN IF Nearest(r) = d.cur THEN r ELSE Settle(g, [r EXCEPT !.cur = Nearest(r)])

dijkstra(g, v) ==
  Settle(g, [cur |-> v, flag |-> {},
             re |-> [j \in V(g) |-> IF j = v THEN 0 ELSE -1],
             path |-> [j \in V(g) |-> IF j = v THEN v ELSE -1]])

\* The way back from dst, without dst.
dijkstraPath(dst, path) ==
  LET p == path[dst] IN IF p = path[p] THEN <<p>> ELSE <<p>> \o dijkstraPath(p, path)

FloydCell(m, i, j, k) ==
  IF i = k \/ i = j \/ j = k \/ m.dist[i][k] < 0 \/ m.dist[k][j] < 0 THEN m
  ELSE LET d == m.dist[i][k] + m.dist[k][j]
       IN IF m.dist[i][j] < 0 \/ m.dist[i][j] > d
          THEN [m EXCEPT !.dist[i][j] = d, !.path[i][j] = k] ELSE m

\* The loops over k, i and j in this order.
floyd(g) ==
  LET n == Cardinality(V(g))
      adj == createAdjMatrix(g)
      start == [dist |-> adj, path |-> [i \in V(g) |-> [j \in V(g) |-> IF adj[i][j] >= 0 THEN i ELSE -1]]]
      Digit(x, p) == (((x - 1) \div p) % n) + 1
  IN FoldLeft(LAMBDA m, x : FloydCell(m, Digit(x, n), Digit(x, 1), Digit(x, n * n)),
              start, [x \in 1..(n * n * n) |-> x])

-----------------------------------------------------------------------------
\* Reference: what can be reached in at most k sides, and at what least cost.
RECURSIVE Within(_, _, _), Cost(_, _, _, _)
Within(g, v, k) == IF k = 0 THEN {v} ELSE {v} \cup UNION {Within(g, w, k - 1) : w \in DOMAIN g[v]}

Least(S) == IF S \ {-1} = {} THEN -1 ELSE CHOOSE x \in S \ {-1} : \A y \in S \ {-1} : x <= y
Cost(g, v, w, k) ==
  IF v = w THEN 0 ELSE IF k = 0 THEN -1
  ELSE Least({LET c == Cost(g, x, w, k - 1) IN IF c < 0 THEN -1 ELSE c + g[v][x] : x \in DOMAIN g[v]})

\* Both traversals reach every node that can be reached, once; both shortest
\* path algorithms find the least cost, and dijkstra's path has that cost.
GraphsAgree(g) ==
  LET n == Cardinality(V(g))
      f == floyd(g)
  IN /\ copyGraph(g) = g
     /\ isUndirGraph(g) = (createAdjMatrix(g) = [i \in V(g) |-> [j \in V(g) |-> createAdjMatrix(g)[j][i]]])
     /\ \A v \in V(g) :
          LET d == dijkstra(g, v)
              reach == Within(g, v, n)
          IN /\ \A o \in {DFS(g, v, <<>>), BFS(g, v, <<>>)} : IsInjective(o) /\ Range(o) = reach /\ o[1] = v
             /\ \A w \in V(g) :
                  LET c == Cost(g, v, w, n)
                  IN /\ d.re[w] = c /\ f.dist[v][w] = c
                     /\ (f.path[v][w] >= 0) = (c >= 0)
                     /\ c > 0 => LET back == <<w>> \o dijkstraPath(w, d.path)
                                 IN /\ Last(back) = v
                                    /\ c = SumFunction([i \in 1..(Len(back) - 1) |-> g[back[i + 1]][back[i]]])
=============================================================================
