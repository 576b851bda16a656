-------------------------------- MODULE MCData --------------------------------
(***************************************************************************)
(* The caches, the search trees and the pure algorithms.  part is what a   *)
(* behaviour is about: a LocalCache and its user, which is the program or  *)
(* a RemoteCache; a tree, used in every order; or one input of one of the  *)
(* algorithms, which are then compared with their reference definitions.   *)
(***************************************************************************)
EXTENDS RemoteCache, Integers, TLC

CONSTANTS None, Nil, Word

VARIABLES
  part, input,
  kind, t, root, content, crossed        \* the tree

\* Two of the nodes have the same value.
Node == 1..7
Obj == [n \in Node |-> IF n = 7 THEN 3 ELSE n]

Tree == INSTANCE BinaryTree
Graphs == INSTANCE GraphAlgs
Numbers == INSTANCE MathUtil WITH Bits <- 16
Big == INSTANCE BigNum
Seqs == INSTANCE SequenceAlgs

tree == <<kind, t, root, content, crossed>>
mcvars == <<rvars, part, input, tree>>

SeqsUpTo(S, n) == UNION {[1..k -> S] : k \in 0..n}

\* Three vertices with every choice of weights, four with one weight per side.
WeightOf(i, j) == 1 + ((i * j + j) % 4)
Small == {[i \in 1..3 |-> [j \in {k \in 1..3 \ {i} : w[<<i, k>>] > 0} |-> w[<<i, j>>]]] :
            w \in [{p \in (1..3) \X (1..3) : p[1] # p[2]} -> {0, 1, 3}]}
Wide == {[i \in 1..4 |-> [j \in {k \in 1..4 : <<i, k>> \in e} |-> WeightOf(i, j)]] :
            e \in SUBSET {p \in (1..4) \X (1..4) : p[1] # p[2]}}

\* Two-word divisions in base 15, the counterpart of UINT32_MAX: the digits of
\* some do not fit into a word, and 3585 / 16 and 3825 / 18 never end.
Wrapping == {[m |-> m, n |-> n, b |-> 15, c |-> c] :
               m \in {225, 256, 435, 3585, 3825, -3585, -3600}, n \in {2, 16, -16, 18, 100, 218}, c \in {4, 15}}

Radices == {<<2, 3>>, <<3, 1, 2>>, <<4>>, <<2, 2, 2>>}

InputsOf(alg) ==
  CASE alg = "graph" -> Small \cup Wide
    [] alg = "sort" -> SeqsUpTo(1..4, 5)
    [] alg = "string" ->
         {[s |-> s, p |-> p] : s \in SeqsUpTo({0, 1}, 6), p \in SeqsUpTo({0, 1}, 4)}
         \cup {[s |-> s, p |-> p] : s \in SeqsUpTo({0, 1, 2, 3}, 5), p \in {<<0, 1>>, <<1, 2, 1>>}}
    [] alg = "expression" -> SeqsUpTo({"(", ")", "!", "&", "|", "t", "f"}, 5)
    [] alg = "number" -> {[n |-> n, m |-> m] : n \in 0..40, m \in 0..9}
    [] alg = "odometer" ->
         UNION {{[up |-> up, c |-> c] : c \in {d \in [DOMAIN up -> 0..3] : \A i \in DOMAIN up : d[i] < up[i]}} :
                  up \in Radices}
    [] alg = "bignum" ->
         {[m |-> m, n |-> n, b |-> b, c |-> c] : m \in -30..30, n \in -12..12, b \in {2, 4, 15}, c \in {3, 4}}
         \cup Wrapping

Algorithms == {"graph", "sort", "string", "expression", "number", "odometer", "bignum"}

MCInit ==
  /\ RemoteInit /\ Tree!Init
  /\ part \in {"program", "remote", "tree"} \cup Algorithms
  /\ part # "tree" => kind = "bst"
  /\ input = None

Ask ==
  /\ part \in Algorithms /\ input = None
  /\ input' \in {[of |-> x] : x \in InputsOf(part)}
  /\ UNCHANGED <<part, rvars, tree>>

MCNext ==
  \/ Ask
  \/ /\ UNCHANGED <<part, input, tree>>
     /\ \/ part = "program" /\ Next /\ UNCHANGED <<calls, source>>
        \/ part = "remote" /\ RemoteNext
  \/ part = "tree" /\ Tree!Next /\ UNCHANGED <<part, input, rvars>>

MCSpec == MCInit /\ [][MCNext]_mcvars

Symmetry == Permutations(Key \ Asked) \cup Permutations(Asked) \cup Permutations(Call)

-----------------------------------------------------------------------------
(***************************************************************************)
(* The search trees keep every node, in order, reachable and balanced      *)
(* under every order of inserts and erases, up to the first erase of a     *)
(* node whose only child hangs on the other side than the node itself.     *)
(***************************************************************************)
TreesKeepTheirNodes == Tree!TreeIsRight

Given(alg) == part = alg /\ input # None

(***************************************************************************)
(* Sorting, searching, matching and the Boolean expressions return what    *)
(* their reference definitions do; the traversals of a graph find what can *)
(* be reached, and dijkstra and floyd agree on the least cost of every     *)
(* pair of nodes.                                                          *)
(***************************************************************************)
AlgorithmsAgree ==
  /\ Given("sort") => Seqs!SortsAgree(input.of, 0..5)
  /\ Given("string") => Seqs!StringsAgree(input.of.s, input.of.p)
  /\ Given("expression") => Seqs!ExpressionAgrees(input.of)
  /\ Given("graph") => Graphs!GraphsAgree(input.of)

(***************************************************************************)
(* The integer functions and the odometer compute what their names say.    *)
(* The big integers of every base compute what the integers give, and a    *)
(* division that ends is balanced in every base; in a base whose square    *)
(* does not fit into a word (the default one is such a base) its quotient  *)
(* is claimed only while no joined digit and no bound wraps.               *)
(***************************************************************************)
ArithmeticAgrees ==
  /\ Given("number") => Numbers!NumbersAgree(input.of.n, input.of.m)
  /\ Given("odometer") => Numbers!OdometerAgrees(input.of.up, input.of.c)
  /\ Given("bignum") => Big!BigNumsAgree(input.of.m, input.of.n, input.of.b, input.of.c)
=============================================================================
