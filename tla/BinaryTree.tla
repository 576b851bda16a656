------------------------------ MODULE BinaryTree ------------------------------
(***************************************************************************)
(* The trees of container/binary_tree.hpp: BinSearchTreeNode and           *)
(* AVLTreeNode, and the operations on a tree of either kind.               *)
(*                                                                         *)
(* The nodes live in a heap: a record t of the three links of every node   *)
(* (pf, pl, pr) and its height (hgt, which only AVL trees keep).  A node   *)
(* that is in no tree has no links.  A binary search tree is only the AVL  *)
(* tree without heights, so one operator stands for what both erasures do. *)
(***************************************************************************)
EXTENDS Naturals, Sequences, FiniteSets, SequencesExt

CONSTANTS
  Node,   \* the nodes the user owns
  Obj,    \* Obj[n]: the value of node n
  Nil     \* the empty pointer

VARIABLES
  kind,     \* "bst" or "avl"
  t,        \* the links of all nodes
  root,     \* the root of the tree, or Nil
  content,  \* history: the nodes inserted and not erased
  crossed   \* history: a node was erased whose only child hangs on its other side

tvars == <<kind, t, root, content, crossed>>

NoLinks == [n \in Node |-> Nil]

Init ==
  /\ kind \in {"bst", "avl"}
  /\ t = [pf |-> NoLinks, pl |-> NoLinks, pr |-> NoLinks, hgt |-> [n \in Node |-> 1]]
  /\ root = Nil
  /\ content = {}
  /\ crossed = FALSE

Other(s) == IF s = "pl" THEN "pr" ELSE "pl"
Larger(a, b) == IF a >= b THEN a ELSE b
Smaller(a, b) == IF a <= b THEN a ELSE b

GetHgt(x, n) == IF n = Nil THEN 0 ELSE x.hgt[n]

\* The side on which n hangs from its father (GetLR, which throws on a
\* node that is not a child of its father).
GetLR(x, n) == CHOOSE s \in {"pl", "pr"} : x[s][x.pf[n]] = n

\* Assignment of the father's link, when there is a child.
FatherOf(x, c, p) == IF c = Nil THEN x ELSE [x EXCEPT !.pf[c] = p]

BreakChild(x, s, n) == [FatherOf(x, x[s][n], Nil) EXCEPT ![s][n] = Nil]
BreakLChild(x, n) == BreakChild(x, "pl", n)
BreakRChild(x, n) == BreakChild(x, "pr", n)

BreakFather(x, n) ==
  LET p == x.pf[n]
  IN IF p = Nil THEN x ELSE [x EXCEPT !.pf[n] = Nil, ![GetLR(x, n)][p] = Nil]

\* c becomes the child of p on side s and leaves its old father.
SetChild(x, s, p, c) ==
  IF c = Nil \/ (x[s][p] = c /\ x.pf[c] = p)
  THEN IF c = Nil THEN BreakChild(x, s, p) ELSE x
  ELSE [BreakFather(BreakChild(x, s, p), c) EXCEPT ![s][p] = c, !.pf[c] = p]
SetLChild(x, p, c) == SetChild(x, "pl", p, c)
SetRChild(x, p, c) == SetChild(x, "pr", p, c)

-----------------------------------------------------------------------------
(***************************************************************************)
(* Functions of a tree                                                     *)
(***************************************************************************)
RECURSIVE DLR(_, _), LDR(_, _), LRD(_, _), Levels(_, _, _), GetDepth(_, _), GetHeight(_, _),
          GetMinChain(_, _), GetNodeNum(_, _), GetRootNode(_, _), CopyTree(_, _), SerializeTree(_, _),
          Parse(_, _), BinSearch(_, _, _), CheckBinTree(_, _), CheckBinSearchTree(_, _), Rightmost(_, _)

DLR(x, n) == IF n = Nil THEN <<>> ELSE <<n>> \o DLR(x, x.pl[n]) \o DLR(x, x.pr[n])
LDR(x, n) == IF n = Nil THEN <<>> ELSE LDR(x, x.pl[n]) \o <<n>> \o LDR(x, x.pr[n])
LRD(x, n) == IF n = Nil THEN <<>> ELSE LRD(x, x.pl[n]) \o LRD(x, x.pr[n]) \o <<n>>

\* vec[i] is the next node whose children are appended.
Levels(x, vec, i) ==
  IF i > Len(vec) THEN vec
  ELSE Levels(x, vec \o SelectSeq(<<x.pl[vec[i]], x.pr[vec[i]]>>, LAMBDA c : c # Nil), i + 1)
TraByLevel(x, n) == IF n = Nil THEN <<>> ELSE Levels(x, <<n>>, 1)

GetDepth(x, n) == IF n = Nil \/ x.pf[n] = Nil THEN 0 ELSE 1 + GetDepth(x, x.pf[n])
GetHeight(x, n) == IF n = Nil THEN 0 ELSE 1 + Larger(GetHeight(x, x.pl[n]), GetHeight(x, x.pr[n]))

GetMinChain(x, n) ==
  IF n = Nil THEN 0
  ELSE 1 + IF x.pl[n] = Nil THEN GetMinChain(x, x.pr[n])
           ELSE IF x.pr[n] = Nil THEN GetMinChain(x, x.pl[n])
           ELSE Smaller(GetMinChain(x, x.pl[n]), GetMinChain(x, x.pr[n]))

GetNodeNum(x, n) == IF n = Nil THEN 0 ELSE GetNodeNum(x, x.pl[n]) + GetNodeNum(x, x.pr[n]) + 1
GetRootNode(x, n) == IF n = Nil \/ x.pf[n] = Nil THEN n ELSE GetRootNode(x, x.pf[n])

\* A deep copy has the values and the shape; CompareTreeObj is its equality.
CopyTree(x, n) == IF n = Nil THEN <<>> ELSE <<Obj[n], CopyTree(x, x.pl[n]), CopyTree(x, x.pr[n])>>

SerializeTree(x, n) ==
  IF n = Nil THEN <<[first |-> FALSE]>>
  ELSE <<[first |-> TRUE, second |-> Obj[n]]>> \o SerializeTree(x, x.pl[n]) \o SerializeTree(x, x.pr[n])

\* The tree read from position i on, and the last position it used.
Parse(vec, i) ==
  IF ~vec[i].first THEN [tree |-> <<>>, last |-> i]
  ELSE LET l == Parse(vec, i + 1)
           r == Parse(vec, l.last + 1)
       IN [tree |-> <<vec[i].second, l.tree, r.tree>>, last |-> r.last]
DeserializeTree(vec) == Parse(vec, 1).tree

BinSearch(x, n, val) ==
  IF n = Nil \/ Obj[n] = val THEN n
  ELSE BinSearch(x, IF val < Obj[n] THEN x.pl[n] ELSE x.pr[n], val)

CheckBinTree(x, n) ==
  n # Nil => \A c \in {x.pl[n], x.pr[n]} \ {Nil} : x.pf[c] = n /\ CheckBinTree(x, c)

CheckBinSearchTree(x, n) ==
  n # Nil =>
    /\ x.pl[n] # Nil => x.pf[x.pl[n]] = n /\ Obj[x.pl[n]] < Obj[n] /\ CheckBinSearchTree(x, x.pl[n])
    /\ x.pr[n] # Nil => x.pf[x.pr[n]] = n /\ Obj[x.pr[n]] >= Obj[n] /\ CheckBinSearchTree(x, x.pr[n])

-----------------------------------------------------------------------------
(***************************************************************************)
(* Rotations and rebalancing (AVLTreeNode)                                 *)
(***************************************************************************)
RefreshHgt(x, n) == [x EXCEPT !.hgt[n] = Larger(GetHgt(x, x.pl[n]), GetHgt(x, x.pr[n])) + 1]

\* Mutant of Rotate: the child that changes sides keeps its old father.
RotateKeepingFather(x, s, n) ==
  LET re == x[s][n]
      p == x.pf[n]
      turned == [x EXCEPT ![s][n] = x[Other(s)][re], ![Other(s)][re] = n, !.pf[re] = p, !.pf[n] = re]
      hung == IF p = Nil THEN turned ELSE [turned EXCEPT ![GetLR(x, n)][p] = re]
  IN RefreshHgt(RefreshHgt(hung, n), re)

\* n's child on side s takes n's place.
Rotate(x, s, n) ==
  LET re == x[s][n]
      mid == x[Other(s)][re]
      p == x.pf[n]
      turned == [FatherOf(x, mid, n) EXCEPT ![s][n] = mid, ![Other(s)][re] = n, !.pf[re] = p, !.pf[n] = re]
      hung == IF p = Nil THEN turned ELSE [turned EXCEPT ![GetLR(x, n)][p] = re]
  IN RefreshHgt(RefreshHgt(hung, n), re)
RotateL(x, n) == Rotate(x, "pl", n)
RotateR(x, n) == Rotate(x, "pr", n)

Heavier(x, n) ==
  LET l == GetHgt(x, x.pl[n])
      r == GetHgt(x, x.pr[n])
  IN IF l >= r + 2 THEN "pl" ELSE IF r >= l + 2 THEN "pr" ELSE "none"

\* The loop that climbs from pos, and the root it leaves (r unless the last
\* thing it did was a rotation at the top).
RECURSIVE Rebalance(_, _, _, _)
Rebalance(x, pos, re, r) ==
  IF pos = Nil THEN [t |-> x, root |-> IF re # Nil THEN re ELSE r]
  ELSE LET s == Heavier(x, pos)
           h == Larger(GetHgt(x, x.pl[pos]), GetHgt(x, x.pr[pos])) + 1
       IN IF s # "none"
          THEN LET c == x[s][pos]
                   inner == GetHgt(x, x[s][c]) < GetHgt(x, x[Other(s)][c])
                   y == IF inner THEN Rotate(x, Other(s), c) ELSE x
                   z == Rotate(y, s, pos)
               IN Rebalance(z, z.pf[y[s][pos]], y[s][pos], r)
          ELSE IF h = x.hgt[pos] THEN [t |-> x, root |-> r]
          ELSE Rebalance([x EXCEPT !.hgt[pos] = h], x.pf[pos], Nil, r)

-----------------------------------------------------------------------------
(***************************************************************************)
(* Insertion                                                               *)
(***************************************************************************)
\* The node under which val is put: the search goes left of larger values.
RECURSIVE Place(_, _, _)
Place(x, n, val) ==
  LET c == IF val < Obj[n] THEN x.pl[n] ELSE x.pr[n]
  IN IF c = Nil THEN n ELSE Place(x, c, val)

Hang(x, p, n) == IF Obj[n] < Obj[p] THEN SetLChild(x, p, n) ELSE SetRChild(x, p, n)

BstInsert(x, r, n) == [t |-> Hang(x, Place(x, r, Obj[n]), n), root |-> r]

AvlInsert(x, r, n) ==
  IF BinSearch(x, r, Obj[n]) # Nil THEN [t |-> x, root |-> r]
  ELSE LET p == Place(x, r, Obj[n])
       IN Rebalance([Hang(x, p, n) EXCEPT !.hgt[n] = 1], p, Nil, r)

-----------------------------------------------------------------------------
(***************************************************************************)
(* Erasure                                                                 *)
(***************************************************************************)
Rightmost(x, n) == IF x.pr[n] = Nil THEN n ELSE Rightmost(x, x.pr[n])

OnlyChildSide(x, n) == CHOOSE s \in {"pl", "pr"} : x[s][n] # Nil /\ x[Other(s)][n] = Nil
HasOneChild(x, n) == (x.pl[n] = Nil) # (x.pr[n] = Nil)

\* The only child is hung on the side of the father that it had on the node.
Bypass(x, n) ==
  LET s == OnlyChildSide(x, n)
      p == x.pf[n]
  IN IF p = Nil THEN BreakChild(x, s, n)
     ELSE [FatherOf(x, x[s][n], p) EXCEPT ![s][p] = x[s][n], !.pf[n] = Nil, ![s][n] = Nil]

\* The predecessor leaves its place for its left child, and takes n's left tree.
TakeOut(x, n, re) ==
  IF re = x.pl[n] THEN x
  ELSE [FatherOf(x, x.pl[re], x.pf[re]) EXCEPT
          !.pr[x.pf[re]] = x.pl[re], !.pl[re] = x.pl[n], !.pf[x.pl[n]] = re]

Succeed(x, n, re) ==
  LET p == x.pf[n]
      y == [TakeOut(x, n, re) EXCEPT !.pf[re] = p, !.pr[re] = x.pr[n], !.pf[x.pr[n]] = re]
      z == IF p = Nil THEN y ELSE [y EXCEPT ![GetLR(x, n)][p] = re]
  IN [z EXCEPT !.pf[n] = Nil, !.pl[n] = Nil, !.pr[n] = Nil]

\* BinSearchTreeNode::Erase: the links afterwards and the replacement.
BstErase(x, n) ==
  IF x.pl[n] = Nil /\ x.pr[n] = Nil THEN [t |-> BreakFather(x, n), re |-> Nil]
  ELSE IF HasOneChild(x, n) THEN [t |-> Bypass(x, n), re |-> x[OnlyChildSide(x, n)][n]]
  ELSE LET re == Rightmost(x, x.pl[n]) IN [t |-> Succeed(x, n, re), re |-> re]

\* AVLTreeNode::EraseImp: the same links, then heights from where they changed.
EraseImp(x, r, n) ==
  LET e == BstErase(x, n)
      two == x.pl[n] # Nil /\ x.pr[n] # Nil
      pos == IF ~two THEN x.pf[n] ELSE IF e.re = x.pl[n] THEN e.re ELSE x.pf[e.re]
      y == IF two THEN [e.t EXCEPT !.hgt[e.re] = x.hgt[n]] ELSE e.t
  IN Rebalance(y, pos, Nil, IF n = r THEN e.re ELSE r)

Crossed(x, n) == HasOneChild(x, n) /\ x.pf[n] # Nil /\ OnlyChildSide(x, n) # GetLR(x, n)

-----------------------------------------------------------------------------
\* A fresh node; the first one is the tree.
Insert(n) ==
  /\ ~crossed /\ n \notin content
  /\ LET r == IF kind = "bst" THEN BstInsert(t, root, n) ELSE AvlInsert(t, root, n)
     IN IF root = Nil
        THEN t' = [t EXCEPT !.hgt[n] = 1] /\ root' = n /\ content' = {n}
        ELSE /\ t' = r.t /\ root' = r.root
             /\ content' = IF r.t = t THEN content ELSE content \cup {n}
  /\ UNCHANGED <<kind, crossed>>

Erase(n) ==
  /\ ~crossed /\ n \in content
  /\ crossed' = Crossed(t, n)
  /\ content' = content \ {n}
  /\ IF Crossed(t, n)
     THEN t' = BstErase(t, n).t /\ UNCHANGED root
     ELSE IF kind = "avl"
          THEN LET r == EraseImp(t, root, n) IN t' = r.t /\ root' = r.root
          ELSE LET r == BstErase(t, n) IN t' = r.t /\ root' = IF n = root THEN r.re ELSE root
  /\ UNCHANGED kind

Next == \E n \in Node : Insert(n) \/ Erase(n)

Spec == Init /\ [][Next]_tvars

-----------------------------------------------------------------------------
InOrder == LDR(t, root)

\* No search tree loses a node: walking it in order gives the inserted and
\* not erased nodes by rising values, every link has its counterpart, and a
\* search finds a value exactly when a node has it.
KeepsItsNodes ==
  ~crossed =>
    /\ Range(InOrder) = content /\ Len(InOrder) = Cardinality(content)
    /\ \A i \in 2..Len(InOrder) : Obj[InOrder[i - 1]] <= Obj[InOrder[i]]
    /\ CheckBinTree(t, root)
    /\ \A n \in Node \ content : t.pf[n] = Nil /\ t.pl[n] = Nil /\ t.pr[n] = Nil
    /\ \A n \in Node : (BinSearch(t, root, Obj[n]) # Nil) = (\E k \in content : Obj[k] = Obj[n])

\* The stored heights are the real ones and differ by one at most.
Balanced ==
  ~crossed /\ kind = "avl" =>
    \A n \in content :
      /\ t.hgt[n] = GetHeight(t, n)
      /\ Heavier(t, n) = "none"
      /\ CheckBinSearchTree(t, root)

\* The functions of a tree tell the same story as its in-order walk.
WalksAgree ==
  ~crossed =>
    LET byLevel == TraByLevel(t, root)
    IN /\ \A w \in {DLR(t, root), LRD(t, root), byLevel} : Len(w) = Len(InOrder) /\ Range(w) = content
       /\ \A i \in 2..Len(byLevel) : GetDepth(t, byLevel[i - 1]) <= GetDepth(t, byLevel[i])
       /\ GetNodeNum(t, root) = Cardinality(content)
       /\ \A n \in content : GetRootNode(t, n) = root /\ GetDepth(t, n) < GetHeight(t, root)
       /\ \E n \in content \cup {Nil} : n = Nil \/ GetDepth(t, n) + 1 = GetMinChain(t, root)
       /\ DeserializeTree(SerializeTree(t, root)) = CopyTree(t, root)

TreeIsRight == KeepsItsNodes /\ Balanced /\ WalksAgree
=============================================================================
