----------------------------- MODULE SequenceAlgs -----------------------------
(***************************************************************************)
(* The algorithms over arrays of math/sort_algs.hpp, over strings of       *)
(* string/string_algs.hpp and over Boolean expressions of                  *)
(* logic/bool_expression.hpp.  All are sequences, of integers, of          *)
(* character codes and of symbols; index i of the code is position i + 1   *)
(* here.  A loop that only moves an index is the index where it stops.     *)
(***************************************************************************)
EXTENDS Integers, Sequences, SequencesExt, TLC

-----------------------------------------------------------------------------
\* Sorting and searching.
Swapped(a, i, j) == [a EXCEPT ![i] = a[j], ![j] = a[i]]

InOrder2(a) == IF a[1] > a[2] THEN Swapped(a, 1, 2) ELSE a

\* The values of jj in the order of the two loops.
BubblePasses(n) == FlattenSeq([ii \in 1..n |-> [jj \in 1..(n - ii) |-> jj]])

BubbleSort(a) ==
  FoldLeft(LAMBDA x, j : IF x[j] > x[j + 1] THEN Swapped(x, j, j + 1) ELSE x, a, BubblePasses(Len(a)))

RECURSIVE Merged(_, _), MergeSort(_), MergeRound(_, _, _), MergeRounds(_, _), Partition(_, _, _, _),
          QuickSort(_), Search(_, _, _, _), SearchLast(_, _, _, _)

\* Of two equal heads the right one goes first.
Merged(l, r) ==
  IF l = <<>> \/ r = <<>> THEN l \o r
  ELSE IF Head(l) < Head(r) THEN <<Head(l)>> \o Merged(Tail(l), r) ELSE <<Head(r)>> \o Merged(l, Tail(r))

MergeSort(a) ==
  IF Len(a) < 2 THEN a
  ELSE IF Len(a) = 2 THEN InOrder2(a)
  ELSE LET middle == Len(a) \div 2
       IN Merged(MergeSort(SubSeq(a, 1, middle)), MergeSort(SubSeq(a, middle + 1, Len(a))))

\* One round of the bottom-up merge: the runs of length ii from jj on.
MergeRound(a, ii, jj) ==
  IF jj + ii >= Len(a) THEN SubSeq(a, jj + 1, Len(a))
  ELSE LET last == IF jj + 2 * ii > Len(a) THEN Len(a) ELSE jj + 2 * ii
       IN Merged(SubSeq(a, jj + 1, jj + ii), SubSeq(a, jj + ii + 1, last)) \o MergeRound(a, ii, last)

MergeRounds(a, ii) == IF ii >= Len(a) THEN a ELSE MergeRounds(MergeRound(a, ii, 0), 2 * ii)

MergeSort2(a) == IF Len(a) < 2 THEN a ELSE IF Len(a) = 2 THEN InOrder2(a) ELSE MergeRounds(a, 1)

\* The pivot is at cur and moves to whichever side swaps with it.
Partition(a, first, last, cur) ==
  IF first >= last THEN [a |-> a, cur |-> cur]
  ELSE LET l == CHOOSE k \in first..last :
                  /\ k = first \/ a[k] < a[cur]
                  /\ \A j \in (k + 1)..last : a[j] >= a[cur]
           x == Swapped(a, cur, l)
           f == CHOOSE k \in first..l :
                  /\ k = l \/ x[k] > x[l]
                  /\ \A j \in first..(k - 1) : x[j] <= x[l]
       IN Partition(Swapped(x, l, f), f, l, f)

QuickSort(a) ==
  IF Len(a) < 2 THEN a
  ELSE IF Len(a) = 2 THEN InOrder2(a)
  ELSE LET p == Partition(a, 1, Len(a), 1)
       IN QuickSort(SubSeq(p.a, 1, p.cur - 1)) \o <<p.a[p.cur]>> \o QuickSort(SubSeq(p.a, p.cur + 1, Len(a)))

Search(a, key, low, high) ==
  IF low >= high THEN low
  ELSE LET mid == low + (high - low) \div 2
       IN IF a[mid + 1] < key THEN Search(a, key, mid + 1, high) ELSE Search(a, key, low, mid)

\* The first index (from 0) of key in a sorted array, or its length.
BinarySearch(a, key) ==
  IF a = <<>> THEN 0
  ELSE LET i == Search(a, key, 0, Len(a) - 1) IN IF a[i + 1] = key THEN i ELSE Len(a)

SearchLast(a, key, low, high) ==
  IF low >= high THEN high
  ELSE LET mid == low + (high - low + 1) \div 2
       IN IF a[mid + 1] <= key THEN SearchLast(a, key, mid, high) ELSE SearchLast(a, key, low, mid - 1)

BinarySearchLast(a, key) ==
  IF a = <<>> THEN 0
  ELSE LET i == SearchLast(a, key, 0, Len(a) - 1) IN IF a[i + 1] = key THEN i ELSE Len(a)

-----------------------------------------------------------------------------
\* Strings.
RECURSIVE NextTable(_, _, _, _), Match(_, _, _, _, _), Distance(_, _)

\* next[k] for the positions of the pattern: where to go on after a mismatch.
NextTable(ps, next, ii, jj) ==
  IF ii = Len(ps) - 1 THEN next
  ELSE IF jj = -1 \/ ps[ii + 1] = ps[jj + 1]
       THEN NextTable(ps, Append(next, IF ps[ii + 2] = ps[jj + 2] THEN next[jj + 2] ELSE jj + 1), ii + 1, jj + 1)
       ELSE NextTable(ps, next, ii, next[jj + 1])

Match(ss, ps, next, ii, jj) ==
  IF jj = Len(ps) THEN ii - jj
  ELSE IF ii = Len(ss) THEN Len(ss)
  ELSE IF jj = -1 \/ ss[ii + 1] = ps[jj + 1]
       THEN Match(ss, ps, next, ii + 1, jj + 1)
       ELSE Match(ss, ps, next, ii, next[jj + 1])

\* The first position of ps in ss, or the length of ss.
KMP(ss, ps) ==
  IF Len(ps) > Len(ss) \/ ps = <<>> THEN Len(ss)
  ELSE Match(ss, ps, NextTable(ps, <<-1>>, 0, -1), 0, 0)

Min2(x, y) == IF x <= y THEN x ELSE y

\* One row of the table from the row above, M1; its first cell is ii.
Row(s2, c, M1, ii) ==
  FoldLeft(LAMBDA M2, jj : Append(M2, Min2((IF c = s2[jj] THEN 0 ELSE 1) + M1[jj], Min2(M1[jj + 1], M2[jj]) + 1)),
           <<ii>>, [jj \in 1..Len(s2) |-> jj])

Longer(s1, s2) == IF Len(s2) > Len(s1) THEN s2 ELSE s1
Shorter(s1, s2) == IF Len(s2) > Len(s1) THEN s1 ELSE s2

\* The edit distance, with two rows of the shorter string.
StrDif(s1, s2) ==
  LET l == Longer(s1, s2)
      s == Shorter(s1, s2)
  IN Last(FoldLeft(LAMBDA M1, ii : Row(s, l[ii], M1, ii), [jj \in 1..(Len(s) + 1) |-> jj - 1], [ii \in 1..Len(l) |-> ii]))

Start(s) == [positions |-> [c \in Range(s) |-> Len(s)], maxLen |-> 0, maxPos |-> 0, curLen |-> 0, curPos |-> 0]

Longest(w) == IF w.curLen > w.maxLen THEN [w EXCEPT !.maxLen = w.curLen, !.maxPos = w.curPos] ELSE w

\* One character: it extends the current substring, or starts one behind
\* its last occurrence.
Advance(s, w, ii) ==
  LET pre == w.positions[s[ii + 1]]
      fresh == pre = Len(s) \/ ii - pre > w.curLen
      x == IF fresh THEN [w EXCEPT !.curLen = @ + 1]
           ELSE [Longest(w) EXCEPT !.curLen = ii - pre, !.curPos = pre + 1]
  IN [x EXCEPT !.positions[s[ii + 1]] = ii]

\* The code initialises the entry of a code only if it is below the length
\* of the string; of other strings the result is undefined.
Initialised(s) == \A i \in DOMAIN s : s[i] < Len(s)
LongestSubStrWithoutDup(s) ==
  LET w == Longest(FoldLeft(LAMBDA x, i : Advance(s, x, i - 1), Start(s), [i \in 1..Len(s) |-> i]))
  IN <<w.maxPos, w.maxLen>>

-----------------------------------------------------------------------------
(***************************************************************************)
(* Boolean expressions: a syntax check, a translation to postfix form and  *)
(* its evaluation.  A key, which the code takes from several characters,   *)
(* is one symbol here; "t" and "f" are the keys that are true and false.   *)
(***************************************************************************)
Keys == {"t", "f"}
KeyCalc(k) == k = "t"

(***************************************************************************)
(* CheckExp: the automaton over the symbols.  Begin stands for the start   *)
(* and for an open bracket; the states after "!" and after "&" or "|"      *)
(* allow the same symbols.                                                 *)
(***************************************************************************)
CheckStep(c, x) ==
  CASE c.state \in {"begin", "negation", "andor"} /\ x = "(" -> [state |-> "begin", br |-> c.br + 1]
    [] c.state \in {"begin", "negation", "andor"} /\ x = "!" -> [c EXCEPT !.state = "negation"]
    [] c.state \in {"begin", "negation", "andor"} /\ x \in Keys -> [c EXCEPT !.state = "key"]
    [] c.state \in {"bracket", "key"} /\ x \in {"&", "|"} -> [c EXCEPT !.state = "andor"]
    [] c.state \in {"bracket", "key"} /\ x = ")" /\ c.br > 0 -> [state |-> "bracket", br |-> c.br - 1]
    [] OTHER -> [c EXCEPT !.state = "invalid"]

CheckExp(exp) ==
  LET c == FoldLeft(CheckStep, [state |-> "begin", br |-> 0], exp)
  IN c.state \in {"key", "bracket"} /\ c.br = 0

Priority(x) == CASE x = "(" -> 1 [] x \in {"&", "|"} -> 2 [] x = "!" -> 3 [] x = ")" -> 4 [] OTHER -> 0

RECURSIVE Unstack(_, _), Evaluate(_, _), Expression(_), Term(_)

\* Mutant of Goes: an operator of the same priority stays on the stack.
GoesStrictly(x, top) == Priority(x) < Priority(top)

\* The top of the stack goes to the output before operator x is stacked.
Goes(x, top) == Priority(x) <= Priority(top)

\* Pops to the output while x makes the top go; a closing bracket makes
\* everything go up to its opening one.
Unstack(p, x) ==
  IF IF x = ")" THEN Last(p.st) # "(" ELSE Goes(x, Last(p.st))
  THEN Unstack([st |-> Front(p.st), qu |-> Append(p.qu, Last(p.st))], x) ELSE p

PreStep(p, x) ==
  CASE x = "(" -> [p EXCEPT !.st = Append(@, x)]
    [] x = ")" -> LET q == Unstack(p, x) IN [q EXCEPT !.st = Front(@)]
    [] x \in {"!", "&", "|"} -> LET q == Unstack(p, x) IN [q EXCEPT !.st = Append(@, x)]
    [] OTHER -> [p EXCEPT !.qu = Append(@, x)]

\* The postfix form of a valid expression.
PreCalc(exp) ==
  LET p == FoldLeft(PreStep, [st |-> <<"#">>, qu |-> <<>>], exp)
  IN p.qu \o Reverse(Tail(p.st))

\* The second operand is on top; the first one decides only if it must.
\* (An operator on an empty stack, after "!!", is undefined behaviour.)
Evaluate(qu, st) ==
  IF qu = <<>> THEN Last(st)
  ELSE LET x == Head(qu)
           top == Last(st)
           rest == Front(st)
       IN Evaluate(Tail(qu),
            CASE x = "!" -> Append(rest, ~top)
              [] x = "&" -> Append(Front(rest), IF ~top THEN FALSE ELSE Last(rest))
              [] x = "|" -> Append(Front(rest), IF top THEN TRUE ELSE Last(rest))
              [] OTHER -> Append(st, KeyCalc(x)))

Calc(exp) == Evaluate(PreCalc(exp), <<>>)

-----------------------------------------------------------------------------
\* Every sort returns the sorted permutation, and the searches return the
\* first and the last position of a key, or the length.
SortsAgree(a, keys) ==
  LET s == SortSeq(a, LAMBDA x, y : x < y)
      At(k) == {i \in 0..(Len(s) - 1) : s[i + 1] = k}
      n == Len(s)
  IN /\ BubbleSort(a) = s /\ MergeSort(a) = s /\ MergeSort2(a) = s /\ QuickSort(a) = s
     /\ \A k \in keys :
          IF At(k) = {} THEN BinarySearch(s, k) = n /\ BinarySearchLast(s, k) = n
          ELSE /\ BinarySearch(s, k) \in At(k) /\ \A i \in At(k) : BinarySearch(s, k) <= i
               /\ BinarySearchLast(s, k) \in At(k) /\ \A i \in At(k) : i <= BinarySearchLast(s, k)

\* Reference: the edit distance by its recursive definition.
Distance(s1, s2) ==
  IF s1 = <<>> \/ s2 = <<>> THEN Len(s1) + Len(s2)
  ELSE Min2(Distance(Tail(s1), Tail(s2)) + IF Head(s1) = Head(s2) THEN 0 ELSE 1,
            Min2(Distance(Tail(s1), s2), Distance(s1, Tail(s2))) + 1)

Occurs(ss, ps, i) == SubSeq(ss, i + 1, i + Len(ps)) = ps
Distinct(s, i, n) == IsInjective(SubSeq(s, i + 1, i + n))

\* KMP finds the first occurrence, StrDif the edit distance, and the third
\* the first of the longest substrings without a repeated character.
StringsAgree(s, p) ==
  /\ LET At == {i \in 0..(Len(s) - Len(p)) : p # <<>> /\ Occurs(s, p, i)}
     IN IF At = {} THEN KMP(s, p) = Len(s) ELSE KMP(s, p) \in At /\ \A i \in At : KMP(s, p) <= i
  /\ StrDif(s, p) = Distance(s, p)
  /\ Initialised(s) /\ s # <<>> =>
       LET r == LongestSubStrWithoutDup(s)
       IN /\ r[2] >= 1 /\ r[1] + r[2] <= Len(s) /\ Distinct(s, r[1], r[2])
          /\ \A i \in 0..(Len(s) - 1) : \A n \in 1..(Len(s) - i) :
               Distinct(s, i, n) => n < r[2] \/ (n = r[2] /\ i >= r[1])

(***************************************************************************)
(* Reference: a parser of the grammar                                      *)
(*   Expression ::= Term { ("&" | "|") Term }   from left to right         *)
(*   Term       ::= key | "!" Term | "(" Expression ")"                    *)
(* which returns the value and what is left, or ok = FALSE.                *)
(***************************************************************************)
Bad == [ok |-> FALSE, val |-> FALSE, rest |-> <<>>]

Term(s) ==
  IF s = <<>> THEN Bad
  ELSE CASE Head(s) \in Keys -> [ok |-> TRUE, val |-> KeyCalc(Head(s)), rest |-> Tail(s)]
         [] Head(s) = "!" -> LET r == Term(Tail(s)) IN [r EXCEPT !.val = ~@]
         [] Head(s) = "(" -> LET r == Expression(Tail(s))
                             IN IF r.ok /\ r.rest # <<>> /\ Head(r.rest) = ")"
                                THEN [r EXCEPT !.rest = Tail(@)] ELSE Bad
         [] OTHER -> Bad

RECURSIVE More(_)
More(l) ==
  IF ~l.ok \/ l.rest = <<>> \/ Head(l.rest) \notin {"&", "|"} THEN l
  ELSE LET r == Term(Tail(l.rest))
       IN More([r EXCEPT !.val = IF Head(l.rest) = "&" THEN l.val /\ @ ELSE l.val \/ @])
Expression(s) == More(Term(s))

DoubleNegation(s) == \E i \in 2..Len(s) : s[i - 1] = "!" /\ s[i] = "!"

\* The check accepts the grammar and nothing else, and the value of every
\* accepted expression without "!!" is that of the grammar.
ExpressionAgrees(exp) ==
  LET r == Expression(exp)
  IN /\ CheckExp(exp) = (r.ok /\ r.rest = <<>>)
     /\ CheckExp(exp) /\ ~DoubleNegation(exp) => Calc(exp) = r.val
=============================================================================
