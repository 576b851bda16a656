--------------------------- MODULE SequenceLemmas ---------------------------
(***************************************************************************)
(* Facts that the proofs of several components need: which elements a      *)
(* queue holds, how often and in which order, after one was appended at    *)
(* its end or removed from its front; and that a function defined by       *)
(* recursion over numbers exists.                                          *)
(***************************************************************************)
EXTENDS Naturals, Sequences, Functions, SequenceTheorems, WellFoundedInduction, TLAPS

\* No member of S occurs twice in q.
Once(q, S) == \A i, j \in DOMAIN q : q[i] \in S /\ q[i] = q[j] => i = j

\* A sequence over S in which every element occurs once is an injection.
LEMMA OnceIsInjective ==
  ASSUME NEW S, NEW q \in Seq(S)
  PROVE  Once(q, S) <=> IsInjective(q)
BY DEF Once, IsInjective

\* The empty sequence holds nothing.
LEMMA EmptyOnce == /\ Range(<<>>) = {}
                   /\ \A S : Once(<<>>, S)
BY DEF Range, Once

\* Appending adds the element, which stays single if it was not there.
LEMMA AppendOnce ==
  ASSUME NEW T, NEW q \in Seq(T), NEW x \in T
  PROVE  /\ Append(q, x) \in Seq(T)
         /\ Range(Append(q, x)) = Range(q) \cup {x}
         /\ \A S : Once(q, S) /\ (x \in S => x \notin Range(q)) => Once(Append(q, x), S)
<1> DEFINE r == Append(q, x)
<1>1. /\ Len(q) \in Nat /\ DOMAIN q = 1..Len(q) /\ DOMAIN r = 1..(Len(q) + 1)
      /\ \A i \in 1..Len(q) : r[i] = q[i]
      /\ r[Len(q) + 1] = x /\ r \in Seq(T)
  OBVIOUS
<1> HIDE DEF r
<1>2. Range(r) = Range(q) \cup {x}
  BY <1>1 DEF Range
<1>3. ASSUME NEW S, Once(q, S), x \in S => x \notin Range(q),
             NEW i \in DOMAIN r, NEW j \in DOMAIN r, r[i] \in S, r[i] = r[j]
      PROVE  i = j
  <2>1. CASE i \in 1..Len(q) /\ j \in 1..Len(q)
    BY <1>1, <1>3, <2>1 DEF Once
  <2>2. CASE i = Len(q) + 1 \/ j = Len(q) + 1
    <3>1. x \in S /\ r[i] = x /\ r[j] = x
      BY <1>1, <1>3, <2>2
    <3>2. \A k \in 1..Len(q) : r[k] # x
      BY <1>1, <1>3, <3>1 DEF Range
    <3> QED BY <1>1, <3>1, <3>2
  <2> QED BY <1>1, <2>1, <2>2
<1>4. \A S : Once(q, S) /\ (x \in S => x \notin Range(q)) => Once(r, S)
  BY <1>3 DEF Once
<1> QED BY <1>1, <1>2, <1>4 DEF r

\* Removing the front removes one occurrence of it.
LEMMA TailOnce ==
  ASSUME NEW T, NEW q \in Seq(T), q # <<>>
  PROVE  /\ Head(q) \in T /\ Tail(q) \in Seq(T)
         /\ Range(q) = {Head(q)} \cup Range(Tail(q))
         /\ \A S : Once(q, S) => Once(Tail(q), S)
         /\ \A S : Once(q, S) /\ Head(q) \in S => Head(q) \notin Range(Tail(q))
<1> DEFINE t == Tail(q)
<1>1. /\ Len(q) \in Nat \ {0} /\ DOMAIN q = 1..Len(q) /\ DOMAIN t = 1..(Len(q) - 1)
      /\ \A i \in 1..(Len(q) - 1) : t[i] = q[i + 1]
      /\ Head(q) = q[1] /\ Head(q) \in T /\ t \in Seq(T)
  OBVIOUS
<1> HIDE DEF t
<1>2. Range(q) = {Head(q)} \cup Range(t)
  <2>1. ASSUME NEW y \in Range(q) PROVE y \in {Head(q)} \cup Range(t)
    <3>1. PICK i \in 1..Len(q) : q[i] = y
      BY <1>1 DEF Range
    <3>2. CASE i = 1
      BY <1>1, <3>1, <3>2
    <3>3. CASE i # 1
      <4>1. i - 1 \in 1..(Len(q) - 1) /\ t[i - 1] = y
        BY <1>1, <3>1, <3>3
      <4> QED BY <1>1, <4>1 DEF Range
    <3> QED BY <3>2, <3>3
  <2>2. ASSUME NEW y \in Range(t) PROVE y \in Range(q)
    <3>1. PICK i \in 1..(Len(q) - 1) : t[i] = y
      BY <1>1 DEF Range
    <3>2. i + 1 \in 1..Len(q) /\ q[i + 1] = y
      BY <1>1, <3>1
    <3> QED BY <1>1, <3>2 DEF Range
  <2>3. Head(q) \in Range(q)
    BY <1>1 DEF Range
  <2> QED BY <2>1, <2>2, <2>3
<1>3. ASSUME NEW S, Once(q, S), NEW i \in DOMAIN t, NEW j \in DOMAIN t, t[i] \in S, t[i] = t[j]
      PROVE  i = j
  <2>1. i + 1 \in DOMAIN q /\ j + 1 \in DOMAIN q /\ q[i + 1] = t[i] /\ q[j + 1] = t[j]
    BY <1>1, <1>3
  <2>2. i + 1 = j + 1
    BY <1>3, <2>1 DEF Once
  <2> QED BY <1>1, <2>2
<1>4. ASSUME NEW S, Once(q, S), Head(q) \in S, Head(q) \in Range(t) PROVE FALSE
  <2>1. PICK i \in DOMAIN t : t[i] = Head(q)
    BY <1>4 DEF Range
  <2>2. i + 1 \in DOMAIN q /\ 1 \in DOMAIN q /\ q[i + 1] = q[1] /\ q[1] \in S
    BY <1>1, <1>4, <2>1
  <2>3. i + 1 = 1
    BY <1>4, <2>2 DEF Once
  <2> QED BY <1>1, <2>3
<1>5. \A S : Once(q, S) => Once(t, S)
  BY <1>3 DEF Once
<1> QED BY <1>1, <1>2, <1>4, <1>5 DEF t

\* Concatenating two sequences that share nothing keeps every element single.
LEMMA ConcatOnce ==
  ASSUME NEW T, NEW p \in Seq(T), NEW q \in Seq(T)
  PROVE  /\ p \o q \in Seq(T)
         /\ Range(p \o q) = Range(p) \cup Range(q)
         /\ \A S : Once(p, S) /\ Once(q, S) /\ Range(p) \cap Range(q) \cap S = {}
                     => Once(p \o q, S)
<1> DEFINE r == p \o q
<1>1. /\ Len(p) \in Nat /\ Len(q) \in Nat
      /\ DOMAIN p = 1..Len(p) /\ DOMAIN q = 1..Len(q) /\ DOMAIN r = 1..(Len(p) + Len(q))
      /\ \A i \in 1..Len(p) : r[i] = p[i]
      /\ \A i \in (Len(p) + 1)..(Len(p) + Len(q)) : r[i] = q[i - Len(p)]
      /\ r \in Seq(T)
  OBVIOUS
<1>2. Range(r) = Range(p) \cup Range(q)
  BY RangeConcatenation
<1> HIDE DEF r
<1>3. ASSUME NEW S, Once(p, S), Once(q, S), Range(p) \cap Range(q) \cap S = {},
             NEW i \in DOMAIN r, NEW j \in DOMAIN r, r[i] \in S, r[i] = r[j]
      PROVE  i = j
  <2> DEFINE L(k) == k \in 1..Len(p)
             R(k) == k \in (Len(p) + 1)..(Len(p) + Len(q))
  <2>1. \A k \in DOMAIN r : L(k) \/ R(k)
    BY <1>1
  <2>2. /\ \A k \in DOMAIN r : L(k) => r[k] \in Range(p)
        /\ \A k \in DOMAIN r : R(k) => r[k] \in Range(q)
    <3>1. ASSUME NEW k \in DOMAIN r, R(k) PROVE r[k] \in Range(q)
      <4>1. k - Len(p) \in DOMAIN q /\ r[k] = q[k - Len(p)]
        BY <1>1, <3>1
      <4> QED BY <4>1 DEF Range
    <3> QED BY <1>1, <3>1 DEF Range
  <2>3. CASE L(i) /\ L(j)
    BY <1>1, <1>3, <2>3 DEF Once
  <2>4. CASE R(i) /\ R(j)
    <3>1. /\ i - Len(p) \in DOMAIN q /\ j - Len(p) \in DOMAIN q
          /\ q[i - Len(p)] = r[i] /\ q[j - Len(p)] = r[j]
      BY <1>1, <2>4
    <3>2. i - Len(p) = j - Len(p)
      BY <1>3, <3>1 DEF Once
    <3> QED BY <1>1, <3>2
  <2> QED BY <1>3, <2>1, <2>2, <2>3, <2>4
<1>4. \A S : Once(p, S) /\ Once(q, S) /\ Range(p) \cap Range(q) \cap S = {} => Once(r, S)
  BY <1>3 DEF Once
<1> QED BY <1>1, <1>2, <1>4 DEF r

\* Cutting a sequence in two: what was single is in one part only.
LEMMA SplitOnce ==
  ASSUME NEW T, NEW q \in Seq(T), NEW n \in 1..Len(q)
  PROVE  /\ SubSeq(q, 1, n) \in Seq(T) /\ SubSeq(q, n + 1, Len(q)) \in Seq(T)
         /\ Range(SubSeq(q, 1, n)) \subseteq Range(q)
         /\ Range(SubSeq(q, n + 1, Len(q))) \subseteq Range(q)
         /\ \A S : Once(q, S) =>
              /\ Once(SubSeq(q, n + 1, Len(q)), S)
              /\ Range(SubSeq(q, 1, n)) \cap Range(SubSeq(q, n + 1, Len(q))) \cap S = {}
<1> DEFINE a == SubSeq(q, 1, n)
           b == SubSeq(q, n + 1, Len(q))
<1>1. /\ Len(q) \in Nat /\ DOMAIN q = 1..Len(q) /\ n \in Nat
      /\ DOMAIN a = 1..n /\ \A i \in 1..n : a[i] = q[i]
      /\ DOMAIN b = 1..(Len(q) - n) /\ \A i \in 1..(Len(q) - n) : b[i] = q[i + n]
      /\ a \in Seq(T) /\ b \in Seq(T)
  OBVIOUS
<1> HIDE DEF a, b
<1>2. Range(a) \subseteq Range(q)
  BY <1>1 DEF Range
<1>3. ASSUME NEW i \in DOMAIN b PROVE i + n \in DOMAIN q /\ i + n > n /\ b[i] = q[i + n]
  BY <1>1
<1>4. Range(b) \subseteq Range(q)
  BY <1>3 DEF Range
<1>5. ASSUME NEW S, Once(q, S) PROVE Once(b, S) /\ Range(a) \cap Range(b) \cap S = {}
  <2>1. ASSUME NEW i \in DOMAIN b, NEW j \in DOMAIN b, b[i] \in S, b[i] = b[j] PROVE i = j
    <3>1. i + n = j + n
      BY <1>3, <1>5, <2>1 DEF Once
    <3> QED BY <1>1, <3>1
  <2>2. ASSUME NEW i \in DOMAIN a, NEW j \in DOMAIN b, a[i] \in S, a[i] = b[j] PROVE FALSE
    <3>1. i \in DOMAIN q /\ q[i] = a[i] /\ i <= n
      BY <1>1
    <3>2. i = j + n
      BY <1>3, <1>5, <2>2, <3>1 DEF Once
    <3> QED BY <1>1, <1>3, <3>1, <3>2
  <2>3. Once(b, S)
    BY <2>1 DEF Once
  <2>4. Range(a) \cap Range(b) \cap S = {}
    BY <2>2 DEF Range
  <2> QED BY <2>3, <2>4
<1> QED BY <1>1, <1>2, <1>4, <1>5 DEF a, b

-----------------------------------------------------------------------------
\* Every x of q comes before every y of q.
Before(q, x, y) == \A i, j \in DOMAIN q : q[i] = x /\ q[j] = y => i < j

\* Appending at the end cannot put an x behind a y, unless the x is new.
LEMMA AppendBefore ==
  ASSUME NEW T, NEW q \in Seq(T), NEW x \in T, NEW a, NEW b, a # b,
         Before(q, a, b) \/ b \notin Range(q), x = a => b \notin Range(q)
  PROVE  Before(Append(q, x), a, b)
<1> DEFINE r == Append(q, x)
<1>1. /\ Len(q) \in Nat /\ DOMAIN q = 1..Len(q) /\ DOMAIN r = 1..(Len(q) + 1)
      /\ \A i \in 1..Len(q) : r[i] = q[i]
      /\ r[Len(q) + 1] = x
  OBVIOUS
<1> HIDE DEF r
<1>2. ASSUME NEW i \in DOMAIN r, NEW j \in DOMAIN r, r[i] = a, r[j] = b PROVE i < j
  <2>1. CASE j = Len(q) + 1
    <3>1. i # j
      BY <1>2
    <3> QED BY <1>1, <2>1, <3>1
  <2>2. CASE j # Len(q) + 1
    <3>1. j \in DOMAIN q /\ q[j] = b /\ b \in Range(q)
      BY <1>1, <1>2, <2>2 DEF Range
    <3>2. i \in DOMAIN q /\ q[i] = a
      BY <1>1, <1>2, <3>1
    <3> QED BY <3>1, <3>2 DEF Before
  <2> QED BY <2>1, <2>2
<1> QED BY <1>2 DEF Before, r

\* The order outlives the front, and nothing that must come first is behind
\* what must come last.
LEMMA TailBefore ==
  ASSUME NEW T, NEW q \in Seq(T), q # <<>>, NEW a, NEW b, Before(q, a, b)
  PROVE  /\ Before(Tail(q), a, b)
         /\ Head(q) = b => a \notin Range(q)
<1> DEFINE t == Tail(q)
<1>1. /\ Len(q) \in Nat \ {0} /\ DOMAIN q = 1..Len(q) /\ DOMAIN t = 1..(Len(q) - 1)
      /\ \A i \in 1..(Len(q) - 1) : t[i] = q[i + 1]
      /\ Head(q) = q[1]
  OBVIOUS
<1> HIDE DEF t
<1>2. ASSUME NEW i \in DOMAIN t, NEW j \in DOMAIN t, t[i] = a, t[j] = b PROVE i < j
  <2>1. i + 1 \in DOMAIN q /\ j + 1 \in DOMAIN q /\ q[i + 1] = a /\ q[j + 1] = b
    BY <1>1, <1>2
  <2>2. i + 1 < j + 1
    BY <2>1 DEF Before
  <2> QED BY <1>1, <2>2
<1>3. ASSUME Head(q) = b, NEW i \in DOMAIN q, q[i] = a PROVE FALSE
  <2>1. i < 1
    BY <1>1, <1>3 DEF Before
  <2> QED BY <1>1, <2>1
<1>4. Head(q) = b => a \notin Range(q)
  BY <1>3 DEF Range
<1> QED BY <1>2, <1>4 DEF Before, t

\* Elements added behind do not disturb the order when no first one is added.
LEMMA ConcatBefore ==
  ASSUME NEW T, NEW p \in Seq(T), NEW q \in Seq(T), NEW a, NEW b,
         Before(p, a, b), a \notin Range(q)
  PROVE  Before(p \o q, a, b)
<1> DEFINE r == p \o q
<1>1. /\ Len(p) \in Nat /\ Len(q) \in Nat
      /\ DOMAIN p = 1..Len(p) /\ DOMAIN q = 1..Len(q) /\ DOMAIN r = 1..(Len(p) + Len(q))
      /\ \A i \in 1..Len(p) : r[i] = p[i]
      /\ \A i \in (Len(p) + 1)..(Len(p) + Len(q)) : r[i] = q[i - Len(p)]
  OBVIOUS
<1> HIDE DEF r
<1>2. ASSUME NEW i \in DOMAIN r, NEW j \in DOMAIN r, r[i] = a, r[j] = b PROVE i < j
  <2>1. i \in DOMAIN p /\ p[i] = a
    <3>1. CASE i > Len(p)
      <4>1. i - Len(p) \in DOMAIN q /\ q[i - Len(p)] = a
        BY <1>1, <1>2, <3>1
      <4> QED BY <4>1 DEF Range
    <3> QED BY <1>1, <1>2, <3>1
  <2>2. CASE j \in 1..Len(p)
    BY <1>1, <1>2, <2>1, <2>2 DEF Before
  <2>3. CASE j \notin 1..Len(p)
    BY <1>1, <2>1, <2>3
  <2> QED BY <2>2, <2>3
<1> QED BY <1>2 DEF Before, r

-----------------------------------------------------------------------------
\* The pairs of elements of q, the first of which comes before the second.
Pairs(q) == {p \in Range(q) \X Range(q) : \E i, j \in DOMAIN q : i < j /\ p = <<q[i], q[j]>>}

\* An element is single if it does not come before itself.
LEMMA InjectivePairs ==
  ASSUME NEW T, NEW q \in Seq(T)
  PROVE  IsInjective(q) <=> \A x \in T : <<x, x>> \notin Pairs(q)
<1>1. ASSUME IsInjective(q), NEW x \in T, <<x, x>> \in Pairs(q) PROVE FALSE
  <2>1. PICK i \in DOMAIN q, j \in DOMAIN q : i < j /\ <<x, x>> = <<q[i], q[j]>>
    BY <1>1 DEF Pairs
  <2>2. i = j
    BY <1>1, <2>1 DEF IsInjective
  <2> QED BY <2>1, <2>2
<1>2. ASSUME \A x \in T : <<x, x>> \notin Pairs(q), NEW i \in DOMAIN q, NEW j \in DOMAIN q, q[i] = q[j]
      PROVE  i = j
  <2>1. q[i] \in T /\ q[i] \in Range(q) /\ i \in Nat /\ j \in Nat
    BY DEF Range
  <2>2. ~(i < j) /\ ~(j < i)
    BY <1>2, <2>1 DEF Pairs
  <2> QED BY <2>1, <2>2
<1> QED BY <1>1, <1>2 DEF IsInjective

\* Appending puts the new element behind all the others.
LEMMA AppendPairs ==
  ASSUME NEW T, NEW q \in Seq(T), NEW x \in T
  PROVE  /\ Append(q, x) \in Seq(T)
         /\ Range(Append(q, x)) = Range(q) \cup {x}
         /\ Pairs(Append(q, x)) = Pairs(q) \cup (Range(q) \X {x})
<1> DEFINE r == Append(q, x)
<1>1. /\ Len(q) \in Nat /\ DOMAIN q = 1..Len(q) /\ DOMAIN r = 1..(Len(q) + 1)
      /\ \A i \in 1..Len(q) : r[i] = q[i]
      /\ r[Len(q) + 1] = x /\ r \in Seq(T)
  OBVIOUS
<1> HIDE DEF r
<1>2. Range(r) = Range(q) \cup {x}
  BY <1>1 DEF Range
<1>3. ASSUME NEW p \in Pairs(r) PROVE p \in Pairs(q) \cup (Range(q) \X {x})
  <2>1. PICK i \in DOMAIN r, j \in DOMAIN r : i < j /\ p = <<r[i], r[j]>>
    BY DEF Pairs
  <2>2. i \in DOMAIN q /\ r[i] = q[i] /\ q[i] \in Range(q)
    BY <1>1, <2>1 DEF Range
  <2>3. CASE j = Len(q) + 1
    BY <1>1, <2>1, <2>2, <2>3
  <2>4. CASE j # Len(q) + 1
    <3>1. j \in DOMAIN q /\ r[j] = q[j] /\ q[j] \in Range(q)
      BY <1>1, <2>1, <2>4 DEF Range
    <3>2. p \in Range(q) \X Range(q) /\ i < j /\ p = <<q[i], q[j]>>
      BY <2>1, <2>2, <3>1
    <3> QED BY <2>2, <3>1, <3>2 DEF Pairs
  <2> QED BY <2>3, <2>4
<1>4. ASSUME NEW p \in Pairs(q) PROVE p \in Pairs(r)
  <2>1. PICK i \in DOMAIN q, j \in DOMAIN q : i < j /\ p = <<q[i], q[j]>>
    BY DEF Pairs
  <2>2. i \in DOMAIN r /\ j \in DOMAIN r /\ r[i] = q[i] /\ r[j] = q[j]
    BY <1>1, <2>1
  <2>3. p \in Range(r) \X Range(r)
    BY <2>1, <2>2 DEF Range
  <2> QED BY <2>1, <2>2, <2>3 DEF Pairs
<1>5. ASSUME NEW y \in Range(q) PROVE <<y, x>> \in Pairs(r)
  <2>1. PICK i \in DOMAIN q : q[i] = y
    BY DEF Range
  <2>2. /\ i \in DOMAIN r /\ Len(q) + 1 \in DOMAIN r /\ i < Len(q) + 1
        /\ r[i] = y /\ r[Len(q) + 1] = x
    BY <1>1, <2>1
  <2>3. <<y, x>> \in Range(r) \X Range(r)
    BY <1>2
  <2> QED BY <2>2, <2>3 DEF Pairs
<1>6. Pairs(r) = Pairs(q) \cup (Range(q) \X {x})
  BY <1>3, <1>4, <1>5
<1> QED BY <1>1, <1>2, <1>6 DEF r

-----------------------------------------------------------------------------
\* A set of numbers with 0 and with the successor of each member is Nat.
LEMMA SetInduction ==
  ASSUME NEW T, T \subseteq Nat, 0 \in T, \A n \in T : n + 1 \in T
  PROVE  T = Nat
<1> DEFINE R == OpToRel(<, Nat)
           U == Nat \ T
<1>1. SUFFICES ASSUME U # {} PROVE FALSE
  OBVIOUS
<1>2. IsWellFoundedOn(R, Nat)
  BY NatLessThanWellFounded
<1>3. PICK x \in U : \A y \in U : ~ (<<y, x>> \in R)
  <2> HIDE DEF R
  <2> QED BY <1>1, <1>2, WFMin
<1>4. x \in Nat /\ x # 0 /\ x - 1 \in Nat /\ x - 1 < x
  OBVIOUS
<1>5. x - 1 \notin U
  <2>1. <<x - 1, x>> \in R
    BY <1>4 DEF OpToRel
  <2> QED BY <2>1, <1>3
<1>6. (x - 1) + 1 = x
  BY <1>4
<1> QED BY <1>4, <1>5, <1>6

\* A nonempty set of numbers has a least member.
LEMMA Least ==
  ASSUME NEW U, U \subseteq Nat, U # {}
  PROVE  \E x \in U : \A y \in U : x <= y
<1> DEFINE R == OpToRel(<, Nat)
<1>2. IsWellFoundedOn(R, Nat)
  BY NatLessThanWellFounded
<1>3. PICK x \in U : \A y \in U : ~ (<<y, x>> \in R)
  <2> HIDE DEF R
  <2> QED BY <1>2, WFMin
<1>4. ASSUME NEW y \in U PROVE x <= y
  <2>1. ~(y < x)
    BY <1>3 DEF OpToRel
  <2> QED BY <2>1
<1> QED BY <1>4

\* What a recursive function is: there is a function with the first value v
\* and each further value given by g from the one before.
LEMMA RecursionExists ==
  ASSUME NEW V, NEW v \in V, NEW n \in Nat, NEW g \in [1..n -> [V -> V]]
  PROVE  \E f \in [0..n -> V] : f[0] = v /\ \A i \in 1..n : f[i] = g[i][f[i - 1]]
<1> DEFINE Good(f, m) == f \in [0..m -> V] /\ f[0] = v /\ \A i \in 1..m : f[i] = g[i][f[i - 1]]
           T == {m \in Nat : m <= n => \E f : Good(f, m)}
<1>1. 0 \in T
  <2> DEFINE f == [i \in 0..0 |-> v]
  <2>1. Good(f, 0)
    OBVIOUS
  <2> QED BY <2>1
<1>2. ASSUME NEW m \in T PROVE m + 1 \in T
  <2>1. CASE m + 1 <= n
    <3>1. PICK f : Good(f, m)
      BY <1>2, <2>1
    <3> DEFINE h == [i \in 0..(m + 1) |-> IF i = m + 1 THEN g[m + 1][f[m]] ELSE f[i]]
    <3>2. f[m] \in V /\ m + 1 \in 1..n
      BY <3>1, <2>1
    <3>3. g[m + 1][f[m]] \in V
      BY <3>2
    <3>4. h \in [0..(m + 1) -> V] /\ h[0] = v
      BY <3>1, <3>3
    <3>5. ASSUME NEW i \in 1..(m + 1) PROVE h[i] = g[i][h[i - 1]]
      <4>1. CASE i = m + 1
        <5>1. h[i - 1] = f[m] /\ h[i] = g[m + 1][f[m]]
          BY <4>1
        <5> QED BY <5>1, <4>1
      <4>2. CASE i # m + 1
        <5>1. i \in 1..m /\ h[i] = f[i] /\ h[i - 1] = f[i - 1]
          BY <4>2
        <5> QED BY <5>1, <3>1
      <4> QED BY <4>1, <4>2
    <3>6. Good(h, m + 1)
      BY <3>4, <3>5
    <3> HIDE DEF Good
    <3> QED BY <3>6
  <2> HIDE DEF Good
  <2> QED BY <2>1
<1>3. T = Nat
  <2> HIDE DEF T
  <2>1. T \subseteq Nat
    BY DEF T
  <2> QED BY <1>1, <1>2, <2>1, SetInduction
<1>4. PICK f : Good(f, n)
  <2> HIDE DEF Good
  <2>1. n \in T
    <3> HIDE DEF T
    <3> QED BY <1>3
  <2> QED BY <2>1
<1> QED BY <1>4

\* The values of such a function are in V.
LEMMA RecursionIn ==
  ASSUME NEW V, NEW v \in V, NEW n \in Nat, NEW g \in [1..n -> [V -> V]], NEW f,
         f[0] = v, \A i \in 1..n : f[i - 1] \in V => f[i] = g[i][f[i - 1]]
  PROVE  \A i \in 0..n : f[i] \in V
<1> DEFINE T == {m \in Nat : m <= n => f[m] \in V}
<1>1. 0 \in T
  OBVIOUS
<1>2. ASSUME NEW m \in T PROVE m + 1 \in T
  <2>1. ASSUME m + 1 <= n PROVE f[m + 1] \in V
    <3>1. m + 1 \in 1..n /\ f[m] \in V /\ (m + 1) - 1 = m
      BY <1>2, <2>1
    <3>2. f[m + 1] = g[m + 1][f[m]]
      BY <3>1
    <3> QED BY <3>1, <3>2
  <2> QED BY <2>1
<1>3. T = Nat
  <2> HIDE DEF T
  <2>1. T \subseteq Nat
    BY DEF T
  <2> QED BY <1>1, <1>2, <2>1, SetInduction
<1> QED BY <1>3

-----------------------------------------------------------------------------
\* The sequence without the elements of ks: the others stay, in their order.
Filtered(q, ks) ==
  LET from[n \in 0..Len(q)] ==
        IF n = 0 THEN <<>>
        ELSE IF q[n] \in ks THEN from[n - 1] ELSE Append(from[n - 1], q[n])
  IN  from[Len(q)]

LEMMA FilteredFacts ==
  ASSUME NEW T, NEW q \in Seq(T), NEW ks
  PROVE  /\ Filtered(q, ks) \in Seq(T) /\ Len(Filtered(q, ks)) <= Len(q)
         /\ Range(Filtered(q, ks)) = Range(q) \ ks
         /\ Pairs(Filtered(q, ks)) = {p \in Pairs(q) : p[1] \notin ks /\ p[2] \notin ks}
<1> DEFINE V == Seq(T)
           v == <<>>
           n == Len(q)
           Step(m, s) == IF q[m] \in ks THEN s ELSE Append(s, q[m])
           g == [m \in 1..n |-> [s \in V |-> Step(m, s)]]
           Is(f) == f = [m \in 0..n |-> IF m = 0 THEN <<>>
                                        ELSE IF q[m] \in ks THEN f[m - 1] ELSE Append(f[m - 1], q[m])]
           from == CHOOSE f : Is(f)
<1>0. n \in Nat /\ DOMAIN q = 1..n /\ v \in V /\ \A m \in 1..n : q[m] \in T
  OBVIOUS
<1>s. \A m \in 1..n, s \in V : Step(m, s) \in V
  BY <1>0, AppendPairs
<1>i. \A f : Is(f) <=> f = [m \in 0..n |-> IF m = 0 THEN v ELSE Step(m, f[m - 1])]
  OBVIOUS
<1>e. Filtered(q, ks) = from[n]
  BY DEF Filtered
<1> HIDE DEF V, v, n, Step, Is
<1>1. g \in [1..n -> [V -> V]]
  BY <1>s
<1>g. \A m \in 1..n, s \in V : g[m][s] = Step(m, s)
  OBVIOUS
<1> HIDE DEF g
<1>2. PICK f \in [0..n -> V] : f[0] = v /\ \A m \in 1..n : f[m] = g[m][f[m - 1]]
  <2>1. n \in Nat /\ v \in V
    BY <1>0
  <2> HIDE DEF from
  <2> QED BY <2>1, <1>1, RecursionExists, SMTT(30)
<1>3. \A m \in 1..n : f[m] = Step(m, f[m - 1])
  <2>1. \A m \in 1..n : m - 1 \in 0..n
    BY <1>0
  <2> QED BY <1>2, <2>1, <1>g
<1>4. Is(f)
  <2>1. \A m \in 0..n : f[m] = IF m = 0 THEN v ELSE Step(m, f[m - 1])
    BY <1>0, <1>2, <1>3
  <2> QED BY <1>2, <2>1, <1>i
<1>5. Is(from)
  BY <1>4
<1> HIDE DEF from
<1>6. from[0] = v /\ \A m \in 1..n : from[m] = Step(m, from[m - 1])
  BY <1>0, <1>5, <1>i
<1>7. \A m \in 1..n : from[m - 1] \in V => from[m] = g[m][from[m - 1]]
  BY <1>6, <1>g
<1>8. \A m \in 0..n : from[m] \in V
  BY <1>0, <1>1, <1>6, <1>7, RecursionIn
<1> DEFINE R(m) == {q[i] : i \in 1..m} \ ks
           Ps(m) == {p \in T \X T : /\ \E i, j \in 1..m : i < j /\ p = <<q[i], q[j]>>
                                    /\ p[1] \notin ks /\ p[2] \notin ks}
           Done(m) == Len(from[m]) <= m /\ Range(from[m]) = R(m) /\ Pairs(from[m]) = Ps(m)
           U == {m \in Nat : m <= n => Done(m)}
<1>9. 0 \in U
  <2>1. Range(<<>>) = {} /\ Pairs(<<>>) = {}
    BY DEF Range, Pairs
  <2>2. R(0) = {} /\ Ps(0) = {}
    OBVIOUS
  <2> QED BY <1>6, <2>1, <2>2 DEF v
<1>10. ASSUME NEW m \in U, m + 1 <= n PROVE Done(m + 1)
  <2>1. /\ m \in Nat /\ m + 1 \in 1..n /\ m \in 0..n /\ (m + 1) - 1 = m /\ Done(m)
        /\ q[m + 1] \in T /\ from[m] \in Seq(T)
        /\ \A i \in 1..m : q[i] \in T
    <3>1. m \in Nat /\ m + 1 <= n /\ Done(m)
      BY <1>10, <1>0
    <3> HIDE DEF Done, U
    <3> QED BY <3>1, <1>0, <1>8 DEF V
  <2>2. \A i : i \in 1..(m + 1) <=> i \in 1..m \/ i = m + 1
    BY <2>1
  <2> HIDE DEF U
  <2>3. CASE q[m + 1] \in ks
    <3>1. from[m + 1] = from[m]
      BY <2>1, <2>3, <1>6 DEF Step
    <3>2. R(m + 1) = R(m)
      BY <2>2, <2>3
    <3>3. Ps(m + 1) = Ps(m)
      BY <2>1, <2>2, <2>3
    <3>4. Len(from[m + 1]) <= m + 1
      BY <2>1, <3>1
    <3> HIDE DEF Ps, R
    <3> QED BY <2>1, <3>1, <3>2, <3>3, <3>4
  <2>4. CASE q[m + 1] \notin ks
    <3>1. from[m + 1] = Append(from[m], q[m + 1])
      BY <2>1, <2>4, <1>6 DEF Step
    <3>2. R(m + 1) = R(m) \cup {q[m + 1]}
      BY <2>2, <2>4
    <3>3. Ps(m + 1) = Ps(m) \cup (R(m) \X {q[m + 1]})
      <4>1. ASSUME NEW p \in Ps(m + 1) PROVE p \in Ps(m) \cup (R(m) \X {q[m + 1]})
        <5>1. PICK i \in 1..(m + 1), j \in 1..(m + 1) :
                 i < j /\ p = <<q[i], q[j]>> /\ q[i] \notin ks /\ q[j] \notin ks
          OBVIOUS
        <5>2. i \in 1..m
          BY <2>1, <5>1
        <5>3. CASE j = m + 1
          BY <5>1, <5>2, <5>3
        <5>4. CASE j \in 1..m
          <6>1. p \in T \X T /\ p[1] = q[i] /\ p[2] = q[j]
            BY <5>1
          <6> QED BY <5>1, <5>2, <5>4, <6>1
        <5> QED BY <2>2, <5>3, <5>4
      <4>2. ASSUME NEW p \in Ps(m) PROVE p \in Ps(m + 1)
        BY <2>2
      <4>3. ASSUME NEW y \in R(m) PROVE <<y, q[m + 1]>> \in Ps(m + 1)
        <5>1. PICK i \in 1..m : q[i] = y /\ y \notin ks
          OBVIOUS
        <5>2. i \in 1..(m + 1) /\ m + 1 \in 1..(m + 1) /\ i < m + 1
          BY <2>1
        <5>3. <<y, q[m + 1]>> \in T \X T
          BY <2>1, <5>1
        <5> QED BY <2>4, <5>1, <5>2, <5>3
      <4> HIDE DEF Ps, R
      <4> QED BY <4>1, <4>2, <4>3
    <3>4. /\ Range(from[m + 1]) = Range(from[m]) \cup {q[m + 1]}
          /\ Pairs(from[m + 1]) = Pairs(from[m]) \cup (Range(from[m]) \X {q[m + 1]})
      BY <2>1, <3>1, AppendPairs
    <3>5. Len(from[m + 1]) <= m + 1
      BY <2>1, <3>1
    <3> HIDE DEF Ps, R
    <3> QED BY <2>1, <3>2, <3>3, <3>4, <3>5
  <2> QED BY <2>3, <2>4
<1>11. U = Nat
  <2> HIDE DEF U
  <2>1. U \subseteq Nat
    BY DEF U
  <2>2. ASSUME NEW m \in U PROVE m + 1 \in U
    <3> HIDE DEF Done
    <3> QED BY <1>10, <2>1 DEF U
  <2> QED BY <1>9, <2>1, <2>2, SetInduction
<1>12. Done(n)
  <2>1. n \in U
    BY <1>0, <1>11
  <2> HIDE DEF Done
  <2> QED BY <2>1
<1>13. R(n) = Range(q) \ ks
  BY <1>0 DEF Range
<1>14. Ps(n) = {p \in Pairs(q) : p[1] \notin ks /\ p[2] \notin ks}
  <2>1. \A i \in 1..n : q[i] \in Range(q) /\ q[i] \in T
    BY <1>0 DEF Range
  <2>2. Range(q) \subseteq T
    BY <1>0 DEF Range
  <2>3. Pairs(q) = {p \in T \X T : \E i, j \in 1..n : i < j /\ p = <<q[i], q[j]>>}
    BY <1>0, <2>1, <2>2, SMTT(30) DEF Pairs
  <2>4. ASSUME NEW p \in Ps(n) PROVE p \in Pairs(q) /\ p[1] \notin ks /\ p[2] \notin ks
    <3>1. PICK i \in 1..n, j \in 1..n : i < j /\ p = <<q[i], q[j]>> /\ q[i] \notin ks /\ q[j] \notin ks
      OBVIOUS
    <3>2. p \in T \X T /\ p[1] = q[i] /\ p[2] = q[j]
      BY <3>1
    <3> QED BY <2>3, <3>1, <3>2
  <2>5. ASSUME NEW p \in Pairs(q), p[1] \notin ks, p[2] \notin ks PROVE p \in Ps(n)
    <3>1. PICK i \in 1..n, j \in 1..n : i < j /\ p = <<q[i], q[j]>>
      BY <2>3
    <3>2. p \in T \X T /\ p[1] = q[i] /\ p[2] = q[j]
      BY <2>3, <3>1
    <3> QED BY <2>5, <3>1, <3>2
  <2> HIDE DEF Ps
  <2> QED BY <2>4, <2>5
<1>15. from[n] \in Seq(T)
  BY <1>0, <1>8 DEF V
<1>16. Len(from[n]) <= Len(q)
  BY <1>12 DEF n
<1> HIDE DEF R, Ps
<1> QED BY <1>e, <1>12, <1>13, <1>14, <1>15, <1>16

-----------------------------------------------------------------------------
(***************************************************************************)
(* Sequences that count their elements, and elements that move from the    *)
(* head of one sequence to the end of the one before it.                   *)
(***************************************************************************)
Count(n) == [i \in 1..n |-> i]

LEMMA CountIs ==
  ASSUME NEW n \in Nat
  PROVE  Count(n) \in Seq(Nat) /\ Len(Count(n)) = n /\ Append(Count(n), n + 1) = Count(n + 1)
<1>1. Count(n) \in Seq(Nat) /\ Len(Count(n)) = n
  BY DEF Count
<1>2. Count(n + 1) \in Seq(Nat) /\ Len(Count(n + 1)) = n + 1
  BY DEF Count
<1>3. Append(Count(n), n + 1) \in Seq(Nat) /\ Len(Append(Count(n), n + 1)) = n + 1
  BY <1>1
<1>4. \A i \in 1..(n + 1) : Append(Count(n), n + 1)[i] = Count(n + 1)[i]
  BY <1>1 DEF Count
<1> QED BY <1>1, <1>2, <1>3, <1>4, SeqEqual

LEMMA ConcatAppend ==
  ASSUME NEW T, NEW q \in Seq(T), NEW p \in Seq(T), NEW x \in T
  PROVE  q \o Append(p, x) = Append(q \o p, x)
<1>1. Append(p, x) = p \o <<x>> /\ <<x>> \in Seq(T)
  BY AppendIsConcat
<1>2. q \o p \in Seq(T)
  BY ConcatProperties
<1>3. Append(q \o p, x) = (q \o p) \o <<x>>
  BY <1>2, AppendIsConcat
<1>4. (q \o p) \o <<x>> = q \o (p \o <<x>>)
  BY <1>1, ConcatAssociative
<1> QED BY <1>1, <1>3, <1>4

LEMMA ConcatMoves ==
  ASSUME NEW T, NEW q \in Seq(T), NEW p \in Seq(T), p # <<>>
  PROVE  Append(q, Head(p)) \o Tail(p) = q \o p
<1>1. Head(p) \in T /\ Tail(p) \in Seq(T) /\ <<Head(p)>> \in Seq(T)
  BY HeadTailProperties
<1>2. p = <<Head(p)>> \o Tail(p)
  OBVIOUS
<1>3. Append(q, Head(p)) = q \o <<Head(p)>>
  BY <1>1, AppendIsConcat
<1>4. (q \o <<Head(p)>>) \o Tail(p) = q \o (<<Head(p)>> \o Tail(p))
  BY <1>1, ConcatAssociative
<1> QED BY <1>2, <1>3, <1>4

\* The numbers 1, 2, ... pass through four queues in their order: the front of
\* what has arrived in out, then writing, then list, and posted last.
InOrder(out, writing, list, posted) ==
  out \o writing \o list \o posted = Count(Len(out) + Len(writing) + Len(list) + Len(posted))

LEMMA InOrderMoves ==
  ASSUME NEW o \in Seq(Nat), NEW w \in Seq(Nat), NEW l \in Seq(Nat), NEW p \in Seq(Nat),
         InOrder(o, w, l, p)
  PROVE  LET n == Len(o) + Len(w) + Len(l) + Len(p)
         IN  /\ Append(p, n + 1) \in Seq(Nat) /\ InOrder(o, w, l, Append(p, n + 1))
             /\ p # <<>> => /\ Append(l, Head(p)) \in Seq(Nat) /\ Tail(p) \in Seq(Nat)
                            /\ InOrder(o, w, Append(l, Head(p)), Tail(p))
             /\ w = <<>> => InOrder(o, l, <<>>, p)
             /\ o \o w \in Seq(Nat) /\ InOrder(o \o w, <<>>, l, p)
<1> DEFINE n == Len(o) + Len(w) + Len(l) + Len(p)
           a == o \o w
           b == a \o l
<1>1. a \in Seq(Nat) /\ Len(a) = Len(o) + Len(w)
  BY ConcatProperties
<1>2. b \in Seq(Nat) /\ Len(b) = Len(a) + Len(l)
  <2> HIDE DEF a
  <2> QED BY <1>1, ConcatProperties
<1>3. b \o p = Count(n)
  BY DEF InOrder
<1>4. n \in Nat /\ Len(p) \in Nat /\ Len(o) \in Nat /\ Len(w) \in Nat /\ Len(l) \in Nat
  OBVIOUS
<1>5. Append(p, n + 1) \in Seq(Nat) /\ InOrder(o, w, l, Append(p, n + 1))
  <2>1. Append(p, n + 1) \in Seq(Nat) /\ Len(Append(p, n + 1)) = Len(p) + 1
    BY <1>4, AppendProperties
  <2>2. b \o Append(p, n + 1) = Append(b \o p, n + 1)
    <3>1. b \in Seq(Nat) /\ n + 1 \in Nat
      BY <1>2, <1>4
    <3> HIDE DEF b, n
    <3> QED BY <3>1, ConcatAppend
  <2>3. Append(Count(n), n + 1) = Count(n + 1)
    <3> HIDE DEF n
    <3> QED BY <1>4, CountIs
  <2>4. Len(o) + Len(w) + Len(l) + Len(Append(p, n + 1)) = n + 1
    BY <1>4, <2>1
  <2> QED BY <1>3, <2>1, <2>2, <2>3, <2>4 DEF InOrder
<1>6. ASSUME p # <<>>
      PROVE  /\ Append(l, Head(p)) \in Seq(Nat) /\ Tail(p) \in Seq(Nat)
             /\ InOrder(o, w, Append(l, Head(p)), Tail(p))
  <2>1. Head(p) \in Nat /\ Tail(p) \in Seq(Nat) /\ Len(Tail(p)) = Len(p) - 1
    BY <1>6, HeadTailProperties
  <2>2. Append(l, Head(p)) \in Seq(Nat) /\ Len(Append(l, Head(p))) = Len(l) + 1
    BY <2>1, AppendProperties
  <2>3. a \o Append(l, Head(p)) = Append(b, Head(p))
    <3> HIDE DEF a, b
    <3>1. ASSUME NEW x \in Nat PROVE a \o Append(l, x) = Append(a \o l, x)
      <4>1. a \in Seq(Nat)
        BY <1>1
      <4> QED BY <4>1, ConcatAppend
    <3> QED BY <2>1, <3>1 DEF b
  <2>4. Append(b, Head(p)) \o Tail(p) = b \o p
    <3> HIDE DEF b
    <3> QED BY <1>2, <1>6, ConcatMoves
  <2>5. Len(o) + Len(w) + Len(Append(l, Head(p))) + Len(Tail(p)) = n
    BY <1>4, <2>1, <2>2
  <2> QED BY <1>3, <2>1, <2>2, <2>3, <2>4, <2>5 DEF InOrder
<1>7. w = <<>> => InOrder(o, l, <<>>, p)
  <2> SUFFICES ASSUME w = <<>> PROVE InOrder(o, l, <<>>, p)
    OBVIOUS
  <2>1. a = o /\ (o \o l) \o <<>> = o \o l
    <3>1. o \o l \in Seq(Nat)
      BY ConcatProperties
    <3> QED BY <3>1, ConcatEmptySeq
  <2>2. Len(o) + Len(l) + Len(<<>>) + Len(p) = n
    BY <1>4
  <2> QED BY <1>3, <2>1, <2>2 DEF InOrder
<1>8. InOrder(a, <<>>, l, p)
  <2>1. a \o <<>> = a
    <3> HIDE DEF a
    <3> QED BY <1>1, ConcatEmptySeq
  <2>2. Len(a) + Len(<<>>) + Len(l) + Len(p) = n
    BY <1>1, <1>4
  <2> QED BY <1>3, <2>1, <2>2 DEF InOrder
<1> QED BY <1>1, <1>5, <1>6, <1>7, <1>8
=============================================================================
