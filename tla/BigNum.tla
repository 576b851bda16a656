-------------------------------- MODULE BigNum --------------------------------
(***************************************************************************)
(* The big integers of math/big_num.hpp: a sign, the digits (the lowest    *)
(* one first) and the base.  A digit, and every product or sum the code    *)
(* computes in 32 bits, is below Word and wraps there.                     *)
(***************************************************************************)
EXTENDS Integers, Sequences, SequencesExt, Functions

CONSTANT Word   \* 2^32 in the code

Num(s, c, b) == [symbol |-> s, content |-> c, base |-> b]

RECURSIVE Digits(_, _), Trim(_), Rebased(_, _, _), PowFrom(_, _, _), Guess(_, _, _, _, _, _)

Digits(n, base) == IF n < base THEN <<n>> ELSE <<n % base>> \o Digits(n \div base, base)
Zeros(n) == [i \in 1..n |-> 0]

\* BigNum(num, base, order): num * base^order
FromInt(num, base, order) ==
  LET n == IF num < 0 THEN -num ELSE num
  IN Num(num >= 0, (IF num # 0 THEN Zeros(order) ELSE <<>>) \o Digits(n, base), base)

\* AssignU64 starts from a number that has the digit 0 already.
AssignU64(num, symbol, base, order) ==
  Num(symbol, (IF num # 0 THEN Zeros(order) ELSE <<0>>) \o Digits(num, base), base)

\* Zeros above the highest digit go, but one digit stays.
Trim(c) == IF Len(c) > 1 /\ Last(c) = 0 THEN Trim(Front(c)) ELSE c

Empty(x) == x.content = <<0>>

\* The digits in the new base: each is the remainder of a division from the top.
Rebased(c, b, base) ==
  IF c = <<>> THEN <<>>
  ELSE LET r == FoldLeft(LAMBDA acc, d : [quot |-> <<(acc.rem * b + d) \div base>> \o acc.quot,
                                          rem |-> (acc.rem * b + d) % base],
                         [quot |-> <<>>, rem |-> 0], Reverse(c))
           q == Trim(r.quot)
       IN <<r.rem>> \o Rebased(IF q = <<0>> THEN <<>> ELSE q, b, base)

ReBase(x, base) ==
  IF base < 2 \/ base = x.base THEN x ELSE [x EXCEPT !.base = base, !.content = Trim(Rebased(x.content, x.base, base))]
ChangeBase(x, base) == ReBase(x, base)

\* The comparison of two digit strings of equal length, from the top.
TopDifference(c, d) == {i \in DOMAIN c : c[i] # d[i] /\ \A j \in (i + 1)..Len(c) : c[j] = d[j]}
Above(c, d) ==
  IF Len(c) # Len(d) THEN Len(c) > Len(d) ELSE \E i \in TopDifference(c, d) : c[i] > d[i]

Equal(x, y) ==
  \/ Empty(x) /\ Empty(y)
  \/ ~Empty(x) /\ ~Empty(y) /\ x.symbol = y.symbol /\ x.content = ChangeBase(y, x.base).content

CompareSameBase(x, r) ==
  IF Empty(x) /\ Empty(r) THEN 0
  ELSE IF x.symbol # r.symbol THEN IF x.symbol THEN 1 ELSE -1
  ELSE IF x.content = r.content THEN 0
  ELSE IF x.symbol = Above(x.content, r.content) THEN 1 ELSE -1

Compare(x, y) == CompareSameBase(x, ChangeBase(y, x.base))

-----------------------------------------------------------------------------
\* Mutant of Borrowing: a borrow from a zero digit is forgotten.
BorrowingOnce(hi, lo, base) ==
  FoldLeft(LAMBDA acc, i :
      LET l == IF i <= Len(lo) THEN lo[i] ELSE 0
      IN IF hi[i] >= acc.flag + l THEN [c |-> Append(acc.c, hi[i] - acc.flag - l), flag |-> 0]
         ELSE IF hi[i] = 0 THEN [c |-> Append(acc.c, base - l - acc.flag), flag |-> 0]
         ELSE [c |-> Append(acc.c, base - l + (hi[i] - acc.flag)), flag |-> 1],
    [c |-> <<>>, flag |-> 0], [i \in 1..Len(hi) |-> i]).c

\* |hi| - |lo| digit by digit with a borrow, for |hi| >= |lo|.
Borrowing(hi, lo, base) ==
  FoldLeft(LAMBDA acc, i :
      LET l == IF i <= Len(lo) THEN lo[i] ELSE 0
      IN IF acc.flag = 1 /\ hi[i] = 0 THEN [c |-> Append(acc.c, base - 1 - l), flag |-> 1]
         ELSE IF hi[i] - acc.flag < l THEN [c |-> Append(acc.c, base - l + (hi[i] - acc.flag)), flag |-> 1]
         ELSE [c |-> Append(acc.c, hi[i] - acc.flag - l), flag |-> 0],
    [c |-> <<>>, flag |-> 0], [i \in 1..Len(hi) |-> i]).c

\* |long| + |short|: the sum of two digits and a carry wraps at Word, and a
\* sum that is smaller than the first digit has wrapped.
Carrying(long, short, base) ==
  LET r == FoldLeft(LAMBDA acc, i :
               LET s == (acc.carry + long[i] + (IF i <= Len(short) THEN short[i] ELSE 0)) % Word
                   over == IF i <= Len(short) THEN s >= base \/ s < long[i] ELSE s = base
               IN [c |-> Append(acc.c, IF over THEN (s + Word - base) % Word ELSE s), carry |-> IF over THEN 1 ELSE 0],
             [c |-> <<>>, carry |-> 0], [i \in 1..Len(long) |-> i])
  IN Append(r.c, r.carry)

Difference(p, q) == Num(p.symbol, Trim(Borrowing(p.content, q.content, p.base)), p.base)
Sum(p, q) == Num(p.symbol, Trim(Carrying(p.content, q.content, p.base)), p.base)

\* Opposite signs: the larger magnitude gives the sign, the first one when equal.
PlusSameBase(x, r) ==
  IF x.symbol = r.symbol THEN IF Len(x.content) < Len(r.content) THEN Sum(r, x) ELSE Sum(x, r)
  ELSE IF Above(r.content, x.content) THEN Difference(r, x) ELSE Difference(x, r)

Plus(x, y) == PlusSameBase(x, ChangeBase(y, x.base))

Neg(x) == [x EXCEPT !.symbol = ~@]
Abs(x) == [x EXCEPT !.symbol = TRUE]
Minus(x, y) == Plus(x, Neg(y))

\* re plus the product p of two digits at the given order.
AddProduct(re, p, order) == IF p = 0 THEN re ELSE Plus(re, AssignU64(p, TRUE, re.base, order))

\* The products of all pairs of digits are added up one by one.
TimesSameBase(x, r) ==
  [FoldLeft(LAMBDA re, ij : AddProduct(re, x.content[ij[1]] * r.content[ij[2]], ij[1] + ij[2] - 2),
            FromInt(0, x.base, 0),
            [k \in 1..(Len(x.content) * Len(r.content)) |->
               <<1 + (k - 1) \div Len(r.content), 1 + ((k - 1) % Len(r.content))>>])
   EXCEPT !.symbol = (x.symbol = r.symbol), !.content = Trim(@)]

Times(x, y) == TimesSameBase(x, ChangeBase(y, x.base))

ShiftLeft(x, n) == IF Empty(x) THEN x ELSE [x EXCEPT !.content = Zeros(n) \o @]
ShiftRight(x, n) ==
  [x EXCEPT !.content = IF n >= Len(@) THEN <<0>> ELSE SubSeq(@, n + 1, Len(@))]

\* Bisection between min_k and max_k for the digit at order ii; when the
\* bounds miss the digit the loop ends without one, and when min_k wraps to 0
\* it starts again and does not end.
Guess(rem, divisor, shifted, ii, min_k, max_k) ==
  IF min_k > max_k THEN [k |-> 0, rem |-> rem, ends |-> TRUE]
  ELSE LET k == min_k + (max_k - min_k) \div 2
           next(cur) == IF ~cur.symbol THEN Guess(rem, divisor, shifted, ii, min_k, k - 1)
                        ELSE IF Compare(cur, shifted) < 0 THEN [k |-> k, rem |-> cur, ends |-> TRUE]
                        ELSE IF k + 1 = Word THEN [k |-> k, rem |-> cur, ends |-> FALSE]
                        ELSE Guess(rem, divisor, shifted, ii, k + 1, max_k)
       IN next(Minus(rem, Times(FromInt(k, rem.base, ii), divisor)))

\* The two highest digits of the remainder, before they wrap.
Joined(c, at, base) == IF at < Len(c) THEN c[at] + c[at + 1] * base ELSE IF at = Len(c) THEN c[at] ELSE 0

MaxK(cur, head) == (cur + 1) \div head

\* The digits are joined, and the upper bound is cast, in 32 bits.
GuessAt(rem, divisor, ii, cur) ==
  Guess(rem, divisor, ShiftLeft(divisor, ii), ii,
        cur \div (Last(divisor.content) + 1), MaxK(cur, Last(divisor.content)) % Word)

\* fits: nothing has wrapped on the way to this digit.
WithDigit(acc, g, cur, head) ==
  [quot |-> <<g.k>> \o acc.quot, rem |-> g.rem, ends |-> g.ends,
   fits |-> acc.fits /\ cur < Word /\ MaxK(cur, head) < Word]

\* The digit of the quotient at order ii and the remainder it leaves.
QuotientStep(divisor, acc, ii) ==
  LET cur == Joined(acc.rem.content, ii + Len(divisor.content), acc.rem.base)
  IN IF acc.ends THEN WithDigit(acc, GuessAt(acc.rem, divisor, ii, cur % Word), cur, Last(divisor.content)) ELSE acc

LongDivision(x, divisor, n) ==
  FoldLeft(LAMBDA acc, ii : QuotientStep(divisor, acc, ii),
           [quot |-> <<>>, rem |-> Abs(x), ends |-> TRUE, fits |-> TRUE], [i \in 1..n |-> n - i])

\* Quotient and remainder; the remainder has the sign of the dividend.
Signed(x, y, r) ==
  [r EXCEPT !.quot = Num(x.symbol = y.symbol, Trim(@), x.base), !.rem = [@ EXCEPT !.symbol = x.symbol]]

DivSameBase(x, y) ==
  IF Len(x.content) < Len(y.content) THEN [quot |-> FromInt(0, x.base, 0), rem |-> x, ends |-> TRUE, fits |-> TRUE]
  ELSE Signed(x, y, LongDivision(x, Abs(y), Len(x.content) - Len(y.content) + 1))

Div(x, y) == DivSameBase(x, ChangeBase(y, x.base))

PowFrom(re, x, n) == IF n = 0 THEN re ELSE PowFrom(IF n % 2 = 1 THEN Times(re, x) ELSE re, Times(x, x), n \div 2)
Pow(x, n) == PowFrom(FromInt(1, x.base, 0), x, n)

-----------------------------------------------------------------------------
Magnitude(x) == SumFunction([i \in DOMAIN x.content |-> x.content[i] * x.base^(i - 1)])
ValueOf(x) == IF x.symbol THEN Magnitude(x) ELSE -Magnitude(x)

Proper(x) == (\A i \in DOMAIN x.content : x.content[i] \in 0..(x.base - 1)) /\ x.content = Trim(x.content) /\ x.content # <<>>

Sgn(n) == IF n > 0 THEN 1 ELSE IF n < 0 THEN -1 ELSE 0

Ok(z, b, v) == Proper(z) /\ z.base = b /\ ValueOf(z) = v

\* What the comment of Div promises: m is q * n + r and r has the sign of m.
Balanced(d, m, n) ==
  /\ m = ValueOf(d.quot) * n + ValueOf(d.rem)
  /\ ValueOf(d.rem) # 0 => Sgn(ValueOf(d.rem)) = Sgn(m)

\* The quotient is the quotient: the remainder is below the divisor.
Divides(d, n) ==
  Proper(d.quot) /\ Proper(d.rem) /\ Magnitude(d.rem) < (IF n < 0 THEN -n ELSE n)

\* A division that ends is balanced in every base.  While nothing wraps it
\* ends with the quotient, and nothing wraps in a base whose square fits into
\* a word; in a larger one the division may stop short of the quotient, or
\* never end.
DivAgrees(d, m, n, b) ==
  /\ d.ends => Balanced(d, m, n)
  /\ d.fits => d.ends /\ Divides(d, n)
  /\ b * b <= Word => d.fits

NumsAgree(x, y, m, n, b) ==
  /\ Ok(x, b, m) /\ Ok(ChangeBase(y, b), b, n)
  /\ Ok(Plus(x, y), b, m + n) /\ Ok(Minus(x, y), b, m - n) /\ Ok(Times(x, y), b, m * n)
  /\ Equal(x, y) = (m = n) /\ Compare(x, y) = Sgn(m - n)
  /\ Ok(ShiftLeft(x, 2), b, m * b * b) /\ ValueOf(ShiftRight(Abs(x), 1)) = Magnitude(x) \div b
  /\ n \in 1..2 => Ok(Pow(x, n), b, m^n) /\ Ok(Pow(x, 0), b, 1)
  /\ n # 0 => DivAgrees(Div(x, y), m, n, b)

\* The operations on numbers m and n in bases b and c are those on the
\* integers, and leave digits below the base without leading zeros; the
\* division as far as DivAgrees says.
BigNumsAgree(m, n, b, c) == NumsAgree(FromInt(m, b, 0), FromInt(n, c, 0), m, n, b)
=============================================================================
