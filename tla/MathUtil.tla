------------------------------- MODULE MathUtil -------------------------------
(***************************************************************************)
(* The integer functions of math/math_util.hpp on unsigned numbers of      *)
(* Bits bits (64 in the code; a difference wraps), and the odometer of     *)
(* math/loop_tool.hpp.                                                     *)
(***************************************************************************)
EXTENDS Integers, Sequences, FiniteSets, SequencesExt, Functions, Bitwise

CONSTANT Bits   \* the width of an unsigned number

Modulus == 2^Bits

RECURSIVE CountOne(_), FirstOneFrom(_, _), Gcd(_, _), Factors(_, _), Mul(_, _), PowFrom(_, _, _)

\* Clearing the lowest one as often as there are ones.
CountOne(n) == IF n = 0 THEN 0 ELSE 1 + CountOne(n & (n - 1))

\* ~n has a one where n has a zero.
CountZero(n) == CountOne(Modulus - 1 - n)

\* The shift count wraps at the width, as on x86 (C++ leaves it open): with no
\* one from pos on, the search comes around to the lower ones.
FirstOneFrom(val, pos) == IF (val \div 2^(pos % Bits)) % 2 = 1 THEN pos ELSE FirstOneFrom(val, pos + 1)

\* Bits stands for "not found".
FindFirstOne(val, pos) == IF val = 0 \/ pos >= Bits THEN Bits ELSE FirstOneFrom(val, pos)

IsPrime(num) ==
  /\ num >= 2
  /\ \/ num \in {2, 3}
     \/ /\ num % 6 \in {1, 5}
        /\ \A i \in {k \in 5..num : k % 6 = 5 /\ k * k <= num} : num % i # 0 /\ num % (i + 2) # 0

\* The binary algorithm: only common factors of two are put back.
GcdStep(a, b) ==
  IF a % 2 = 1
  THEN IF b % 2 = 1 THEN Gcd(b, a - b) ELSE Gcd(a, b \div 2)
  ELSE IF b % 2 = 1 THEN Gcd(a \div 2, b) ELSE 2 * Gcd(a \div 2, b \div 2)

Gcd(num1, num2) ==
  LET a == IF num1 < num2 THEN num2 ELSE num1
      b == IF num1 < num2 THEN num1 ELSE num2
  IN IF a = 0 THEN 1 ELSE IF b = 0 THEN a ELSE GcdStep(a, b)

Lcm(num1, num2) == (num1 \div Gcd(num1, num2)) * num2

Factors(num, ii) ==
  IF num <= 1 THEN <<>>
  ELSE IF num % ii = 0 THEN <<ii>> \o Factors(num \div ii, ii) ELSE Factors(num, ii + 1)
Factoring2Vec(num) == Factors(num, 2)
Factoring2Map(num) ==
  LET v == Factoring2Vec(num) IN [p \in Range(v) |-> Cardinality({i \in DOMAIN v : v[i] = p})]

\* n * (n - 1) * ... * m
Mul(n, m) == IF n < m \/ m = 0 THEN 0 ELSE IF n - 1 < m THEN n ELSE n * Mul(n - 1, m)

Arn(n, m) == Mul(n, (n + Modulus - m + 1) % Modulus)

Valid(n, m, mr) == m <= n /\ m # 0 /\ mr <= n /\ mr # 0

ArnRec(n, m, a, mr) ==
  IF ~Valid(n, m, mr) THEN 0
  ELSE IF m < mr THEN a \div Mul(n - m, n - mr + 1)
  ELSE IF m > mr THEN a * Mul(n - mr, n - m + 1)
  ELSE a

\* The larger of m and n - m when m is below the half.
Side(n, m) == IF n > 2 * m THEN n - m ELSE m

Crn(n, m) ==
  IF n < m \/ m = 0 THEN 0
  ELSE LET k == Side(n, m) IN IF n = k THEN 1 ELSE Mul(n, k + 1) \div Mul(n - k, 1)

CrnRec(n, m, c, mr) ==
  IF ~Valid(n, m, mr) THEN 0
  ELSE LET k == Side(n, m)
       IN IF k < mr THEN (c * Mul(mr, k + 1)) \div Mul(n - k, n - mr + 1)
          ELSE IF k > mr THEN (c * Mul(n - mr, n - k + 1)) \div Mul(k, mr + 1)
          ELSE c

PowFrom(re, value, n) ==
  IF n = 0 THEN re ELSE PowFrom(IF n % 2 = 1 THEN re * value ELSE re, value * value, n \div 2)
Pow(value, n) == IF value = 0 THEN 0 ELSE PowFrom(1, value, n)

-----------------------------------------------------------------------------
\* LoopTool: the digits count up or down from the first, which wraps into the next.
Plus(up, content) ==
  LET full == {i \in DOMAIN up : \A j \in 1..i : content[j] = up[j] - 1}
  IN [i \in DOMAIN up |-> IF i \in full THEN 0
                          ELSE IF \A j \in 1..(i - 1) : j \in full THEN content[i] + 1 ELSE content[i]]

Minus(up, content) ==
  LET zero == {i \in DOMAIN up : \A j \in 1..i : content[j] = 0}
  IN [i \in DOMAIN up |-> IF i \in zero THEN up[i] - 1
                          ELSE IF \A j \in 1..(i - 1) : j \in zero THEN content[i] - 1 ELSE content[i]]

LoopBool(content) == \E i \in DOMAIN content : content[i] # 0

-----------------------------------------------------------------------------
Divides(d, n) == n % d = 0
Product(f) == FoldFunction(LAMBDA x, y : x * y, 1, f)
Fact(n) == Product([i \in 1..n |-> i])
MaxOf(S) == CHOOSE x \in S : \A y \in S : y <= x

\* The first one of n from m on; at least Bits when there is none.
FirstOneAgrees(n, m) ==
  LET k == FindFirstOne(n, m)
      ones == {j \in m..(Bits - 1) : (n \div 2^j) % 2 = 1}
  IN IF ones = {} THEN k >= Bits /\ (n = 0 => k = Bits) ELSE k \in ones /\ \A j \in ones : k <= j

\* The functions are what their names say, for numbers up to n and m.
NumbersAgree(n, m) ==
  /\ CountOne(n) = Cardinality({k \in 0..(Bits - 1) : (n \div 2^k) % 2 = 1})
  /\ CountOne(n) + CountZero(n) = Bits
  /\ FirstOneAgrees(n, m) /\ FindFirstOne(n, Bits + m) = Bits
  /\ IsPrime(n) = (n >= 2 /\ \A d \in 2..(n - 1) : ~Divides(d, n))
  /\ n + m > 0 => Gcd(n, m) = MaxOf({d \in 1..(n + m) : Divides(d, n) /\ Divides(d, m)})
  /\ n * m > 0 => /\ Divides(n, Lcm(n, m)) /\ Divides(m, Lcm(n, m))
                  /\ \A k \in 1..(Lcm(n, m) - 1) : ~(Divides(n, k) /\ Divides(m, k))
  /\ n > 0 => /\ Product(Factoring2Vec(n)) = n
              /\ \A p \in DOMAIN Factoring2Map(n) : IsPrime(p) /\ Divides(p^(Factoring2Map(n)[p]), n)
  /\ n <= 7 /\ m \in 1..n => Arn(n, m) = Fact(n) \div Fact(n - m) /\ Crn(n, m) = Arn(n, m) \div Fact(m)
  /\ n < m => Arn(n, m) = 0 /\ Crn(n, m) = 0
  /\ n <= 7 => \A k \in 1..n : m \in 1..n => ArnRec(n, m, Arn(n, k), k) = Arn(n, m) /\ CrnRec(n, m, Crn(n, k), k) = Crn(n, m)
  /\ n <= 5 /\ m <= 5 /\ n + m > 0 => Pow(n, m) = n^m

\* Value of the odometer, its first digit counting ones.
Reading(up, content) ==
  SumFunction([i \in DOMAIN up |-> content[i] * Product([j \in 1..(i - 1) |-> up[j]])])

\* ++ and -- walk through all combinations in a cycle that passes zero.
OdometerAgrees(up, content) ==
  LET all == Product(up)
  IN /\ Reading(up, Plus(up, content)) = (Reading(up, content) + 1) % all
     /\ Reading(up, Minus(up, content)) = (Reading(up, content) + all - 1) % all
     /\ LoopBool(content) = (Reading(up, content) # 0)
=============================================================================
