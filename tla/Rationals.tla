----------------------------- MODULE Rationals -----------------------------
(***************************************************************************)
(* The numbers of the numeric modules: a double is a fraction <<p, q>> in  *)
(* lowest terms with q > 0, or NaN. A result with a part above MaxPart is  *)
(* NaN too, "too large to follow".                                         *)
(*                                                                         *)
(* The elementary functions are stand-ins with the algebra of the real     *)
(* ones, so that the identities of the code can be evaluated exactly: SIN  *)
(* and COS of n are those of n times the angle of the 3-4-5 triangle, EXP  *)
(* of n is 2^n and LOG its inverse. Where the stand-in has no rational     *)
(* value the result is NaN.                                                *)
(***************************************************************************)
EXTENDS Integers

MaxPart == 30000
NaN == <<0, 0>>
Zero == <<0, 1>>
One == <<1, 1>>
Q(n) == <<n, 1>>

Magnitude(n) == IF n < 0 THEN -n ELSE n

Gcd(a, b) ==
    LET g[m \in Nat, n \in Nat] == IF n = 0 THEN m ELSE g[n, m % n] IN g[a, b]

IsNaN(a) == a[2] = 0

Bounded(n, d) == IF Magnitude(n) > MaxPart \/ d > MaxPart THEN NaN ELSE <<n, d>>
Lowest(p, q, g) == Bounded((IF q < 0 THEN -p ELSE p) \div g, Magnitude(q) \div g)

\* The fraction p / q in lowest terms.
Frac(p, q) ==
    IF q = 0 THEN NaN
    ELSE IF p = 0 THEN Zero
    ELSE Lowest(p, q, IF q = 1 THEN 1 ELSE Gcd(Magnitude(p), Magnitude(q)))

QNeg(a) == <<-a[1], a[2]>>
QMul(a, b) == Frac(a[1] * b[1], a[2] * b[2])
QAdd(a, b) == Frac((a[1] * b[2]) + (b[1] * a[2]), a[2] * b[2])
QSub(a, b) == QAdd(a, QNeg(b))
QDiv(a, b) == IF IsNaN(b) THEN NaN ELSE Frac(a[1] * b[2], a[2] * b[1])
QLess(a, b) == a[1] * b[2] < b[1] * a[2]
QAbs(a) == <<Magnitude(a[1]), a[2]>>

QSum(f, S) ==
    LET over[T \in SUBSET S] ==
            IF T = {} THEN Zero
            ELSE LET i == CHOOSE i \in T : TRUE IN QAdd(f[i], over[T \ {i}])
    IN over[S]

MaxPower == 8
IsInt(a) == a[2] = 1

\* Square root of a perfect square.
Root(a) ==
    LET root(n) == CHOOSE r \in 0 .. n : r * r = n
        square(n) == n <= 400 /\ \E r \in 0 .. 20 : r * r = n
    IN IF IsNaN(a) \/ a[1] < 0 \/ ~square(a[1]) \/ ~square(a[2]) THEN NaN
       ELSE <<root(a[1]), root(a[2])>>

\* pow for an integer exponent, or a half.
NthPower(a, n) ==
    LET up[m \in 0 .. MaxPower] == IF m = 0 THEN One ELSE QMul(a, up[m - 1]) IN up[n]

Inverted(negative, a) == IF negative THEN QDiv(One, a) ELSE a

QPow(a, b) ==
    IF IsNaN(b) THEN NaN
    ELSE IF b = <<1, 2>> THEN Root(a)
    ELSE IF ~IsInt(b) \/ Magnitude(b[1]) > MaxPower THEN NaN
    ELSE Inverted(b[1] < 0, NthPower(a, Magnitude(b[1])))

\* 5^n times <<cos, sin>> of n times the angle, of which they are 4/5 and 3/5.
Spiral(n) ==
    LET turn[m \in 0 .. MaxPower] ==
            IF m = 0 THEN <<1, 0>>
            ELSE LET t == turn[m - 1] IN <<(4 * t[1]) - (3 * t[2]), (3 * t[1]) + (4 * t[2])>>
    IN turn[n]

Turned(n) ==
    [c \in {"COS", "SIN"} |->
        Frac(IF c = "COS" THEN Spiral(Magnitude(n))[1] ELSE IF n < 0 THEN -Spiral(-n)[2] ELSE Spiral(n)[2],
             5 ^ Magnitude(n))]

TrigFn(f, turned) == IF f = "TAN" THEN QDiv(turned["SIN"], turned["COS"]) ELSE turned[f]

IntFn(f, n) == IF f = "EXP" THEN QPow(Q(2), Q(n)) ELSE TrigFn(f, Turned(n))

\* The integer power of two that is a.
Exponents(a) == {n \in -MaxPower .. MaxPower : QPow(Q(2), Q(n)) = a}

IntOf(S) == IF S = {} THEN NaN ELSE Q(CHOOSE n \in S : TRUE)

\* A function of the table MATH_FUNCS at a.
QFn(f, a) ==
    CASE IsNaN(a) -> NaN
      [] f \in {"SIN", "COS", "TAN", "EXP"} ->
            IF IsInt(a) /\ Magnitude(a[1]) <= MaxPower THEN IntFn(f, a[1]) ELSE NaN
      [] f = "LOG" -> IntOf(Exponents(a))
      [] f = "SQRT" -> Root(a)
      [] f = "ABS" -> QAbs(a)
      [] OTHER -> NaN
=============================================================================
