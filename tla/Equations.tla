----------------------------- MODULE Equations -----------------------------
(***************************************************************************)
(* What runtime/c/plant_math.c builds from derivatives and integrals: the  *)
(* solvers and verifiers of differential equations, divergence, curl and   *)
(* Laplacian, and the table of Laplace transforms. dy/dx is the symbol     *)
(* PRIME_y of ode_preprocess.                                              *)
(***************************************************************************)
EXTENDS Calculus

Prime == Sym("PRIME_y")
IsPrime(e) == e = Prime

\* The right-hand side f of dy/dx = f that plant_math_solve_ode_linear_str
\* reads from an equation, or Null.
LinearSide(ode) ==
    LET other == IF IsPrime(ode.l) THEN ode.r ELSE ode.l
    IN CASE ode.k \notin {"+", "-"} \/ (~IsPrime(ode.l) /\ ~IsPrime(ode.r)) -> Null
         [] ode.k = "-" -> other
         [] other.k = "neg" -> other.l
         [] other.k = "*" /\ IsNum(other.l) -> Times(Num(QNeg(other.l.n)), other.r)
         [] other.k = "*" /\ IsNum(other.r) -> Times(other.l, Num(QNeg(other.r.n)))
         [] other.k = "*" -> Null
         [] IsNum(other) -> Num(QNeg(other.n))
         [] OTHER -> Neg(other)

SolutionFor(side) == IF side = Null THEN Null ELSE Antiderivative(side, "x")
SolveLinear(ode) == SolutionFor(LinearSide(ode))

\* plant_math_solve_ode_separable_str: both sides of the implicit solution, or
\* the fallback y = integral of the whole side.
SeparableSide(ode) ==
    LET minus(a) == IF a.k = "neg" THEN a.l
                    ELSE IF a.k = "*" /\ Is(a.l, Q(-1)) THEN a.r ELSE Null
    IN CASE ode.k = "-" /\ IsPrime(ode.l) -> ode.r
         [] ode.k = "-" /\ IsPrime(ode.r) -> ode.l
         [] ode.k = "+" /\ IsPrime(ode.l) -> minus(ode.r)
         [] ode.k = "+" /\ IsPrime(ode.r) -> minus(ode.l)
         [] OTHER -> Null

Only(e, v, w) == Mentions(e, v) /\ ~Mentions(e, w)
SplitSide(side) ==
    CASE side.k = "*" /\ Only(side.l, "x", "y") /\ Only(side.r, "y", "x") -> <<side.l, side.r>>
      [] side.k = "*" /\ Only(side.r, "x", "y") /\ Only(side.l, "y", "x") -> <<side.r, side.l>>
      [] OTHER -> <<>>

Implicit(split) ==
    [y |-> Antiderivative(Over(IntNum(1), split[2]), "y"), x |-> Antiderivative(split[1], "x"), f |-> split]

\* The implicit solution when both of its sides were found.
SidesOr(solution, side) ==
    IF solution.y # Null /\ solution.x # Null THEN solution
    ELSE [y |-> Sym("y"), x |-> Antiderivative(side, "x"), f |-> <<>>]

SeparatedAs(split, side) ==
    SidesOr(IF split = <<>> THEN [y |-> Null, x |-> Null, f |-> <<>>] ELSE Implicit(split), side)
SolveSeparated(side) == SeparatedAs(SplitSide(side), side)
SolveSeparable(ode) == SolveSeparated(SeparableSide(ode))

\* plant_math_verify_ode_str: the equation with the solution in place of y,
\* at six points.
TestPoints == <<<<1, 2>>, One, Q(2), Q(-1), <<1, 10>>, Q(3)>>

VerifiesOde(ode, solution) ==
    \A n \in DOMAIN TestPoints :
        LET at(e) == Subst(e, "x", Num(TestPoints[n]))
            step1 == Simplify(Subst(ode, "y", at(solution)))
            step2 == Simplify(Subst(step1, "PRIME_y", at(Derivative(solution, "x"))))
        IN EvalAt(step2, "x", TestPoints[n]) = Zero

\* plant_math_verify_pde_str: the residual of the wave, heat or Laplace
\* equation at eight pairs of points.
PdePoints == TestPoints \o <<<<-7, 10>>, <<3, 2>>>>

Residual(pde, u, v1, v2) ==
    Bin(IF pde = "laplace" THEN "+" ELSE "-",
        IF pde = "heat" THEN Derivative(u, v1) ELSE Partial2(u, v1), Partial2(u, v2))

VerifiesPde(pde, u, v1, v2) ==
    \A n \in 1 .. 8 :
        LET step == Simplify(Subst(Simplify(Residual(pde, u, v1, v2)), v1, Num(PdePoints[n])))
        IN EvalAt(step, v2, PdePoints[((n + 2) % 8) + 1]) = Zero

----------------------------------------------------------------------------
(* Vector calculus over x, y and z *)

Axes == <<"x", "y", "z">>
D(e, i) == Simplify(Derivative(e, Axes[i]))

SumOfParts(d) == Simplify(Plus(Simplify(Plus(d[1], d[2])), d[3]))
Divergence(f) == SumOfParts([i \in 1 .. 3 |-> D(f[i], i)])

\* cx = dFz/dy - dFy/dz and so on, around the axes.
Curl(f) ==
    LET next(i) == (i % 3) + 1
        last(i) == next(next(i))
    IN [i \in 1 .. 3 |-> Simplify(Minus(D(f[last(i)], next(i)), D(f[next(i)], last(i))))]

\* The sum of the second derivatives, a number when each of them is one.
NumberOr(value, part) ==
    IF \A i \in 1 .. 3 : ~IsNaN(value[i]) THEN Num(QSum(value, 1 .. 3))
    ELSE Simplify(Plus(Plus(part[1], part[2]), part[3]))
Summing(part) == NumberOr([i \in 1 .. 3 |-> Eval(part[i], <<>>)], part)
Laplacian(e) == Summing([i \in 1 .. 3 |-> Simplify(Partial2(e, Axes[i]))])

----------------------------------------------------------------------------
(* Laplace transforms: texts in, texts out, <<>> when the table has none *)

N(n) == Number(Q(n))
X(c) == <<T(c)>>

\* _strip_parens drops opening parentheses only.
RECURSIVE Stripped(_)
Stripped(ts) ==
    IF ts # <<>> /\ Head(ts) = T("(") /\ ts[Len(ts)] = T(")") THEN Stripped(Tail(ts)) ELSE ts

\* The coefficient in "a*t", for SIN and COS also in "at".
CoefficientOf(f, inner) ==
    LET stars == {i \in DOMAIN inner : inner[i] = T("*")}
        first == CHOOSE i \in stars : \A j \in stars : i <= j
    IN IF stars \ {1} # {} THEN SubSeq(inner, 1, first - 1)
       ELSE IF Len(inner) > 1 /\ f \in {T("SIN"), T("COS")} THEN SubSeq(inner, 1, Len(inner) - 1) ELSE <<N(1)>>

SquaredSum(op, a) == \* (s^2 + a^2)
    X("(") \o X("s") \o X("^") \o <<N(2)>> \o X(op) \o
        (IF a = <<N(1)>> THEN a ELSE a \o X("^") \o <<N(2)>>) \o X(")")

Laplace(text) ==
    LET s == Stripped(text)
        call == Len(s) > 3 /\ s[2] = T("(") /\ s[Len(s)] = T(")")
        a == CoefficientOf(s[1], SubSeq(s, 3, Len(s) - 1))
        of(f) == call /\ s[1] = T(f)
    IN CASE s = <<N(1)>> -> <<N(1)>> \o X("/") \o X("s")
         [] s = X("t") -> <<N(1)>> \o X("/") \o X("s") \o X("^") \o <<N(2)>>
         [] Len(s) = 3 /\ s[1] = T("t") /\ s[2] = T("^") /\ s[3][1] = NumberRank /\ s[3][3] = 1 /\ s[3][2] > 0 ->
                <<Number(Factorial(s[3][2]))>> \o X("/") \o X("s") \o X("^") \o <<N(s[3][2] + 1)>>
         [] of("EXP") -> <<N(1)>> \o X("/") \o X("(") \o X("s") \o X("-") \o a \o X(")")
         [] of("SIN") -> a \o X("/") \o SquaredSum("+", a)
         [] of("COS") -> X("s") \o X("/") \o SquaredSum("+", a)
         [] of("SINH") -> a \o X("/") \o SquaredSum("-", a)
         [] of("COSH") -> X("s") \o X("/") \o SquaredSum("-", a)
         [] OTHER -> <<>>

\* plant_math_inverselaplace_str. What starts with "1/(" is taken for
\* 1/(s-a); the branch of s/(s^2+a^2) is never reached.
InverseLaplace(text) ==
    LET s == Stripped(text)
        n == Len(s)
        starts(p) == n >= Len(p) /\ SubSeq(s, 1, Len(p)) = p
        first(c) == {i \in DOMAIN s : s[i] = T(c) /\ \A j \in 1 .. i - 1 : s[j] # T(c)}
        after(c, stop) == SubSeq(s, (CHOOSE i \in first(c) : TRUE) + 1, stop)
        timesT(f, a) == X(f) \o X("(") \o a \o X("*") \o X("t") \o X(")")
        onS == <<N(1)>> \o X("/") \o X("s")
        sumOf == after("+", n - 1)
        a0 == IF Len(sumOf) > 2 THEN SubSeq(sumOf, 1, Len(sumOf) - 2) ELSE sumOf
    IN CASE s = onS -> <<N(1)>>
         [] s = onS \o X("^") \o <<N(2)>> -> X("t")
         [] starts(onS \o X("^")) /\ n = 5 /\ s[5][2] > 1 -> X("t") \o X("^") \o <<N(s[5][2] - 1)>>
         [] starts(<<N(1)>> \o X("/") \o X("(")) /\ s[n] = T(")") ->
                IF first("-") = {} \/ after("-", n - 1) = <<N(1)>>
                THEN X("EXP") \o X("(") \o X("t") \o X(")")
                ELSE timesT("EXP", after("-", n - 1))
         [] first("+") # {} /\ \E i \in first("/") : s[i + 1] = T("(") /\ SubSeq(s, 1, i - 1) = a0 -> timesT("SIN", a0)
         [] OTHER -> <<>>
=============================================================================
