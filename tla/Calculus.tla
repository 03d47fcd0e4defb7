------------------------------ MODULE Calculus ------------------------------
(***************************************************************************)
(* Derivatives, integrals, limits and Taylor series of                     *)
(* runtime/c/plant_math.c, and what the ODE solver and vector calculus     *)
(* build from them. Every input is a parsed tree, which is a simplified    *)
(* one. Null is "not supported".                                           *)
(***************************************************************************)
EXTENDS Simplifier

CONSTANTS
    MaxDerivativeDepth,  \* MAX_DERIVATIVE_DEPTH
    MaxParts,            \* bound: nested integrations by parts; the code has none
    MaxHopital           \* bound: L'Hopital steps; the depth of the code stays zero

IsConstant(e) == IsNum(e)          \* is_pure_constant: no named constants here
Times(a, b) == Bin("*", a, b)
Over(a, b) == Bin("/", a, b)
Power(a, n) == Bin("^", a, IntNum(n))
Plus(a, b) == Bin("+", a, b)
Minus(a, b) == Bin("-", a, b)

\* subst_in_node; substitute_var is the same with a number.
RECURSIVE Subst(_, _, _)
Subst(e, v, by) ==
    CASE IsVar(e, v) -> by
      [] e.k \in {"neg", "fn"} -> [e EXCEPT !.l = Subst(@, v, by)]
      [] e.k \in Ops -> [e EXCEPT !.l = Subst(@, v, by), !.r = Subst(@, v, by)]
      [] OTHER -> e

EvalAt(e, v, point) == Eval(Simplify(Subst(e, v, Num(point))), <<>>)

----------------------------------------------------------------------------
(* Derivatives *)

\* Fault variant: the sign of the derivative of a cosine is lost.
OuterUnsigned(f, arg, d) ==
    CASE f = "SIN" -> Times(Fn("COS", arg), d)
      [] f = "COS" -> Times(Fn("SIN", arg), d)
      [] f = "EXP" -> Times(Fn("EXP", arg), d)
      [] f = "LOG" -> Over(d, arg)
      [] f = "TAN" -> Times(Plus(IntNum(1), Power(Fn("TAN", arg), 2)), d)
      [] f = "SQRT" -> Over(d, Times(IntNum(2), Fn("SQRT", arg)))
      [] f = "ABS" -> Over(Times(d, arg), Fn("ABS", arg))
      [] OTHER -> IntNum(0)

\* The outer derivative of a function at arg, as deriv_func builds it.
Outer(f, arg, d) ==
    CASE f = "SIN" -> Times(Fn("COS", arg), d)
      [] f = "COS" -> Times(Neg(Fn("SIN", arg)), d)
      [] f = "EXP" -> Times(Fn("EXP", arg), d)
      [] f = "LOG" -> Over(d, arg)
      [] f = "TAN" -> Times(Plus(IntNum(1), Power(Fn("TAN", arg), 2)), d)
      [] f = "SQRT" -> Over(d, Times(IntNum(2), Fn("SQRT", arg)))
      [] f = "ABS" -> Over(Times(d, arg), Fn("ABS", arg))
      [] OTHER -> IntNum(0)

\* deriv_node; below the depth limit everything counts as constant.
RECURSIVE Deriv(_, _, _)
Deriv(e, v, depth) ==
    LET dl == Deriv(e.l, v, depth + 1)
        dr == Deriv(e.r, v, depth + 1)
        lowered == Times(e.r, Bin("^", e.l, Minus(e.r, IntNum(1))))
    IN CASE depth > MaxDerivativeDepth -> IntNum(0)
         [] e.k \in {"num", "null"} -> IntNum(0)
         [] e.k = "sym" -> IntNum(IF e.s = v THEN 1 ELSE 0)
         [] e.k = "neg" -> Neg(dl)
         [] e.k = "fn" -> Outer(e.f, e.l, dl)
         [] e.k \in {"+", "-"} -> Bin(e.k, dl, dr)
         [] e.k = "*" -> Plus(Times(dl, e.r), Times(e.l, dr))
         [] e.k = "/" -> Over(Minus(Times(dl, e.r), Times(e.l, dr)), Power(e.r, 2))
         [] e.k = "^" /\ IsConstant(e.r) /\ IsVar(e.l, v) -> lowered
         [] e.k = "^" /\ IsConstant(e.r) ->
                IF Is(dl, Zero) THEN IntNum(0) ELSE Times(lowered, dl)
         [] OTHER -> Times(e, Plus(Times(dr, Fn("LOG", e.l)), Times(e.r, Over(dl, e.l))))

Derivative(e, v) == Simplify(Deriv(e, v, 0))

Partial2(e, v) == Derivative(Derivative(e, v), v)
Gradient(e, vs) == [i \in DOMAIN vs |-> Simplify(Derivative(e, vs[i]))]

----------------------------------------------------------------------------
(* Integrals *)

LogAbs(e) == Fn("LOG", Fn("ABS", e))
MatchesPower(e, v, n) == e.k = "^" /\ IsVar(e.l, v) /\ Is(e.r, Q(n))
XSquarePlusOne(e, v) ==
    e.k = "+" /\ (   (MatchesPower(e.l, v, 2) /\ Is(e.r, One))
                  \/ (Is(e.l, One) /\ MatchesPower(e.r, v, 2)))

\* integral_pow_var. A quotient x / n with n < 0 is taken for x ^ n.
Raised(v, n) ==
    LET up == Plus(n, IntNum(1)) IN Over(Bin("^", Sym(v), up), up)

\* The integrals of a function of the variable itself.
OfFunction(f, v) ==
    LET x == Sym(v)
    IN CASE f = "SIN" -> Neg(Fn("COS", x))
         [] f = "COS" -> Fn("SIN", x)
         [] f = "EXP" -> Fn("EXP", x)
         [] f = "TAN" -> Neg(LogAbs(Fn("COS", x)))
         [] f = "LOG" -> Minus(Times(x, Fn("LOG", x)), x)
         [] f = "ARCTAN" -> Minus(Times(x, Fn("ARCTAN", x)),
                Times(Num(<<1, 2>>), Fn("LOG", Plus(IntNum(1), Power(x, 2)))))
         [] OTHER -> Null

\* liate_rank: logarithms first, exponentials last.
Liate(e) ==
    CASE e.k = "fn" /\ e.f = "LOG" -> 0
      [] e.k = "fn" /\ e.f = "ARCTAN" -> 1
      [] e.k \in {"sym", "^", "*", "+", "-"} -> 2
      [] e.k = "fn" /\ e.f \in {"SIN", "COS", "TAN"} -> 3
      [] e.k = "fn" /\ e.f = "EXP" -> 4
      [] OTHER -> 5

\* integral_node, where at most n integrations by parts may nest. Null parts
\* of a sum, and of a product with a constant, stay in the tree.
NegOf(i) == IF i = Null THEN Null ELSE Neg(i)
Simplified(i) == IF i = Null THEN Null ELSE Simplify(i)
Either(first, second) == IF first # Null THEN first ELSE second
Subtracted(product, rest) == IF rest = Null THEN Null ELSE Minus(product, rest)

RECURSIVE Integral(_, _, _), ByParts(_, _, _), PartsOf(_, _, _, _), WithIntegral(_, _, _, _)
Integral(e, v, n) ==
    CASE e.k = "num" -> Times(e, Sym(v))
      [] IsVar(e, v) -> Over(Power(e, 2), IntNum(2))
      [] e.k = "sym" -> Times(e, Sym(v))
      [] e.k \in {"+", "-"} -> Bin(e.k, Integral(e.l, v, n), Integral(e.r, v, n))
      [] e.k = "*" /\ IsConstant(e.l) -> Times(e.l, Integral(e.r, v, n))
      [] e.k = "*" /\ IsConstant(e.r) -> Times(Integral(e.l, v, n), e.r)
      [] e.k = "*" -> ByParts(e, v, n)
      [] e.k = "/" /\ IsConstant(e.l) /\ IsVar(e.r, v) -> Times(e.l, LogAbs(e.r))
      [] e.k = "/" /\ Is(e.l, One) /\ XSquarePlusOne(e.r, v) -> Fn("ARCTAN", Sym(v))
      [] e.k = "/" /\ IsVar(e.l, v) /\ IsNum(e.r) /\ QLess(e.r.n, Zero) -> Raised(v, e.r)
      [] e.k = "^" /\ IsVar(e.l, v) /\ IsConstant(e.r) ->
            IF e.r.n = Q(-1) THEN LogAbs(e.l) ELSE Raised(v, e.r)
      [] e.k = "neg" -> NegOf(Integral(e.l, v, n))
      [] e.k = "fn" /\ IsVar(e.l, v) -> OfFunction(e.f, v)
      [] OTHER -> Null

\* plant_math_integral_parts: the other order when the first one fails.
ByParts(e, v, n) ==
    LET u == IF Liate(e.r) < Liate(e.l) THEN e.r ELSE e.l
        dv == IF Liate(e.r) < Liate(e.l) THEN e.l ELSE e.r
    IN CASE e.k = "fn" /\ e.f = "LOG" /\ IsVar(e.l, v) -> OfFunction("LOG", v)
         [] e.k # "*" \/ n = 0 -> Null
         [] OTHER -> Simplified(Either(PartsOf(u, dv, v, n), PartsOf(dv, u, v, n)))

\* integrate_by_parts_impl.
PartsOf(u, dv, v, n) == WithIntegral(u, Integral(dv, v, n - 1), v, n)
WithIntegral(u, w, v, n) ==
    IF w = Null THEN Null
    ELSE Subtracted(Times(u, w), Integral(Times(w, Derivative(u, v)), v, n - 1))

RECURSIVE HasNull(_)
HasNull(e) ==
    CASE e.k \in {"neg", "fn"} -> HasNull(e.l)
      [] e.k \in Ops -> HasNull(e.l) \/ HasNull(e.r)
      [] OTHER -> e = Null

\* plant_math_integral.
Antiderivative(e, v) == Simplified(Integral(e, v, MaxParts))

\* plant_math_integral_subst: four patterns. The coefficient c of c * x is not
\* looked at.
Linear(e, v) ==
    \/ IsVar(e, v)
    \/ e.k = "*" /\ (   (IsConstant(e.l) /\ (IsVar(e.r, v) \/ MatchesPower(e.r, v, 1)))
                     \/ (IsConstant(e.r) /\ (IsVar(e.l, v) \/ MatchesPower(e.l, v, 1))))

BySubstitution(e, v) ==
    LET of(a, f) == a.k = "fn" /\ a.f = f /\ IsVar(a.l, v)
        ofSquare(a, f) == a.k = "fn" /\ a.f = f /\ MatchesPower(a.l, v, 2)
        half(a) == Over(a, IntNum(2))
    IN CASE e.k = "*" /\ (   (of(e.l, "COS") /\ of(e.r, "SIN"))
                          \/ (of(e.l, "SIN") /\ of(e.r, "COS"))) ->
                half(Power(Fn("SIN", Sym(v)), 2))
         [] e.k = "*" /\ Linear(e.l, v) /\ ofSquare(e.r, "EXP") -> e.r
         [] e.k = "*" /\ ofSquare(e.l, "EXP") /\ Linear(e.r, v) -> e.l
         [] e.k = "/" /\ Linear(e.l, v) /\ XSquarePlusOne(e.r, v) -> Fn("LOG", e.r)
         [] e.k = "*" /\ IsVar(e.l, v) /\ ofSquare(e.r, "COS") -> half(Fn("SIN", e.r.l))
         [] e.k = "*" /\ ofSquare(e.l, "COS") /\ IsVar(e.r, v) -> half(Fn("SIN", e.l.l))
         [] OTHER -> Null

----------------------------------------------------------------------------
(* Limits *)

\* trig_limit: the special limits at zero.
SpecialLimit(e, v, point) ==
    LET of(a, f) == a.k = "fn" /\ a.f = f /\ IsVar(a.l, v)
        num == e.l
    IN CASE e.k # "/" \/ point # Zero \/ ~IsVar(e.r, v) -> NaN
         [] of(num, "SIN") \/ of(num, "TAN") -> One
         [] num.k = "-" /\ Is(num.l, One) /\ of(num.r, "COS") -> Zero
         [] num.k = "-" /\ of(num.l, "EXP") /\ Is(num.r, One) -> One
         [] num.k = "fn" /\ num.f = "LOG" /\ num.l.k = "+" /\ Is(num.l.l, One) /\ IsVar(num.l.r, v) -> One
         [] OTHER -> NaN

Indeterminate(e, v, point) ==
    e.k = "/" /\ \A part \in {"l", "r"} : EvalAt(e[part], v, point) = Zero

\* limit_node and hopital_limit: the value, NaN when none is found.
Known(q, r) == IF IsNaN(q) THEN r ELSE q

RECURSIVE Limit(_, _, _, _), Hopital(_, _, _, _)
Hopital(e, v, point, steps) ==
    IF steps < MaxHopital /\ Indeterminate(e, v, point)
    THEN Limit([part \in DOMAIN e |-> IF part = "k" THEN "/" ELSE Simplify(Derivative(e[part], v))],
               v, point, steps + 1)
    ELSE NaN
Limit(e, v, point, steps) ==
    IF ~Mentions(e, v) THEN Eval(e, <<>>)
    ELSE Known(EvalAt(e, v, point), Known(SpecialLimit(e, v, point), Hopital(e, v, point, steps)))

----------------------------------------------------------------------------
(* Taylor series *)

Factorial(n) == LET f[i \in 0 .. n] == IF i = 0 THEN One ELSE QMul(Q(i), f[i - 1]) IN f[n]

\* series_term: nothing for a zero coefficient.
SeriesTerm(v, center, coeff, n) ==
    LET x == IF center = Zero THEN Sym(v) ELSE Minus(Sym(v), Num(center))
    IN CASE coeff = Zero -> Null
         [] n = 0 -> Num(coeff)
         [] n = 1 -> Times(Num(coeff), x)
         [] OTHER -> Times(Num(coeff), Power(x, n))

\* The terms of orders 0 to max whose coefficients are numbers.
Series(v, center, coeffs, max) ==
    Chain(SelectSeq([i \in 1 .. max + 1 |->
            IF IsNaN(coeffs[i - 1]) THEN Null ELSE SeriesTerm(v, center, coeffs[i - 1], i - 1)],
        LAMBDA t : t # Null))

\* try_series_template: the coefficients of the functions it knows.
Template(e, v, center, max) ==
    LET of(f) == e.k = "fn" /\ e.f = f /\ IsVar(e.l, v)
        signed(n, q) == IF n % 4 < 2 THEN q ELSE QNeg(q)
        turn(n) == signed(n, QFn(IF n % 2 = 0 THEN "SIN" ELSE "COS", center))
        onePlus(a) == a.k = "+" /\ Is(a.l, One) /\ IsVar(a.r, v)
        order == 0 .. max
    IN CASE e.k = "/" /\ center = Zero /\ Is(e.l, One) /\ e.r.k = "-" /\ Is(e.r.l, One) /\ IsVar(e.r.r, v) ->
                [n \in order |-> One]
         [] of("EXP") -> [n \in order |-> QDiv(QFn("EXP", center), Factorial(n))]
         [] of("SIN") \/ of("COS") ->
                [n \in order |-> QDiv(turn(IF of("SIN") THEN n ELSE n + 1), Factorial(n))]
         [] e.k = "fn" /\ e.f = "LOG" /\ center = Zero /\ onePlus(e.l) ->
                [n \in order |-> IF n = 0 THEN Zero ELSE Frac(IF n % 2 = 1 THEN 1 ELSE -1, n)]
         [] OTHER -> <<>>

\* plant_math_taylor: nth_derivative_at for the others.
Coefficients(e, v, center, max) ==
    LET nth[n \in 0 .. max] == IF n = 0 THEN e ELSE Simplify(Derivative(nth[n - 1], v))
    IN [n \in 0 .. max |-> QDiv(EvalAt(nth[n], v, center), Factorial(n))]

TaylorBy(known, e, v, center, max) ==
    IF known # <<>> THEN Series(v, center, known, max)
    ELSE Simplify(Series(v, center, Coefficients(e, v, center, max), max))

Taylor(e, v, center, max) == TaylorBy(Template(e, v, center, max), e, v, center, max)
=============================================================================
