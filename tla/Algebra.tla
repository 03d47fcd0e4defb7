------------------------------ MODULE Algebra ------------------------------
(***************************************************************************)
(* The computer algebra of runtime/c/plant_math.c measured against         *)
(* evaluation: each behaviour is one call, named by in.call. A property    *)
(* compares two trees at every point of Envs where both have a value.      *)
(***************************************************************************)
EXTENDS Equations, Polynomials, Duals

CONSTANTS
    Coeffs,   \* coefficients of the polynomials
    Centers,  \* points of limits and series
    Wider     \* inputs on which the code is wrong, kept out of the properties
              \* unless named here: "quotients", "negative", "squares", "sines"

VARIABLE in

x == Sym("x")
y == Sym("y")
z == Sym("z")

Envs == [{"x", "y"} -> {Q(1), Q(2), Q(4)}]
Spaces == [{"x", "y", "z"} -> {Q(1), Q(2)}]
Agree(p, q) == IsNaN(p) \/ IsNaN(q) \/ p = q
Same(a, b) == \A env \in Envs : Agree(Eval(a, env), Eval(b, env))

----------------------------------------------------------------------------
(* Inputs *)

Leaves == {x, y, IntNum(0), IntNum(1), IntNum(2)}
Called == {Fn(f, x) : f \in {"SIN", "COS", "TAN", "EXP", "LOG"}}
Small == Leaves \union Called \union {Neg(a) : a \in Leaves}
            \union {Bin(op, a, b) : op \in Ops, a \in Leaves, b \in Leaves}
Trees == [call : {"simplify"}, op : Ops, a : Small, b : Leaves]
            \union [call : {"derive"}, op : Ops, a : Small, b : Leaves \union Called]

\* The integrals that the error text of plant_math_integral_str lists, their
\* sums, and products that integration by parts can finish.
Table == {x, IntNum(3), y, Over(IntNum(2), x), Over(IntNum(1), Plus(Power(x, 2), IntNum(1))), Power(x, 3),
          Bin("^", x, IntNum(-1)), Fn("ARCTAN", x)} \union Called
Products == {Times(a, Fn(f, x)) : a \in {x, Power(x, 2), y}, f \in {"SIN", "COS", "EXP"}}
Integrals == [call : {"integrate"}, op : {"+", "-", "*"}, a : Table \union Products, b : {IntNum(2), Neg(IntNum(3))}]
                \union [call : {"integrate"}, op : {"+", "-"}, a : Table, b : Products]

Monomials == {Times(Num(c), Bin("^", x, IntNum(n))) : c \in Coeffs, n \in 1 .. 3}
Curves == Called \union {Plus(m, Num(c)) : m \in Monomials, c \in Coeffs}
            \union {Over(IntNum(1), Minus(IntNum(1), x)), Fn("LOG", Plus(IntNum(1), x)), Times(x, Fn("EXP", x))}
Expansions == [call : {"expand"}, e : Curves, at : Centers, order : 1 .. 3]

\* (x - at) p / ((x - at) q), where the code has to find p / q at at.
Cancelling == [call : {"limit"}, p : Curves, q : {x, Plus(x, IntNum(3)), Fn("EXP", x)}, at : Centers]

Fractions2 == [call : {"fraction"}, n : Coeffs, m : Coeffs, r1 : Centers, r2 : Centers]
Trinomials == [call : {"factor"}, a : Coeffs, b : Coeffs \union {Q(4), Q(6), Q(8)}, c : Coeffs \union {Q(-4), Q(4), Q(9)}]
Complex2 == [call : {"complex"}, a : Complexes(Coeffs), b : Complexes(Coeffs)]

Sides == {Times(Num(c), m) : c \in Coeffs, m \in {x, Power(x, 2), Fn("SIN", x), Fn("EXP", x)}} \union {Num(c) : c \in Coeffs}
Odes == [call : {"ode"}, op : {"+", "-"}, f : Sides, first : BOOLEAN]
Split == [call : {"separable"}, f : Sides, first : BOOLEAN]

Waves == {Power(Plus(x, y), 2), Power(Minus(x, y), 3), Plus(Power(x, 2), Power(y, 2)), Times(x, y),
          Minus(Power(x, 2), Power(y, 2)), Plus(Times(IntNum(2), y), Power(x, 2)), Plus(x, Power(y, 2)),
          Plus(Times(IntNum(2), x), Power(y, 2)), Power(Times(x, y), 2)}
Pdes == [call : {"pde"}, pde : {"wave", "heat", "laplace"}, u : Waves, v : {"x", "y"}]

Fields == {Times(x, y), Times(Power(y, 2), z), Times(x, Power(z, 2)), Plus(x, Times(y, z)), Power(x, 3),
           Times(Fn("EXP", x), y)}
Vectors == [call : {"vector"}, f : Fields, g : Fields, h : Fields]

\* The originals of the table: 1, powers of t, and functions of t times a rate.
PowersOfTime == {X("t") \o X("^") \o <<N(n)>> : n \in 2 .. 4}
Rates == {<<N(2)>>, <<N(3)>>, <<T("-"), N(2)>>}
OfTime(f, rate) == X(f) \o X("(") \o rate \o X("t") \o X(")")
Originals == {<<N(1)>>, X("t")} \union PowersOfTime \union
    {OfTime(f, rate) : f \in {"EXP", "SIN", "COS", "SINH", "COSH"}, rate \in {<<>>} \union {a \o X("*") : a \in Rates}}
Transforms == [call : {"laplace"}, text : Originals]

AlgebraInit ==
    \/ in \in Trees \/ in \in Integrals \/ in \in Expansions \/ in \in Cancelling
    \/ in \in Fractions2 \/ in \in Trinomials \/ in \in Complex2
    \/ in \in Odes \/ in \in Split \/ in \in Pdes \/ in \in Vectors \/ in \in Transforms

AlgebraSpec == AlgebraInit /\ [][UNCHANGED in]_in

----------------------------------------------------------------------------
(* Properties *)

Tree == Bin(in.op, in.a, in.b)
QuotientOfQuotient(e) == e.k = "/" /\ e.l.k = "/"

RECURSIVE ConstantPowers(_)
ConstantPowers(e) ==
    CASE e.k \in {"neg", "fn"} -> ConstantPowers(e.l)
      [] e.k \in Ops -> ConstantPowers(e.l) /\ ConstantPowers(e.r) /\ (e.k = "^" => IsNum(e.r))
      [] OTHER -> TRUE

\* Simplifying never changes what an expression evaluates to, ends in a tree
\* that another round leaves as it is, and its text reads back as a tree with
\* the same value.
Simplifies(s) ==
    /\ Same(Tree, s)
    /\ HasNaN(s) \/ OnePass(s) = s
    /\ \A env \in Envs : Eval(Parse(Tokens(s)), env) = Eval(s, env)
SimplifySound ==
    in.call = "simplify" /\ (QuotientOfQuotient(Tree) => "quotients" \in Wider) => Simplifies(Simplify(Tree))

\* DERIVATIVE agrees with the slope at every point, and the slope of INTEGRAL
\* with the integrand. Powers with a variable in the exponent are left out:
\* deriv_pow shares a node there, which is freed twice.
SlopeIs(e, d) == \A env \in Envs : Agree(Slope(e, env, "x"), Eval(d, env))
Derives(e) == ConstantPowers(e) => SlopeIs(e, Derivative(e, "x"))
IsIntegral(i, e) == i # Null /\ ~HasNull(i) /\ SlopeIs(i, e)
Integrates(e) == IsIntegral(Antiderivative(e, "x"), e)
DerivativeSound ==
    in.call \in {"derive", "integrate"} =>
        LET e == Simplify(Tree) IN IF in.call = "derive" THEN Derives(e) ELSE Integrates(e)

\* A Taylor polynomial touches its function: same value and slope at the
\* center; that of a polynomial of no higher degree is the polynomial. A limit
\* finds the value of a quotient with a common zero cancelled.
Here == [v \in {"x"} |-> in.at]
WithinOrder(p) == p # <<>> /\ PolyDegree(p) <= in.order
Touches(e, s) ==
    /\ Agree(Eval(e, Here), Eval(s, Here))
    /\ Agree(Slope(e, Here, "x"), Slope(s, Here, "x"))
    /\ WithinOrder(Extract(e, "x")) => Same(e, s)
Expands(e) == Touches(e, Taylor(e, "x", in.at, in.order))
Approached(root) == Limit(Simplify(Over(Times(root, in.p), Times(root, in.q))), "x", in.at, 0)
SeriesSound ==
    /\ in.call = "expand" => Expands(Simplify(in.e))
    /\ in.call = "limit" =>
        Agree(Approached(Minus(x, Num(in.at))), Eval(Over(in.p, in.q), Here))

\* Partial fractions with distinct integer roots and the factors of a quadratic
\* have the value of what they came from, the roots that the quadratic formula
\* prints are roots, and complex arithmetic is a field whose texts read back.
\* Left out are two mistakes of the code: x^2 + 2cx + c is taken for a square
\* (pm 2508-2511), and complex roots are misprinted when a < 0 (pm 2701-2706).
SameUnlessNull(e, s) == s # Null => Same(e, s)
Decomposes(e) == SameUnlessNull(e, PartialFractions(e, "x"))
FactoredSame(e) == Same(e, Factor(e))
Vanishing(value) == Agree(value.re, Zero) /\ Agree(value.im, Zero)
TakenForSquare == in.a = One /\ in.b = QMul(Q(2), in.c) /\ QLess(One, in.c)
PolynomialsSound ==
    /\ in.call = "fraction" /\ in.r1 # in.r2 =>
        LET den == Times(Minus(x, Num(in.r1)), Minus(x, Num(in.r2)))
        IN Decomposes(Simplify(Over(Plus(Times(Num(in.n), x), Num(in.m)), den)))
    /\ in.call = "factor" =>
        LET a == Cx(in.a, Zero)  b == Cx(in.b, Zero)  c == Cx(in.c, Zero)
            rational == ~IsNaN(Root(QAbs(QSub(QMul(in.b, in.b), QMul(Q(4), QMul(in.a, in.c))))))
        IN /\ (TakenForSquare => "squares" \in Wider) =>
                FactoredSame(Simplify(Plus(Plus(Times(Num(in.a), Power(x, 2)), Times(Num(in.b), x)), Num(in.c))))
           /\ (QLess(in.a, Zero) => "negative" \in Wider) =>
                \A root \in QuadraticRoots(in.a, in.b, in.c).roots :
                    /\ rational => ~IsNaN(root.re) /\ ~IsNaN(root.im)
                    /\ Vanishing(CxAdd(CxMul(CxAdd(CxMul(a, root), b), root), c))
    /\ in.call = "complex" =>
        LET n == CxNorm(in.b)
        IN /\ n # Zero => CxMul(CxDiv(in.a, in.b), in.b) = in.a
           /\ CxNorm(CxMul(in.a, in.b)) = QMul(CxNorm(in.a), n)
           /\ CxSub(CxAdd(in.a, in.b), in.b) = in.a
           /\ CxMul(in.b, CxConj(in.b)) = Cx(n, Zero)
           /\ CxParse(CxText(in.a)) = in.a

\* The solution of dy/dx = f(x) satisfies the equation it was read from, the
\* verifier accepts it and rejects it for another equation; both sides of a
\* separable solution change at the same rate; the verifier of partial
\* differential equations decides as the slopes do. The inverse of a Laplace
\* transform is what was transformed or is not found, and that of 1, t, an
\* exponential or a sine is found. SIN(t) and SINH(t), whose transforms begin like
\* those of exponentials, are left out: both come back as EXP(t).
Solves(ode, s) ==
    s # Null =>
        /\ SlopeIs(s, IF in.op = "-" THEN in.f ELSE Neg(in.f))
        /\ Extract(s, "x") # <<>> =>
            \A extra \in 0 .. 1 : VerifiesOde(Simplify(Plus(ode, IntNum(extra))), s) <=> extra = 0
SolvesOde(ode) == Solves(ode, SolveLinear(ode))
Separates(s, rhs) ==
    s.f # <<>> =>
        \A env \in Envs :
            /\ Agree(QMul(Slope(s.y, env, "y"), Eval(s.f[2], env)), One)
            /\ Agree(Slope(s.x, env, "x"), Eval(s.f[1], env))
            /\ Agree(QMul(Eval(s.f[1], env), Eval(s.f[2], env)), Eval(rhs, env))
SolvesSplit(rhs) == Separates(SolveSeparable(Simplify(Minus(Prime, rhs))), rhs)
SecondSlope(u, env, v) == Slope(Deriv(u, v, 0), env, v)
SlopesResidual(u, w, env) ==
    Apply(IF in.pde = "laplace" THEN "+" ELSE "-",
          IF in.pde = "heat" THEN Slope(u, env, in.v) ELSE SecondSlope(u, env, in.v), SecondSlope(u, env, w))
VerifiesAsSlopes(u, w) ==
    VerifiesPde(in.pde, u, in.v, w) <=> \A env \in Envs : SlopesResidual(u, w, env) = Zero
UnitSines == {OfTime(f, <<>>) : f \in {"SIN", "SINH"}}
Found == {<<N(1)>>, X("t")} \union {text \in Originals : Head(text) \in {T("EXP"), T("SIN")}}
ComesBack(text) == InverseLaplace(Laplace(text)) \in {text} \union (IF text \in Found THEN {} ELSE {<<>>})
EquationsSound ==
    /\ in.call = "ode" =>
        SolvesOde(Simplify(IF in.first THEN Bin(in.op, Prime, in.f) ELSE Bin(in.op, in.f, Prime)))
    /\ in.call = "separable" => SolvesSplit(IF in.first THEN Times(in.f, y) ELSE Times(y, in.f))
    /\ in.call = "pde" => VerifiesAsSlopes(Simplify(in.u), IF in.v = "x" THEN "y" ELSE "x")
    /\ in.call = "laplace" /\ (in.text \in UnitSines => "sines" \in Wider) => ComesBack(in.text)

\* The curl of a gradient and the divergence of a curl vanish, and the
\* Laplacian is the divergence of the gradient.
SameInSpace(a, b) == \A env \in Spaces : Agree(Eval(a, env), Eval(b, env))
GradientIdentities(e, grad) ==
    /\ \A i \in 1 .. 3 : SameInSpace(Curl(grad)[i], Num(Zero))
    /\ SameInSpace(Laplacian(e), Divergence(grad))
FieldIdentities(f) ==
    /\ GradientIdentities(f[1], Gradient(f[1], Axes))
    /\ SameInSpace(Divergence(Curl(f)), Num(Zero))
VectorIdentities ==
    in.call = "vector" => FieldIdentities([i \in 1 .. 3 |-> Simplify(<<in.f, in.g, in.h>>[i])])

\* Derivatives, integrals, series, limits and vector operators are those of
\* the function an expression stands for.
CalculusSound == DerivativeSound /\ SeriesSound /\ VectorIdentities

\* What the comments at pm 5068 and 5120 say: the table of inverses has t^n and the
\* cosine too. It never finds them.
TableInverts ==
    in.call = "laplace" /\ in.text \in PowersOfTime \union {OfTime("COS", a \o X("*")) : a \in Rates} =>
        InverseLaplace(Laplace(in.text)) = in.text

\* Decompositions, roots, solutions and inverse transforms satisfy what they were
\* found from, on the inputs that their parts above do not leave out.
SolutionsSound == PolynomialsSound /\ EquationsSound
=============================================================================
