---------------------------- MODULE Polynomials ----------------------------
(***************************************************************************)
(* Polynomials of runtime/c/plant_math.c in one variable, as coefficients  *)
(* indexed from zero: their extraction from a tree, integer roots, partial *)
(* fractions, factoring and the quadratic formula; and complex numbers.    *)
(***************************************************************************)
EXTENDS Simplifier

CONSTANTS
    MaxPolyDeg,  \* MAX_POLY_DEG
    MaxRoot      \* the largest integer root tried, 20 in the code

\* A polynomial is a sequence whose i-th element is the coefficient of
\* x ^ (i - 1); <<>> is "not a polynomial", degree -1.
Coeff(p, i) == IF i + 1 \in DOMAIN p THEN p[i + 1] ELSE Zero
PolyDegree(p) == Len(p) - 1
Longer(p, q) == IF Len(p) > Len(q) THEN Len(p) ELSE Len(q)

PolyApply(op, p, q) ==
    LET convolved(k) == QSum([i \in 0 .. k - 1 |-> QMul(Coeff(p, i), Coeff(q, k - 1 - i))], 0 .. k - 1)
    IN IF op \in {"+", "-"}
       THEN [i \in 1 .. Longer(p, q) |-> Apply(op, Coeff(p, i - 1), Coeff(q, i - 1))]
       ELSE [i \in 1 .. Len(p) + Len(q) - 1 |-> convolved(i)]

\* extract_poly_coeffs. One part of a sum that is not a polynomial counts as
\* zero.
RECURSIVE Extract(_, _)
Extract(e, v) ==
    LET p == Extract(e.l, v)
        q == Extract(e.r, v)
        fits(s) == IF PolyDegree(s) > MaxPolyDeg THEN <<>> ELSE s
        up[n \in 0 .. 6] ==
            IF n = 0 THEN <<One>> ELSE IF up[n - 1] = <<>> THEN <<>> ELSE fits(PolyApply("*", up[n - 1], p))
    IN CASE e.k = "num" -> <<e.n>>
         [] IsVar(e, v) -> <<Zero, One>>
         [] e.k = "neg" -> [i \in DOMAIN p |-> QNeg(p[i])]
         [] e.k \in {"+", "-"} -> PolyApply(e.k, p, q)
         [] e.k = "*" /\ p # <<>> /\ q # <<>> -> fits(PolyApply("*", p, q))
         [] e.k = "^" /\ IsNum(e.r) /\ IsInt(e.r.n) /\ e.r.n[1] \in 0 .. 6 /\ p # <<>> -> up[e.r.n[1]]
         [] OTHER -> <<>>

\* poly_eval_arr, Horner's rule.
Horner(p, x) ==
    LET from[i \in 1 .. Len(p)] ==
            IF i = Len(p) THEN p[i] ELSE QAdd(QMul(from[i + 1], x), p[i])
    IN from[1]

\* find_int_roots, from the smallest.
IntRoots(p) ==
    LET zeros == SelectSeq([i \in 1 .. 2 * MaxRoot + 1 |-> i - MaxRoot - 1], LAMBDA r : Horner(p, Q(r)) = Zero)
    IN SubSeq(zeros, 1, IF Len(zeros) < MaxPolyDeg THEN Len(zeros) ELSE MaxPolyDeg)

DerivedPoly(p) == [i \in 1 .. Len(p) - 1 |-> QMul(Q(i), p[i + 1])]

\* Fault variant: the root changes its sign.
PartialFractionSigned(residue, root, v) ==
    LET below == Bin("+", Sym(v), IntNum(root))
    IN Bin("/", Num(residue), below)

PartialFraction(residue, root, v) ==
    LET below == Bin("-", Sym(v), IntNum(root))
    IN IF residue = Q(-1) THEN Neg(Bin("/", IntNum(1), below)) ELSE Bin("/", Num(residue), below)

\* plant_math_partial_fractions_str of num / den: a fraction for every root of
\* den that its derivative does not share; Null is one of the error texts.
PartialFractions(e, v) ==
    LET den == Extract(e.r, v)
        read == Extract(e.l, v)
        num == IF read = <<>> THEN <<Eval(e.l, <<>>)>> ELSE read
        slope(r) == Horner(DerivedPoly(den), Q(r))
        simple == SelectSeq(IntRoots(den), LAMBDA r : slope(r) # Zero)
    IN IF e.k # "/" THEN Null
       ELSE IF PolyDegree(den) < 1 THEN Null
       ELSE IF simple = <<>> THEN Null
       ELSE Chain([i \in DOMAIN simple |->
                PartialFraction(QDiv(Horner(num, Q(simple[i])), slope(simple[i])), simple[i], v)])

----------------------------------------------------------------------------
(* Factoring *)

\* plant_math_gcd, of two integers.
GcdOf(a, b) ==
    LET g[m \in 0 .. MaxPart, n \in 0 .. MaxPart] == IF n = 0 THEN m ELSE g[n, m % n]
    IN g[Magnitude(a), Magnitude(b)]

Squares(a) ==
    Bin("*", Bin("-", Sym("x"), Num(a)), Bin("+", Sym("x"), Num(a)))
SquareOf(a) == Bin("^", Bin("+", Sym("x"), Num(a)), IntNum(2))

\* The quadratic patterns of plant_math_factor: what a sum of terms is, when
\* one fits, or Null.
Quadratic(ts) ==
    LET last(S) == CHOOSE i \in S : \A j \in S : j <= i
        consts == {i \in DOMAIN ts : ts[i].b = Null}
        sqs == {i \in DOMAIN ts : ts[i].b = Bin("^", Sym("x"), IntNum(2))}
        xs == {i \in DOMAIN ts : ts[i].b = Sym("x")}
        at(S) == IF S = {} THEN Zero ELSE ts[last(S)].c
        c0 == at(consts)  c1 == at(xs)  c2 == at(sqs)
        half == QDiv(c1, Q(2))
    IN CASE Len(ts) = 3 /\ consts # {} /\ sqs # {} /\ xs # {} /\ c2 = One
                /\ ~QLess(c0, Zero) /\ QMul(Q(2), c0) = c1 -> SquareOf(Root(c0))
         [] Len(ts) = 3 /\ consts # {} /\ sqs # {} /\ xs # {} /\ c2 = One
                /\ QMul(half, half) = c0 -> SquareOf(half)
         [] Len(ts) \in {2, 3} /\ consts # {} /\ sqs # {} /\ (Len(ts) = 3 => xs = {})
                /\ c2 = One /\ QLess(c0, Zero) -> Squares(Root(QNeg(c0)))
         [] OTHER -> Null

\* Then the common factor of a sum with integer coefficients, which may be
\* one; a sum whose first coefficient alone is negative has its factor
\* positive.
Factor(e) ==
    LET ts == Terms(e)
        pattern == Quadratic(ts)
        gcd[i \in 1 .. Len(ts)] ==
            IF i = 1 THEN ts[1].c[1] ELSE GcdOf(gcd[i - 1], ts[i].c[1])
        g == gcd[Len(ts)]
    IN CASE IsSum(e) /\ pattern # Null -> pattern
         [] e.k = "+" /\ (\A i \in DOMAIN ts : IsInt(ts[i].c)) /\ g # 0 ->
                Bin("*", IntNum(g), Chain([i \in DOMAIN ts |->
                        TermNode([ts[i] EXCEPT !.c = Frac(@[1], g)])]))
         [] OTHER -> e

----------------------------------------------------------------------------
(* Complex numbers *)

Complexes(S) == [re : S, im : S]
Cx(re, im) == [re |-> re, im |-> im]

CxAdd(a, b) == Cx(QAdd(a.re, b.re), QAdd(a.im, b.im))
CxSub(a, b) == Cx(QSub(a.re, b.re), QSub(a.im, b.im))
CxMul(a, b) == Cx(QSub(QMul(a.re, b.re), QMul(a.im, b.im)), QAdd(QMul(a.re, b.im), QMul(a.im, b.re)))
CxNorm(a) == QAdd(QMul(a.re, a.re), QMul(a.im, a.im))
CxDiv(a, b) ==
    LET n == CxNorm(b)
    IN Cx(QDiv(QAdd(QMul(a.re, b.re), QMul(a.im, b.im)), n),
          QDiv(QSub(QMul(a.im, b.re), QMul(a.re, b.im)), n))
CxConj(a) == [a EXCEPT !.im = QNeg(@)]
CxAbs(a) == Root(CxNorm(a))

\* plant_complex_to_str: a text is the parts it shows. A part is NaN when it is
\* not shown; bare is the text "i" or "-i", of a number without a real part.
CxText(z) ==
    CASE z.im = Zero -> [re |-> z.re, im |-> NaN, bare |-> FALSE]
      [] z.re = Zero -> [re |-> NaN, im |-> z.im, bare |-> z.im \in {One, Q(-1)}]
      [] OTHER -> [re |-> z.re, im |-> z.im, bare |-> FALSE]

\* parse_complex_str. The sign of an imaginary part that follows a real one is
\* read with its digits: without digits ("3+i") it is zero.
CxParse(t) ==
    LET shown(q) == IF IsNaN(q) THEN Zero ELSE q
    IN Cx(shown(t.re), IF t.bare /\ ~IsNaN(t.re) THEN Zero ELSE shown(t.im))

----------------------------------------------------------------------------
(* plant_math_quadratic: the roots of a x^2 + b x + c as they are printed. *)

\* The number, below a hundred, that is left of a printed one without its first
\* character.
WithoutFirst(q) ==
    LET whole == q[1] \div q[2]
        rest == QSub(q, Q(IF whole < 10 THEN whole ELSE 10 * (whole \div 10)))
    IN IF IsNaN(q) \/ (whole \in 1 .. 9 /\ rest = Zero) THEN NaN ELSE rest

\* With a < 0 the imaginary part is flipped, and a negative one other than minus
\* one, whose digits are printed without a sign, loses its first character.
QuadraticRoots(a, b, c) ==
    LET disc == QSub(QMul(b, b), QMul(Q(4), QMul(a, c)))
        twice == QMul(Q(2), a)
        re == QDiv(QNeg(b), twice)
        away == QDiv(Root(QAbs(disc)), twice)
        im == QAbs(away)
        shown == IF QLess(a, Zero) /\ im # One THEN WithoutFirst(im) ELSE im
    IN CASE a = Zero /\ b = Zero -> [kind |-> IF c = Zero THEN "all" ELSE "none", roots |-> {}]
         [] a = Zero -> [kind |-> "real", roots |-> {Cx(QDiv(QNeg(c), b), Zero)}]
         [] disc = Zero -> [kind |-> "real", roots |-> {Cx(re, Zero)}]
         [] QLess(Zero, disc) ->
                [kind |-> "real", roots |-> {Cx(QSub(re, away), Zero), Cx(QAdd(re, away), Zero)}]
         [] OTHER -> [kind |-> "complex", roots |-> {Cx(re, shown), Cx(re, QNeg(shown))}]
=============================================================================
