------------------------------- MODULE Duals -------------------------------
(***************************************************************************)
(* What the numeric modules are measured against: a value together with    *)
(* its derivative, carried through a tree by the rules of calculus. The    *)
(* stand-in functions of Rationals satisfy the same rules.                 *)
(***************************************************************************)
EXTENDS Expressions

Dual(x, d) == [x |-> x, d |-> d]

DualFn(f, a) ==
    LET fx(g) == QFn(g, a.x)
        slope == CASE f = "SIN" -> fx("COS")
                   [] f = "COS" -> QNeg(fx("SIN"))
                   [] f = "TAN" -> QDiv(One, QMul(fx("COS"), fx("COS")))
                   [] f = "EXP" -> fx("EXP")
                   [] f = "LOG" -> QDiv(One, a.x)
                   [] f = "SQRT" -> QDiv(One, QMul(Q(2), fx("SQRT")))
                   [] f = "ABS" -> IF a.x[1] = 0 THEN NaN ELSE IF a.x[1] < 0 THEN Q(-1) ELSE One
                   [] f = "ARCTAN" -> QDiv(One, QAdd(One, QMul(a.x, a.x)))
                   [] OTHER -> NaN
    IN Dual(fx(f), QMul(slope, a.d))

DualOp(op, a, b) ==
    CASE op \in {"+", "-"} -> Dual(Apply(op, a.x, b.x), Apply(op, a.d, b.d))
      [] op = "*" -> Dual(QMul(a.x, b.x), QAdd(QMul(a.d, b.x), QMul(a.x, b.d)))
      [] op = "/" -> Dual(QDiv(a.x, b.x),
                          QDiv(QSub(QMul(a.d, b.x), QMul(a.x, b.d)), QMul(b.x, b.x)))
      [] op = "^" -> \* for a constant exponent
            Dual(QPow(a.x, b.x),
                 IF b.x = Zero THEN Zero
                 ELSE QMul(QMul(b.x, QPow(a.x, QSub(b.x, One))), a.d))

\* A tree at the point env, moving along the direction dir.
RECURSIVE DualEval(_, _, _)
DualEval(e, env, dir) ==
    CASE e.k = "num" -> Dual(e.n, Zero)
      [] e.k = "sym" -> IF e.s \in DOMAIN env THEN Dual(env[e.s], dir[e.s]) ELSE Dual(NaN, NaN)
      [] e.k = "neg" -> LET a == DualEval(e.l, env, dir) IN Dual(QNeg(a.x), QNeg(a.d))
      [] e.k = "fn" -> DualFn(e.f, DualEval(e.l, env, dir))
      [] e.k \in Ops -> DualOp(e.k, DualEval(e.l, env, dir), DualEval(e.r, env, dir))
      [] OTHER -> Dual(NaN, NaN)

\* The slope of e along v at env.
Slope(e, env, v) == DualEval(e, env, [s \in DOMAIN env |-> IF s = v THEN One ELSE Zero]).d
=============================================================================
