----------------------------- MODULE Simplifier -----------------------------
(***************************************************************************)
(* plant_math_simplify of runtime/c/plant_math.c: ten passes over the      *)
(* tree, repeated to a fixed point. A pass rewrites the children, then the *)
(* node; each rule below is one node's rewriting, given its name in        *)
(* BottomUp. The order of the rules is the order of the code.              *)
(***************************************************************************)
EXTENDS Expressions, FiniteSets, TLC

CONSTANT MaxIterations  \* MAX_SIMPLIFY_ITERATIONS

\* simplify_node, by operator.
SimplifySum(e) ==
    CASE Is(e.r, Zero) -> e.l
      [] e.k = "+" /\ Is(e.l, Zero) -> e.r
      [] e.k = "-" /\ Is(e.l, Zero) -> Neg(e.r)
      [] e.k = "-" /\ TreesEqual(e.l, e.r) -> IntNum(0)
      [] OTHER -> e

SimplifyProduct(e) ==
    CASE Is(e.r, One) -> e.l
      [] Is(e.l, One) -> e.r
      [] Is(e.r, Zero) \/ Is(e.l, Zero) -> IntNum(0)
      [] OTHER -> e

SimplifyQuotient(e) ==
    CASE Is(e.r, One) -> e.l
      [] Is(e.l, Zero) /\ ~Is(e.r, Zero) -> IntNum(0)
      [] TreesEqual(e.l, e.r) -> IntNum(1)
      [] OTHER -> e

SimplifyPower(e) ==
    CASE Is(e.r, Zero) -> IntNum(1)
      [] Is(e.r, One) -> e.l
      [] Is(e.l, Zero) -> IntNum(0)
      [] OTHER -> e

\* A function of a number is its value, where the stand-in has one.
FoldedFn(e, value) == IF IsNaN(value) THEN e ELSE Num(value)

Fold(e) ==
    CASE e.k = "neg" /\ IsNum(e.l) -> Num(QNeg(e.l.n))
      [] e.k = "neg" /\ e.l.k = "neg" -> e.l.l
      [] e.k = "fn" /\ e.f = "SQRT" /\ Is(e.l, Q(-1)) -> Sym("i")
      [] e.k = "fn" /\ IsNum(e.l) -> FoldedFn(e, QFn(e.f, e.l.n))
      [] e.k \in Ops /\ IsNum(e.l) /\ IsNum(e.r) -> Num(Apply(e.k, e.l.n, e.r.n))
      [] e.k \in {"+", "-"} -> SimplifySum(e)
      [] e.k = "*" -> SimplifyProduct(e)
      [] e.k = "/" -> SimplifyQuotient(e)
      [] e.k = "^" -> SimplifyPower(e)
      [] OTHER -> e

\* simplify_pow_node: laws of exponents.
SamePowers(e) == e.l.k = "^" /\ e.r.k = "^" /\ TreesEqual(e.l.l, e.r.l)

Powers(e) ==
    CASE e.k = "^" /\ e.l.k = "^" -> Bin("^", e.l.l, Bin("*", e.l.r, e.r))
      [] e.k = "^" /\ Is(e.l, One) -> IntNum(1)
      [] e.k = "^" /\ e.l.k = "neg" /\ Is(e.l.l, One) /\ IsNum(e.r) /\ IsInt(e.r.n) ->
            IntNum(IF e.r.n[1] % 2 = 0 THEN 1 ELSE -1)
      [] e.k = "*" /\ SamePowers(e) -> Bin("^", e.l.l, Bin("+", e.l.r, e.r.r))
      [] e.k = "/" /\ SamePowers(e) -> Bin("^", e.l.l, Bin("-", e.l.r, e.r.r))
      [] OTHER -> e

\* simplify_trig_node: is_func_sq, then the identities.
Squared(e, f) == e.k = "^" /\ e.l.k = "fn" /\ e.l.f = f /\ Is(e.r, Q(2))
Square(f, arg) == Bin("^", Fn(f, arg), IntNum(2))

Identities(e) ==
    LET arg(s) == s.l.l
        other(f) == IF f = "SIN" THEN "COS" ELSE "SIN"
        oneOver(s) == Bin("/", IntNum(1), Square("COS", arg(s)))
        sq == {f \in {"SIN", "COS"} : Squared(e.l, f)}
        sqR == {f \in {"SIN", "COS"} : Squared(e.r, f)}
        f1 == CHOOSE f \in sq : TRUE
        f2 == CHOOSE f \in sqR : TRUE
    IN CASE e.k = "+" /\ sq # {} /\ sqR # {} /\ sq # sqR /\ TreesEqual(arg(e.l), arg(e.r)) -> IntNum(1)
         [] e.k = "+" /\ Is(e.l, One) /\ Squared(e.r, "TAN") -> oneOver(e.r)
         [] e.k = "+" /\ Squared(e.l, "TAN") /\ Is(e.r, One) -> oneOver(e.l)
         [] e.k = "-" /\ Is(e.l, One) /\ sqR # {} -> Square(other(f2), arg(e.r))
         [] e.k = "-" /\ sq # {} /\ Is(e.r, One) -> Neg(Square(other(f1), arg(e.l)))
         [] OTHER -> e

\* simplify_log_node.
Logs(e) ==
    LET a == e.l
        log(x) == Fn("LOG", x)
    IN IF e.k # "fn" THEN e ELSE
       CASE e.f = "LOG" /\ Is(a, One) -> IntNum(0)
         [] e.f = "LOG" /\ a.k = "fn" /\ a.f = "EXP" -> a.l
         [] e.f = "LOG" /\ a.k = "*" -> Bin("+", log(a.l), log(a.r))
         [] e.f = "LOG" /\ a.k = "/" -> Bin("-", log(a.l), log(a.r))
         [] e.f = "LOG" /\ a.k = "^" -> Bin("*", a.r, log(a.l))
         [] e.f = "EXP" /\ a.k = "fn" /\ a.f = "LOG" -> a.l
         [] OTHER -> e

\* simplify_frac_node: sums, products and quotients of two fractions.
Fractions(e) ==
    LET L == e.l  R == e.r
        both == L.k = "/" /\ R.k = "/"
        times(a, b) == Bin("*", a, b)
        unit == both /\ Is(L.l, One) /\ Is(R.l, One)
        same == both /\ TreesEqual(L.r, R.r)
        crossed == Bin("/", Bin(e.k, times(L.l, R.r), times(R.l, L.r)), times(L.r, R.r))
    IN CASE e.k = "+" /\ unit -> Bin("/", Bin("+", L.r, R.r), times(L.r, R.r))
         [] e.k = "-" /\ unit -> Bin("/", Bin("-", R.r, L.r), times(L.r, R.r))
         [] e.k \in {"+", "-"} /\ same -> Bin("/", Bin(e.k, L.l, R.l), L.r)
         [] e.k = "+" /\ both /\ TreesEqual(L.l, R.l) ->
                Bin("/", times(L.l, Bin("+", L.r, R.r)), times(L.r, R.r))
         [] e.k \in {"+", "-"} /\ both -> crossed
         [] e.k = "*" /\ both -> Bin("/", times(L.l, R.l), times(L.r, R.r))
         [] e.k = "/" /\ L.k = "/" /\ TreesEqual(L.r, R) -> L.l
         [] e.k = "/" /\ both -> Bin("/", times(L.l, R.r), times(L.r, R.l))
         [] OTHER -> e

\* simplify_complex_node.
Complex(e) ==
    CASE e.k = "*" /\ IsVar(e.l, "i") /\ IsVar(e.r, "i") -> IntNum(-1)
      [] e.k = "fn" /\ e.f = "SQRT" /\ Is(e.l, Q(-1)) -> Sym("i")
      [] OTHER -> e

----------------------------------------------------------------------------
(* Terms of a sum: a coefficient and a base, null for a constant *)

Decomposed(e) ==
    CASE IsNum(e) -> [c |-> e.n, b |-> Null]
      [] e.k = "*" /\ IsNum(e.l) -> [c |-> e.l.n, b |-> e.r]
      [] e.k = "*" /\ IsNum(e.r) -> [c |-> e.r.n, b |-> e.l]
      [] OTHER -> [c |-> One, b |-> e]

\* flatten_sum; a null part of the sum is passed over.
RECURSIVE Terms(_)
Terms(e) ==
    LET negated(ts) == [i \in DOMAIN ts |-> [ts[i] EXCEPT !.c = QNeg(@)]]
    IN CASE e = Null -> <<>>
         [] e.k = "+" -> Terms(e.l) \o Terms(e.r)
         [] e.k = "-" -> Terms(e.l) \o negated(Terms(e.r))
         [] e.k = "neg" -> negated(Terms(e.l))
         [] OTHER -> <<Decomposed(e)>>

Cancelled == [c |-> Zero, b |-> Null]
Alike(ts, i) == {j \in DOMAIN ts : j = i \/ TreesEqual(ts[i].b, ts[j].b)}
KeptTerms(ts) == SelectSeq(ts, LAMBDA t : t # Cancelled)

\* Fault variant: the coefficient of the first alone survives.
CollectedFirst(ts) ==
    KeptTerms([i \in DOMAIN ts |-> IF \E j \in Alike(ts, i) : j < i THEN Cancelled ELSE ts[i]])

\* collect_like: each base keeps its first place and gets the sum of the
\* coefficients; constants that cancel go.
Collected(ts) ==
    KeptTerms([i \in DOMAIN ts |->
        IF \E j \in Alike(ts, i) : j < i THEN Cancelled
        ELSE [c |-> QSum([j \in DOMAIN ts |-> ts[j].c], Alike(ts, i)), b |-> ts[i].b]])

RECURSIVE Degree(_)
Degree(b) ==
    CASE b.k = "^" /\ IsNum(b.r) -> b.r.n
      [] b.k = "*" -> QAdd(Degree(b.l), Degree(b.r))
      [] b.k = "/" -> QSub(Degree(b.l), Degree(b.r))
      [] b.k = "neg" -> Degree(b.l)
      [] b.k \in {"num", "null"} -> Zero
      [] OTHER -> One

\* cmp_term_desc: constants last, higher degree first, then the texts.
HigherFirst(s, ds, t, dt) == IF ds # dt THEN QLess(dt, ds) ELSE TextBefore(s.b, t.b)

TermBefore(s, t) ==
    IF s.b = Null \/ t.b = Null THEN s.b # Null
    ELSE HigherFirst(s, Degree(s.b), t, Degree(t.b))

TermNode(t) ==
    CASE t.b = Null -> Num(t.c)
      [] t.c = One -> t.b
      [] t.c = Q(-1) -> Neg(t.b)
      [] OTHER -> Bin("*", Num(t.c), t.b)

\* build_sum and the products of two sums: a chain of additions.
Chain(es) ==
    LET upto[i \in 1 .. Len(es)] == IF i = 1 THEN es[1] ELSE Bin("+", upto[i - 1], es[i])
    IN IF es = <<>> THEN IntNum(0) ELSE upto[Len(es)]

Summed(ts) == Chain([i \in DOMAIN ts |-> TermNode(ts[i])])

\* collect_and_sort.
CollectAndSort(e) ==
    IF e.k \notin {"+", "-"} THEN e
    ELSE Summed(SortSeq(Collected(Terms(e)), TermBefore))

----------------------------------------------------------------------------
(* Products *)

IsSum(e) == e.k \in {"+", "-"}
Scaled(s, sum) == Bin(sum.k, Bin("*", s, sum.l), Bin("*", s, sum.r))
MinusOne(e) == e.k = "neg" /\ Is(e.l, One)

Crossed(ls, rs) ==
    [n \in 1 .. Len(ls) * Len(rs) |->
        Bin("*", TermNode(ls[((n - 1) \div Len(rs)) + 1]), TermNode(rs[((n - 1) % Len(rs)) + 1]))]

\* distribute_node; the product with a null operand ends the program.
Distribute(e) ==
    CASE e.k = "neg" /\ IsSum(e.l) -> Scaled(IntNum(-1), e.l)
      [] e.k = "*" /\ (IsNum(e.l) \/ MinusOne(e.l)) /\ IsSum(e.r) -> Scaled(e.l, e.r)
      [] e.k = "*" /\ IsSum(e.l) /\ (IsNum(e.r) \/ MinusOne(e.r)) -> Scaled(e.r, e.l)
      [] e.k = "*" /\ IsSum(e.l) /\ IsSum(e.r) -> Chain(Crossed(Terms(e.l), Terms(e.r)))
      [] OTHER -> e

\* flatten_product of normalize_node: the factors from left to right, the
\* numbers among them multiplied into one in front.
RECURSIVE Factors(_)
Factors(e) == IF e.k = "*" THEN Factors(e.l) \o Factors(e.r) ELSE <<e>>

NumberAmong(fs) ==
    LET product[i \in 0 .. Len(fs)] ==
            IF i = 0 THEN One
            ELSE IF IsNum(fs[i]) THEN QMul(product[i - 1], fs[i].n) ELSE product[i - 1]
    IN product[Len(fs)]

InFront(number, rest) ==
    IF number # One \/ rest = <<>> THEN <<Num(number)>> \o rest ELSE rest

ProductOf(fs) ==
    LET upto[i \in 1 .. Len(fs)] == IF i = 1 THEN fs[1] ELSE Bin("*", upto[i - 1], fs[i])
    IN upto[Len(fs)]

Normalize(e) ==
    IF e.k # "*" THEN e
    ELSE ProductOf(InFront(NumberAmong(Factors(e)), SelectSeq(Factors(e), LAMBDA f : ~IsNum(f))))

----------------------------------------------------------------------------
(* The pipeline *)

Passes == <<"fold", "powers", "trig", "logs", "fractions", "complex", "distribute",
            "normalize", "collect", "fold">>

Rule(pass, e) ==
    CASE pass = "fold" -> Fold(e)
      [] pass = "powers" -> Powers(e)
      [] pass = "trig" -> IF e.k \in {"+", "-"} THEN Identities(e) ELSE e
      [] pass = "logs" -> Logs(e)
      [] pass = "fractions" -> IF e.k \in Ops \ {"^"} THEN Fractions(e) ELSE e
      [] pass = "complex" -> Complex(e)
      [] pass = "distribute" -> Distribute(e)
      [] pass = "normalize" -> Normalize(e)
      [] pass = "collect" -> CollectAndSort(e)

RECURSIVE BottomUp(_, _)
BottomUp(pass, e) ==
    Rule(pass, CASE e.k \in {"neg", "fn"} -> [e EXCEPT !.l = BottomUp(pass, @)]
                 [] e.k \in Ops -> [e EXCEPT !.l = BottomUp(pass, @), !.r = BottomUp(pass, @)]
                 [] OTHER -> e)

OnePass(e) ==
    LET after[i \in 0 .. Len(Passes)] == IF i = 0 THEN e ELSE BottomUp(Passes[i], after[i - 1])
    IN after[Len(Passes)]

\* The tree after at most n further rounds.
RECURSIVE Rounds(_, _), Settled(_, _, _)
Settled(e, next, n) == IF TreesEqual(e, next) THEN next ELSE Rounds(next, n - 1)
Rounds(e, n) == IF n = 0 THEN e ELSE Settled(e, OnePass(e), n)

Simplify(e) == Rounds(e, MaxIterations)
=============================================================================
