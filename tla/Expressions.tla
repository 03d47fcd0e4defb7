---------------------------- MODULE Expressions ----------------------------
(***************************************************************************)
(* Expression trees of runtime/c/plant_math.c: their evaluation, the Pratt *)
(* parser and the printer. A tree is a record; null is the C NULL. The     *)
(* named constants (PI, E, ...) are left out.                              *)
(***************************************************************************)
EXTENDS Rationals, Sequences

Ops == {"+", "-", "*", "/", "^"}

Null == [k |-> "null"]
Num(q) == [k |-> "num", n |-> q]
Sym(s) == [k |-> "sym", s |-> s]
Neg(e) == [k |-> "neg", l |-> e]
Fn(f, e) == [k |-> "fn", f |-> f, l |-> e]
Bin(op, a, b) == [k |-> op, l |-> a, r |-> b]
IntNum(n) == Num(Q(n))

IsNum(e) == e.k = "num"
Is(e, q) == e.k = "num" /\ e.n = q
IsVar(e, v) == e.k = "sym" /\ e.s = v

\* What a binary operator does to numbers; "/" by zero is NaN.
Apply(op, a, b) ==
    CASE op = "+" -> QAdd(a, b)
      [] op = "-" -> QSub(a, b)
      [] op = "*" -> QMul(a, b)
      [] op = "/" -> QDiv(a, b)
      [] op = "^" -> QPow(a, b)

\* plant_math_eval, with values for the symbols of env.
RECURSIVE Eval(_, _)
Eval(e, env) ==
    CASE e.k = "num" -> e.n
      [] e.k = "sym" -> IF e.s \in DOMAIN env THEN env[e.s] ELSE NaN
      [] e.k = "neg" -> QNeg(Eval(e.l, env))
      [] e.k = "fn" -> QFn(e.f, Eval(e.l, env))
      [] e.k \in Ops -> Apply(e.k, Eval(e.l, env), Eval(e.r, env))
      [] OTHER -> NaN

RECURSIVE HasNaN(_)
HasNaN(e) ==
    CASE e.k = "num" -> IsNaN(e.n)
      [] e.k \in {"neg", "fn"} -> HasNaN(e.l)
      [] e.k \in Ops -> HasNaN(e.l) \/ HasNaN(e.r)
      [] OTHER -> FALSE

\* trees_equal: no NaN equals another.
TreesEqual(a, b) == a = b /\ ~HasNaN(a)

\* Symbols of a tree.
RECURSIVE Mentions(_, _)
Mentions(e, v) ==
    CASE e.k = "sym" -> e.s = v
      [] e.k \in {"neg", "fn"} -> Mentions(e.l, v)
      [] e.k \in Ops -> Mentions(e.l, v) \/ Mentions(e.r, v)
      [] OTHER -> FALSE

----------------------------------------------------------------------------
(* Text: a token is <<rank, p, q>>. The rank orders tokens as strcmp does  *)
(* their first characters; a number carries its value.                     *)

Names == <<"(", ")", "*", "+", "-", "/", "0", "ABS", "ARCTAN", "C", "COS", "COSH", "EXP", "LOG", "PRIME_y",
           "SIN", "SINH", "SQRT", "TAN", "^", "i", "s", "t", "x", "y", "z">>
Rank == [c \in {Names[n] : n \in DOMAIN Names} |-> CHOOSE n \in DOMAIN Names : Names[n] = c]

T(c) == <<Rank[c], 0, 0>>
NumberRank == Rank["0"]
Number(q) == <<NumberRank, q[1], q[2]>>
Named(t) == CHOOSE c \in DOMAIN Rank : T(c) = t

\* node_to_string: every operator in parentheses, "+ -b" as "- b".
RECURSIVE Tokens(_)
Tokens(e) ==
    CASE e.k = "num" -> IF e.n[1] < 0 THEN <<T("-"), Number(QNeg(e.n))>> ELSE <<Number(e.n)>>
      [] e.k = "sym" -> <<T(e.s)>>
      [] e.k = "neg" -> <<T("("), T("-")>> \o Tokens(e.l) \o <<T(")")>>
      [] e.k = "fn" -> <<T(e.f), T("(")>> \o Tokens(e.l) \o <<T(")")>>
      [] e.k = "+" /\ e.r.k = "neg" ->
            <<T("(")>> \o Tokens(e.l) \o <<T("-")>> \o Tokens(e.r.l) \o <<T(")")>>
      [] e.k = "+" /\ e.r.k = "num" /\ e.r.n[1] < 0 ->
            <<T("(")>> \o Tokens(e.l) \o <<T("-"), Number(QNeg(e.r.n)), T(")")>>
      [] e.k \in Ops -> <<T("(")>> \o Tokens(e.l) \o <<T(e.k)>> \o Tokens(e.r) \o <<T(")")>>
      [] OTHER -> <<>>

\* strcmp of the texts of two trees.
TokenBefore(u, v) == u[1] < v[1] \/ (u[1] = v[1] /\ QLess(<<u[2], u[3]>>, <<v[2], v[3]>>))

LessText(s, t) ==
    \/ /\ Len(s) < Len(t)
       /\ \A i \in DOMAIN s : s[i] = t[i]
    \/ \E i \in DOMAIN s \cap DOMAIN t :
         /\ \A j \in 1 .. i - 1 : s[j] = t[j]
         /\ TokenBefore(s[i], t[i])

TextBefore(a, b) == LessText(Tokens(a), Tokens(b))

Precedence(op) == CASE op \in {"+", "-"} -> 1 [] op \in {"*", "/"} -> 2 [] op = "^" -> 3

IsOpToken(t) == \E op \in Ops : t = T(op)

\* parse_primary and parse_expr take a token sequence and give the tree and
\* the tokens left. A minus sign applies to the primary alone, before "^".
RECURSIVE ParsePrimary(_), ParseExpr(_, _), ParseRest(_, _, _)

AfterParen(ts) == IF ts # <<>> /\ Head(ts) = T(")") THEN Tail(ts) ELSE ts

ParsePrimary(ts) ==
    IF ts = <<>> THEN [e |-> IntNum(0), rest |-> ts]
    ELSE LET t == Head(ts) IN
    CASE t = T("-") -> LET p == ParsePrimary(Tail(ts)) IN [e |-> Neg(p.e), rest |-> p.rest]
      [] t = T("+") -> ParsePrimary(Tail(ts))
      [] t = T("(") ->
            LET p == ParseExpr(Tail(ts), 0) IN [e |-> p.e, rest |-> AfterParen(p.rest)]
      [] t[1] = NumberRank -> [e |-> Num(<<t[2], t[3]>>), rest |-> Tail(ts)]
      [] t = T(")") \/ IsOpToken(t) -> [e |-> IntNum(0), rest |-> ts]
      [] OTHER ->
            IF Tail(ts) # <<>> /\ Head(Tail(ts)) = T("(")
            THEN LET p == ParseExpr(Tail(Tail(ts)), 0)
                 IN [e |-> Fn(Named(t), p.e), rest |-> AfterParen(p.rest)]
            ELSE [e |-> Sym(Named(t)), rest |-> Tail(ts)]

\* Left to right, "^" from the right.
ParseRest(left, ts, min) ==
    IF ts = <<>> \/ ~IsOpToken(Head(ts)) THEN [e |-> left, rest |-> ts]
    ELSE LET op == Named(Head(ts))
             prec == Precedence(op)
             right == ParseExpr(Tail(ts), IF op = "^" THEN prec ELSE prec + 1)
         IN IF prec < min THEN [e |-> left, rest |-> ts]
            ELSE ParseRest(Bin(op, left, right.e), right.rest, min)

ParseExpr(ts, min) == LET p == ParsePrimary(ts) IN ParseRest(p.e, p.rest, min)

Parse(ts) == ParseExpr(ts, 0).e
=============================================================================
