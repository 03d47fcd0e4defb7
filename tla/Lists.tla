------------------------------- MODULE Lists -------------------------------
(***************************************************************************)
(* The list built-ins of runtime/c/plant_runtime.c: SLICE, REVERSE,        *)
(* UNIQUE, FLATTEN, CHUNK, ZIP, BRAID, LINK, REMOVE and the order of SORT. *)
(*                                                                         *)
(* A text is <<"n", i>> when strtod reads it whole as the number i,        *)
(* <<"nan", 0>> for "nan", else <<"s", i>> with its rank under strcmp; the *)
(* empty text is <<"s", 0>>.                                               *)
(***************************************************************************)
EXTENDS Integers, Sequences, FiniteSets

CONSTANTS Texts, MaxList

VARIABLE in  \* the arguments of one call

Unset == -100  \* LONG_MIN of _slice_arg: NULL, empty or not a number

----------------------------------------------------------------------------

\* _slice_resolve: the half-open range <<from, to>> of a slice.
Resolved(s, e, len) ==
    LET relative(i) == IF i < 0 THEN i + len ELSE i
        clamped(i) == IF i < 0 THEN 0 ELSE IF i > len THEN len ELSE i
        from == clamped(relative(IF s \in {Unset, -1} THEN 0 ELSE s))
        to == clamped(relative(IF e \in {Unset, -1} THEN len ELSE e))
    IN <<from, IF to < from THEN from ELSE to>>

Slice(x, s, e) == LET r == Resolved(s, e, Len(x)) IN SubSeq(x, r[1] + 1, r[2])

ListReverse(x) == [i \in 1 .. Len(x) |-> x[Len(x) + 1 - i]]

\* plant_list_unique keeps the first occurrence of each text.
Unique(x) ==
    LET upto[i \in 0 .. Len(x)] ==
            IF i = 0 THEN <<>>
            ELSE IF \E j \in DOMAIN upto[i - 1] : upto[i - 1][j] = x[i] THEN upto[i - 1]
            ELSE Append(upto[i - 1], x[i])
    IN upto[Len(x)]

\* plant_list_flatten, one level, of a list of lists.
Flatten(xs) ==
    LET upto[i \in 0 .. Len(xs)] == IF i = 0 THEN <<>> ELSE upto[i - 1] \o xs[i]
    IN upto[Len(xs)]

Chunk(x, size) ==
    IF size < 1 THEN <<>>
    ELSE [i \in 1 .. (Len(x) + size - 1) \div size |->
            SubSeq(x, (i - 1) * size + 1, IF i * size < Len(x) THEN i * size ELSE Len(x))]

ListZip(x, y) ==
    [i \in 1 .. (IF Len(x) < Len(y) THEN Len(x) ELSE Len(y)) |-> <<x[i], y[i]>>]

Braid(x, y) == Flatten(ListZip(x, y))

\* plant_link on a pair list: replace the value of the first pair with the
\* key, or append a pair.
Linked(m, k, v) ==
    LET hits == {i \in DOMAIN m : i % 2 = 1 /\ m[i] = k}
        at == CHOOSE i \in hits : \A j \in hits : i <= j
    IN IF hits = {} THEN m \o <<k, v>> ELSE [m EXCEPT ![at + 1] = v]

BraidMap(x, y) ==
    LET n == Len(ListZip(x, y))
        upto[i \in 0 .. n] == IF i = 0 THEN <<>> ELSE Linked(upto[i - 1], x[i], y[i])
    IN upto[n]

IndexOf(x, v) ==
    LET hits == {i \in DOMAIN x : x[i] = v}
    IN IF hits = {} THEN -1 ELSE (CHOOSE i \in hits : \A j \in hits : i <= j) - 1

\* plant_list_remove: the first occurrence goes.
ListRemoved(x, v) ==
    LET at == IndexOf(x, v)
    IN IF at = -1 THEN x ELSE SubSeq(x, 1, at) \o SubSeq(x, at + 2, Len(x))

----------------------------------------------------------------------------
(* SORT *)

Sign(i) == IF i < 0 THEN -1 ELSE IF i > 0 THEN 1 ELSE 0

Numeric(t) == t[1] \in {"n", "nan"}

\* Fault variant: the text order decides unless both are numbers.
CmpValsTextual(a, b) ==
    IF Numeric(a) /\ Numeric(b) THEN Sign(a[2] - b[2]) ELSE Sign(2 * a[2] - 2 * b[2] - 1)

\* _sort_cmp_vals: numbers first; neither < nor > of a NaN holds.
CmpVals(a, b) ==
    IF Numeric(a) /\ Numeric(b)
    THEN IF "nan" \in {a[1], b[1]} THEN 0 ELSE Sign(a[2] - b[2])
    ELSE IF Numeric(a) THEN -1 ELSE IF Numeric(b) THEN 1 ELSE Sign(a[2] - b[2])

\* _sort_cmp: keys is a sequence of [field, desc]; an element has a text and
\* fields. Without keys the text decides.
SortCmp(a, b, keys, desc) ==
    IF keys = <<>>
    THEN IF desc THEN -CmpVals(a.text, b.text) ELSE CmpVals(a.text, b.text)
    ELSE LET by(i) == CmpVals(a[keys[i].field], b[keys[i].field])
             differ == {i \in DOMAIN keys : by(i) # 0}
             i0 == CHOOSE i \in differ : \A j \in differ : i <= j
         IN IF differ = {} THEN 0 ELSE IF keys[i0].desc THEN -by(i0) ELSE by(i0)

----------------------------------------------------------------------------
(* The calls of the instance *)

Sizes == -MaxList - 1 .. MaxList + 1

ListsOf(S) == UNION {[1 .. n -> S] : n \in 0 .. MaxList}

Elements == [text : Texts, field : Texts]
SortKeys == {<<>>, <<[field |-> "field", desc |-> TRUE], [field |-> "text", desc |-> FALSE]>>}

ListCalls ==
    [call : {"slice"}, x : ListsOf(Texts), s : Sizes \union {Unset}, e : Sizes \union {Unset}]
        \union [call : {"chunk"}, x : ListsOf(Texts), y : ListsOf(Texts)]
        \union [call : {"sort"}, a : Elements, b : Elements, keys : SortKeys, desc : BOOLEAN]

----------------------------------------------------------------------------
(* Properties *)

\* SLICE yields the elements whose positions are in the range its arguments
\* name: unset or -1 is the end of the list that the bound stands for, another
\* negative bound counts from the end.
SliceMeaning ==
    in.call = "slice" =>
        LET n == Len(in.x)
            start(i) == IF i \in {Unset, -1} THEN 0 ELSE IF i < 0 THEN n + i ELSE i
            stop(i) == IF i \in {Unset, -1} THEN n ELSE IF i < 0 THEN n + i ELSE i
            kept == {i \in 0 .. n - 1 : start(in.s) <= i /\ i < stop(in.e)}
            got == Slice(in.x, in.s, in.e)
        IN /\ Len(got) = Cardinality(kept)
           /\ \A i \in DOMAIN got :
                \E j \in kept : j = i - 1 + Cardinality({k \in 0 .. n - 1 : k < start(in.s)})
                                /\ got[i] = in.x[j + 1]

\* CHUNK then FLATTEN gives the list back, UNIQUE keeps each text once and in
\* order, BRAID of two lists read as a map is what LINK builds, and REMOVE
\* takes one occurrence.
ListLaws ==
    in.call = "chunk" =>
        LET x == in.x  y == in.y  u == Unique(in.x)  pairs == BraidMap(in.x, in.y)
            times(s, v) == Cardinality({i \in DOMAIN s : s[i] = v})
        IN /\ \A size \in 1 .. MaxList :
                /\ Flatten(Chunk(x, size)) = x
                /\ \A i \in 1 .. Len(Chunk(x, size)) - 1 : Len(Chunk(x, size)[i]) = size
           /\ \A i, j \in DOMAIN u :
                i < j => u[i] # u[j] /\ IndexOf(x, u[i]) < IndexOf(x, u[j])
           /\ {u[i] : i \in DOMAIN u} = {x[i] : i \in DOMAIN x}
           /\ \A i \in DOMAIN ListZip(x, y) :
                LET last == CHOOSE j \in DOMAIN ListZip(x, y) :
                        x[j] = x[i] /\ \A k \in DOMAIN ListZip(x, y) : x[k] = x[i] => k <= j
                    at == CHOOSE j \in DOMAIN pairs : j % 2 = 1 /\ pairs[j] = x[i]
                IN pairs[at + 1] = y[last]
           /\ Len(pairs) = 2 * Cardinality({x[i] : i \in DOMAIN ListZip(x, y)})
           /\ \A v \in Texts : \A w \in Texts :
                times(ListRemoved(x, v), w) = times(x, w) - (IF v = w /\ times(x, w) > 0 THEN 1 ELSE 0)
           /\ Unique(ListReverse(ListReverse(x))) = u

\* qsort needs an order: the comparison is antisymmetric and transitive, also
\* between numbers and other texts and over several fields.
SortOrders ==
    in.call = "sort" =>
        LET cmp(a, b) == SortCmp(a, b, in.keys, in.desc)
        IN /\ cmp(in.a, in.b) = -cmp(in.b, in.a)
           /\ \A w \in Elements :
                cmp(in.a, in.b) <= 0 /\ cmp(in.b, w) <= 0 => cmp(in.a, w) <= 0

\* The list built-ins do what their names say: SLICE yields the positions that
\* its bounds name, CHUNK, FLATTEN, UNIQUE, ZIP, BRAID, LINK and REMOVE undo and
\* count one another, and the comparison of SORT is an order.
ListsSound == SliceMeaning /\ ListLaws /\ SortOrders
=============================================================================
