------------------------------ MODULE Tensors ------------------------------
(***************************************************************************)
(* runtime/c/plant_tensor.c: tensors in row-major order and the operations *)
(* on them. Err is any error tensor, which has no dimensions and no data.  *)
(*                                                                         *)
(* A number is its value v together with d, its derivatives along the      *)
(* elements of the one parameter of the instance. The code has v only; d   *)
(* follows it by the rules of calculus and is what gradients are measured  *)
(* against.                                                                *)
(***************************************************************************)
EXTENDS Rationals, Sequences, FiniteSets

CONSTANT NParams  \* elements of the parameter

Params == 1 .. NParams
Err == [shape |-> <<>>, data |-> <<>>]

----------------------------------------------------------------------------
(* Numbers *)

\* The sequence f, computed element by element.
Listed(f) == f \o <<>>

Number(v, d) == [v |-> v, d |-> Listed(d)]
Const(q) == Number(q, [k \in Params |-> Zero])
NAdd(a, b) == Number(QAdd(a.v, b.v), [k \in Params |-> QAdd(a.d[k], b.d[k])])
NScale(a, q) == Number(QMul(a.v, q), [k \in Params |-> QMul(a.d[k], q)])
NSub(a, b) == NAdd(a, NScale(b, Q(-1)))
NMul(a, b) ==
    Number(QMul(a.v, b.v), [k \in Params |-> QAdd(QMul(a.d[k], b.v), QMul(a.v, b.d[k]))])
NSum(f, S) ==
    Number(QSum([i \in S |-> f[i].v], S), [k \in Params |-> QSum([i \in S |-> f[i].d[k]], S)])

\* A function with the value and slope given at a.
NFn(a, value, slope) == Number(value, [k \in Params |-> QMul(slope, a.d[k])])

\* Division as the code has it: by zero it gives zero.
NDiv(a, b) ==
    IF b.v = Zero THEN Const(Zero)
    ELSE LET q == QDiv(a.v, b.v)
         IN Number(q, [k \in Params |-> QDiv(QSub(a.d[k], QMul(q, b.d[k])), b.v)])

NExp(a) == LET own(e) == NFn(a, e, e) IN own(QFn("EXP", a.v))
NLog(a) == NFn(a, QFn("LOG", a.v), QDiv(One, a.v))
NSqrt(a) == LET r == Root(a.v) IN NFn(a, r, IF r = Zero THEN Zero ELSE QDiv(One, QMul(Q(2), r)))
NPositive(a) == QLess(Zero, a.v)
NAbs(a) == IF QLess(a.v, Zero) THEN NScale(a, Q(-1)) ELSE IF NPositive(a) THEN a ELSE Const(Zero)

NOne == Const(One)
NSigmoid(a) == NDiv(NOne, NAdd(NOne, NExp(NScale(a, Q(-1)))))
NAround(e) == NDiv(NSub(e, NOne), NAdd(e, NOne))
NTanh(a) == NAround(NExp(NScale(a, Q(2))))

\* tanh(log(1 + exp(a))).
NSquare(e) == NMul(e, e)
NTanhSoftplus(a) == NAround(NSquare(NAdd(NOne, NExp(a))))

----------------------------------------------------------------------------
(* Shapes *)

Size(shape) ==
    LET product[k \in 0 .. Len(shape)] == IF k = 0 THEN 1 ELSE product[k - 1] * shape[k]
    IN product[Len(shape)]

\* _tensor_compute_strides.
Strides(shape) ==
    Listed([k \in DOMAIN shape |-> Size(SubSeq(shape, k + 1, Len(shape)))])

\* The coordinates that the odometer of the loops has at element i, from 0.
Coordinates(shape, i) ==
    LET strides == Strides(shape)
    IN Listed([k \in DOMAIN shape |-> (i \div strides[k]) % shape[k]])

IntSum(f) ==
    LET over[k \in 0 .. Len(f)] == IF k = 0 THEN 0 ELSE over[k - 1] + f[k] IN over[Len(f)]

Offset(shape, at) ==
    LET strides == Strides(shape) IN IntSum([k \in DOMAIN shape |-> at[k] * strides[k]])

\* plant_tensor_create and the conversions of numbers: the elements of data.
Tensor(shape, data) == [shape |-> Listed(shape), data |-> Listed(data)]
Filled(shape, q) == Tensor(shape, [i \in 1 .. Size(shape) |-> Const(q)])
Elements(t) == DOMAIN t.data

----------------------------------------------------------------------------
(* Element by element *)

\* _pt_bcast_shape: shapes aligned at their ends, where 1 meets anything;
\* <<>> when they do not fit.
BroadcastShape(s, t) ==
    LET n == IF Len(s) > Len(t) THEN Len(s) ELSE Len(t)
        dim(u, k) == IF k <= n - Len(u) THEN 1 ELSE u[k - (n - Len(u))]
        larger(k) == IF dim(s, k) > dim(t, k) THEN dim(s, k) ELSE dim(t, k)
    IN IF \E k \in 1 .. n : dim(s, k) # dim(t, k) /\ dim(s, k) # 1 /\ dim(t, k) # 1 THEN <<>>
       ELSE [k \in 1 .. n |-> larger(k)]

\* plant_tensor_bc_index, counted from 1.
BroadcastIndex(shape, at) ==
    LET shift == Len(at) - Len(shape)
    IN 1 + Offset(shape, [k \in DOMAIN shape |-> IF shape[k] = 1 THEN 0 ELSE at[k + shift]])

\* The element of t that meets element i of a tensor of the given shape.
Meeting(t, shape, i) == t.data[BroadcastIndex(t.shape, Coordinates(shape, i - 1))]

BinaryOps == {"add", "sub", "mul", "div"}
NApply(op, x, y) ==
    CASE op = "add" -> NAdd(x, y) [] op = "sub" -> NSub(x, y)
      [] op = "mul" -> NMul(x, y) [] op = "div" -> NDiv(x, y)

\* _pt_ew. Its buffers hold the result's shape up to MaxAxes dimensions: with
\* more the program is undefined.
MaxAxes == 16
Overrun == [shape |-> <<>>, data |-> <<"overrun">>]
Elementwise(op, a, b) ==
    LET shape == BroadcastShape(a.shape, b.shape)
    IN IF Len(a.shape) > MaxAxes \/ Len(b.shape) > MaxAxes THEN Overrun
       ELSE IF shape = <<>> THEN Err
       ELSE Tensor(shape, [i \in 1 .. Size(shape) |->
                NApply(op, Meeting(a, shape, i), Meeting(b, shape, i))])

Scaled(a, q) == Tensor(a.shape, [i \in Elements(a) |-> NScale(a.data[i], q)])

\* The constants of the tanh form of GELU, which are 0.797... and 0.044...
GeluK == One
GeluC == One
GeluArgument(x) == NScale(NAdd(x, NScale(NMul(x, NMul(x, x)), GeluC)), GeluK)

Activations == {"relu", "sigmoid", "tanh", "gelu", "swish", "mish", "sqrt", "log", "exp", "abs"}
NActivate(f, x) ==
    CASE f = "relu" -> IF NPositive(x) THEN x ELSE Const(Zero)
      [] f = "sigmoid" -> NSigmoid(x)
      [] f = "tanh" -> NTanh(x)
      [] f = "gelu" -> NMul(NScale(x, <<1, 2>>), NAdd(NOne, NTanh(GeluArgument(x))))
      [] f = "swish" -> NDiv(x, NAdd(NOne, NExp(NScale(x, Q(-1)))))
      [] f = "mish" -> NMul(x, NTanhSoftplus(x))
      [] f = "sqrt" -> NSqrt(x)
      [] f = "log" -> NLog(x)
      [] f = "exp" -> NExp(x)
      [] f = "abs" -> NAbs(x)

\* sqrt and log refuse a tensor with an element outside their domain.
Refuses(f, x) ==
    \/ f = "sqrt" /\ QLess(x.v, Zero)
    \/ f = "log" /\ ~NPositive(x)

Activated(f, a) ==
    IF \E i \in Elements(a) : Refuses(f, a.data[i]) THEN Err
    ELSE Tensor(a.shape, [i \in Elements(a) |-> NActivate(f, a.data[i])])

\* plant_dropout_forward: the mask is a function of the seed, replayed by the
\* backward rule. Here the stream of a seed keeps every second element.
Dropped(seed, i) == (i + seed) % 2 = 0
Dropout(a, p, seed) ==
    IF QLess(p, Zero) \/ ~QLess(p, One) THEN Err
    ELSE Tensor(a.shape, [i \in Elements(a) |->
            IF p = Zero THEN a.data[i]
            ELSE IF Dropped(seed, i) THEN Const(Zero)
            ELSE NScale(a.data[i], QDiv(One, QSub(One, p)))])

----------------------------------------------------------------------------
(* Matrices, shapes and slices *)

MatMul(a, b) ==
    LET m == a.shape[1]  n == a.shape[2]  p == b.shape[2]
        term(i, j) == [k \in 1 .. n |-> NMul(a.data[(i - 1) * n + k], b.data[(k - 1) * p + j])]
    IN IF Len(a.shape) # 2 \/ Len(b.shape) # 2 THEN Err
       ELSE IF n # b.shape[1] THEN Err
       ELSE Tensor(<<m, p>>, [e \in 1 .. m * p |->
                NSum(term(1 + ((e - 1) \div p), 1 + ((e - 1) % p)), 1 .. n)])

Transposed(a) ==
    LET m == a.shape[1]  n == a.shape[2]
    IN IF Len(a.shape) # 2 THEN Err
       ELSE Tensor(<<n, m>>, [e \in 1 .. m * n |-> a.data[(((e - 1) % m) * n) + ((e - 1) \div m) + 1]])

Reshaped(a, shape) ==
    IF shape = <<>> \/ Size(shape) # Len(a.data) \/ \E k \in DOMAIN shape : shape[k] < 1 THEN Err
    ELSE Tensor(shape, a.data)

\* plant_tensor_slice: ranges are half-open pairs <<from, to>>.
Sliced(a, ranges) ==
    LET shape == [k \in DOMAIN ranges |-> ranges[k][2] - ranges[k][1]]
        source(i) == [k \in DOMAIN shape |-> ranges[k][1] + Coordinates(shape, i)[k]]
    IN IF Len(ranges) # Len(a.shape) THEN Err
       ELSE IF \E k \in DOMAIN ranges :
                 ranges[k][1] < 0 \/ ranges[k][2] > a.shape[k] \/ ranges[k][1] >= ranges[k][2]
            THEN Err
       ELSE Tensor(shape, [i \in 1 .. Size(shape) |-> a.data[1 + Offset(a.shape, source(i - 1))]])

\* plant_tensor_at: zero outside.
At(a, at) ==
    IF Len(at) # Len(a.shape) \/ \E k \in DOMAIN at : at[k] < 0 \/ at[k] >= a.shape[k]
    THEN Const(Zero) ELSE a.data[1 + Offset(a.shape, at)]

----------------------------------------------------------------------------
(* Reductions *)

Total(a) == NSum(a.data, Elements(a))
Mean(a) == NScale(Total(a), <<1, Len(a.data)>>)
Largest(a) == CHOOSE x \in {a.data[i].v : i \in Elements(a)} : \A i \in Elements(a) : ~QLess(x, a.data[i].v)

\* _axis_setup: the elements of one group around axis (counted from 0), and
\* the shape without it.
Without(shape, axis) ==
    LET rest == SubSeq(shape, 1, axis) \o SubSeq(shape, axis + 2, Len(shape))
    IN IF rest = <<>> THEN <<1>> ELSE rest
Inner(shape, axis) == Size(SubSeq(shape, axis + 2, Len(shape)))
Group(shape, axis, e) ==
    LET inner == Inner(shape, axis)
        red == shape[axis + 1]
    IN [r \in 1 .. red |-> 1 + (((((e - 1) \div inner) * red) + (r - 1)) * inner) + ((e - 1) % inner)]

NMean(f) == NScale(NSum(f, DOMAIN f), <<1, Len(f)>>)
NVariance(f) == NSub(NMean([r \in DOMAIN f |-> NSquare(f[r])]), NSquare(NMean(f)))

AxisOps == {"sum_axis", "mean_axis", "var_axis"}
Reduced(op, a, axis) ==
    LET shape == Without(a.shape, axis)
        group(e) == [r \in 1 .. a.shape[axis + 1] |-> a.data[Group(a.shape, axis, e)[r]]]
        value(f) == CASE op = "sum_axis" -> NSum(f, DOMAIN f)
                      [] op = "mean_axis" -> NMean(f)
                      [] op = "var_axis" -> NVariance(f)
    IN IF axis \notin 0 .. Len(a.shape) - 1 THEN Err
       ELSE Tensor(shape, [e \in 1 .. Size(shape) |-> value(group(e))])

\* plant_tensor_bcast_reduce: sums d down to a shape that broadcasts to its.
SummedTo(d, shape) ==
    Tensor(shape, [e \in 1 .. Size(shape) |->
        NSum(d.data, {i \in Elements(d) : BroadcastIndex(shape, Coordinates(d.shape, i - 1)) = e})])

\* plant_tensor_softmax: along the whole vector, the rows (axis 1) or the
\* columns of a matrix. Subtracting the largest element changes no value.
SliceOf(a, axis, e) ==
    IF Len(a.shape) = 1 THEN Elements(a)
    ELSE LET n == a.shape[2]
         IN {i \in Elements(a) : IF axis = 1 THEN (i - 1) \div n = (e - 1) \div n
                                             ELSE (i - 1) % n = (e - 1) % n}
Softmax(a, axis) ==
    LET over(exps) == [e \in Elements(a) |-> NDiv(exps[e], NSum(exps, SliceOf(a, axis, e)))]
    IN IF Len(a.shape) \notin 1 .. 2 THEN Err
       ELSE Tensor(a.shape, over(Listed([i \in Elements(a) |-> NExp(a.data[i])])))

----------------------------------------------------------------------------
(* Layers *)

\* The elements that share statistics with element e: its channel, or its row.
Channel(shape, i) == 1 + (((i - 1) \div Size(SubSeq(shape, 3, Len(shape)))) % shape[2])
Column(shape, i) == 1 + ((i - 1) % shape[Len(shape)])
FeatureOf(norm, shape, i) == IF norm = "batchnorm" THEN Channel(shape, i) ELSE Column(shape, i)
Sharing(norm, shape, e) ==
    LET f == shape[Len(shape)]
    IN {i \in 1 .. Size(shape) : IF norm = "batchnorm" THEN Channel(shape, i) = Channel(shape, e)
                                 ELSE (i - 1) \div f = (e - 1) \div f}

\* 1 / sqrt(variance + eps) and the normalised elements, as both directions
\* compute them.
MeanOver(f, S) == NScale(NSum(f, S), <<1, Cardinality(S)>>)
InverseDeviation(x, S, eps) ==
    LET squares == [i \in S |-> NSquare(x.data[i])]
        variance == NSub(MeanOver(squares, S), NSquare(MeanOver(x.data, S)))
    IN NDiv(NOne, NSqrt(NAdd(variance, Const(eps))))
Normal(x, S, eps) ==
    LET from(mean, inv) == [i \in S |-> NMul(NSub(x.data[i], mean), inv)]
    IN from(MeanOver(x.data, S), InverseDeviation(x, S, eps))

\* plant_batchnorm_forward and plant_layernorm_forward.
Normalized(norm, x, gamma, beta, eps) ==
    LET features == IF norm = "batchnorm" THEN x.shape[2] ELSE x.shape[Len(x.shape)]
        f(i) == FeatureOf(norm, x.shape, i)
    IN IF norm = "batchnorm" /\ Len(x.shape) \notin {2, 4} THEN Err
       ELSE IF Len(gamma.data) # features \/ Len(beta.data) # features THEN Err
       ELSE Tensor(x.shape, [i \in Elements(x) |->
                NAdd(NMul(gamma.data[f(i)], Normal(x, Sharing(norm, x.shape, i), eps)[i]), beta.data[f(i)])])

\* Fault variant: the padding does not shift the window.
TouchedUnshifted(x, k, out, stride, pad, e) ==
    LET o == Coordinates(out, e - 1)
        row(p) == o[3] * stride + p  col(p) == o[4] * stride + p
        inside == {t \in (0 .. k[2] - 1) \X (0 .. k[3] - 1) \X (0 .. k[4] - 1) :
                     row(t[2]) \in 0 .. x[3] - 1 /\ col(t[3]) \in 0 .. x[4] - 1}
    IN {<<1 + Offset(x, <<o[1], t[1], row(t[2]), col(t[3])>>),
          1 + Offset(k, <<o[2], t[1], t[2], t[3]>>)>> : t \in inside}

\* The pairs of elements of input and kernel that meet in output e.
Touched(x, k, out, stride, pad, e) ==
    LET o == Coordinates(out, e - 1)
        row(p) == o[3] * stride - pad + p  col(p) == o[4] * stride - pad + p
        inside == {t \in (0 .. k[2] - 1) \X (0 .. k[3] - 1) \X (0 .. k[4] - 1) :
                     row(t[2]) \in 0 .. x[3] - 1 /\ col(t[3]) \in 0 .. x[4] - 1}
    IN {<<1 + Offset(x, <<o[1], t[1], row(t[2]), col(t[3])>>),
          1 + Offset(k, <<o[2], t[1], t[2], t[3]>>)>> : t \in inside}

\* The quotient of C, rounded towards zero: a kernel larger than the padded
\* input by less than the stride still has one position.
Positions(free, stride) == 1 + (IF free < 0 THEN -((-free) \div stride) ELSE free \div stride)
ConvShape(x, k, stride, pad) ==
    <<x[1], k[1], Positions(x[3] + 2 * pad - k[3], stride), Positions(x[4] + 2 * pad - k[4], stride)>>

\* plant_conv2d_forward.
Conv2d(x, k, b, stride, pad) ==
    LET out == ConvShape(x.shape, k.shape, stride, pad)
        met(e) == Touched(x.shape, k.shape, out, stride, pad, e)
        bias(e) == b.data[1 + Coordinates(out, e - 1)[2]]
        product(S) == [t \in S |-> NMul(x.data[t[1]], k.data[t[2]])]
    IN IF Len(x.shape) # 4 \/ Len(k.shape) # 4 \/ stride < 1 \/ pad < 0 THEN Err
       ELSE IF k.shape[2] # x.shape[2] \/ b.shape # <<k.shape[1]>> THEN Err
       ELSE IF out[3] < 1 \/ out[4] < 1 THEN Err
       ELSE Tensor(out, [e \in 1 .. Size(out) |-> NAdd(bias(e), NSum(product(met(e)), met(e)))])
=============================================================================
