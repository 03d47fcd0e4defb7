---------------------------- MODULE MCGradients ----------------------------
EXTENDS Gradients

Numbers(f) == [i \in DOMAIN f |-> Const(Q(f[i]))]
Leaf(shape, f) == Tensor(shape, Numbers(f))
Parameter(shape, f) ==
    Tensor(shape, [i \in DOMAIN f |-> [v |-> Q(f[i]), d |-> [k \in Params |-> IF k = i THEN One ELSE Zero]]])

Calls(names, pars, inputs) == [op : names, par : pars, ins : inputs]
Plain(names, inputs) == Calls(names, {Zero}, inputs)
Kit(leaves, calls, n, spare) ==
    [leaves |-> leaves, calls |-> calls, ops |-> n, losses |-> 2, reductions |-> {"sum"}, spare |-> spare]
Alone == {<<0>>}
With(n) == {<<0, i>> : i \in 1 .. n} \union {<<0, 0>>, <<2, 0>>}

\* Vectors, with broadcasting: every operation once.
Vectors == <<Parameter(<<2>>, <<1, -1>>), Leaf(<<2>>, <<2, 1>>), Leaf(<<2, 2>>, <<1, 2, -1, 1>>)>>
Curves == {"relu", "sigmoid", "tanh", "gelu", "swish", "mish"}
VectorKit ==
    Kit(Vectors,
        Plain(BinaryOps, With(3)) \union Plain(Curves \union {"exp", "abs"}, Alone) \union
        Calls({"scale"}, {Q(2)}, Alone) \union Calls({"softmax"}, {0}, Alone) \union
        Calls({"dropout"}, {<<<<1, 2>>, 0>>}, Alone), 1, 0)
MeanKit ==
    [Kit(Vectors, Plain({"mul"}, {<<0, 0>>}), 2, 1)
     EXCEPT !.reductions = Reductions]
PairKit ==
    Kit(Vectors, Plain({"mul", "sub"}, {<<0, 3>>}) \union Plain({"mul"}, {<<0, 0>>}) \union
                 Plain({"tanh"}, Alone) \union Calls({"softmax"}, {0}, Alone), 2, 0)
RootKit ==
    Kit(<<Parameter(<<2>>, <<1, 4>>), Leaf(<<2>>, <<2, 1>>)>>,
        Plain({"sqrt", "log", "exp"}, Alone) \union Plain({"div"}, {<<0, 2>>, <<2, 0>>}), 2, 0)
Matrices == <<Parameter(<<2, 1>>, <<1, 2>>), Leaf(<<1, 2>>, <<1, -1>>), Leaf(<<2, 2>>, <<1, 2, -1, 1>>)>>
MatrixKit ==
    Kit(Matrices,
        Plain({"mul", "matmul"}, {<<0, 2>>, <<2, 0>>, <<3, 0>>, <<0, 0>>}) \union
        Calls({"softmax"}, {0, 1}, Alone) \union Calls(AxisOps, {0, 1}, Alone), 1, 0)
MatrixPairKit ==
    Kit(Matrices,
        Plain({"matmul"}, {<<0, 2>>, <<3, 0>>}) \union Plain({"mul"}, {<<0, 0>>, <<3, 0>>}) \union
        Plain({"transpose"}, Alone) \union Calls({"reshape"}, {<<2>>}, Alone), 2, 0)

\* The parameter as kernel, as input and as bias of a convolution.
Squared == Plain({"mul"}, {<<0, 0>>})
Convs(ins) == Squared \union Calls({"conv2d"}, {<<1, 0>>, <<2, 1>>}, {ins})
ConvKits ==
    {Kit(<<Parameter(<<1, 1, 1, 2>>, <<1, 2>>), Leaf(<<1, 1, 2, 2>>, <<1, 2, 3, -1>>), Leaf(<<1>>, <<1>>)>>,
         Convs(<<2, 0, 3>>), 2, 0),
     Kit(<<Parameter(<<1, 1, 1, 2>>, <<1, 2>>), Leaf(<<2, 1, 1, 2>>, <<1, 2, 3, -1>>), Leaf(<<2>>, <<1, 0>>)>>,
         Convs(<<0, 2, 3>>), 2, 0),
     Kit(<<Parameter(<<2>>, <<1, 2>>), Leaf(<<1, 1, 1, 2>>, <<1, 2>>), Leaf(<<2, 1, 1, 1>>, <<3, -1>>)>>,
         Convs(<<2, 3, 0>>), 2, 0)}

\* And as input, scale and shift of a normalisation.
NormKits ==
    {Kit(<<Parameter(<<1, 2>>, <<1, 3>>), Leaf(<<2>>, <<2, 1>>), Leaf(<<2>>, <<1, -1>>)>>,
         Squared \union Calls({"layernorm"}, {Q(3)}, {<<0, 2, 3>>}), 2, 0),
     Kit(<<Parameter(<<2, 1>>, <<1, 3>>), Leaf(<<1>>, <<2>>), Leaf(<<1>>, <<1>>)>>,
         Squared \union Calls({"batchnorm"}, {Q(3)}, {<<0, 2, 3>>}), 2, 0),
     Kit(<<Parameter(<<2>>, <<1, 3>>), Leaf(<<2, 2>>, <<1, 3, 3, 1>>), Leaf(<<2>>, <<1, -1>>)>>,
         Squared \union Calls(Norms, {Q(3)}, {<<2, 0, 3>>, <<2, 3, 0>>}), 2, 0)}

AllKits == {VectorKit, MeanKit, PairKit, RootKit, MatrixKit, MatrixPairKit} \union ConvKits \union NormKits
=============================================================================
