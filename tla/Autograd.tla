------------------------------ MODULE Autograd ------------------------------
(***************************************************************************)
(* Reverse-mode differentiation: runtime/c/plant_autograd.c (the tape of   *)
(* GRAD) and the tape hooks of plant_tensor.c, which also feed the frames  *)
(* of HigherOrder.                                                         *)
(*                                                                         *)
(* The engine is a record: heap, the tensors ever made, each with whether  *)
(* it requires a gradient and its reference count (0 once freed); tape,    *)
(* oldest node first; pseudo, the one-element tensors that stand for the   *)
(* result of a reduction; frames, the tapes of the second engine, bottom   *)
(* first, none when it is not initialised.                                 *)
(***************************************************************************)
EXTENDS Tensors

Live(s, i) == s.heap[i].refs > 0
Val(s, i) == s.heap[i].t
Tracked(s, i) == s.heap[i].req

\* References taken and given back, one per mention.
Counted(s, ids, by) ==
    LET upTo[k \in 0 .. Len(ids)] ==
            IF k = 0 THEN s ELSE [upTo[k - 1] EXCEPT !.heap[ids[k]].refs = @ + by]
    IN upTo[Len(ids)]
Retained(s, ids) == Counted(s, ids, 1)
Released(s, ids) == Counted(s, ids, -1)

\* A reference given back by the owner of each tensor of S.
GivenBack(s, S) ==
    [s EXCEPT !.heap = Listed([i \in DOMAIN s.heap |->
        IF i \in S THEN [s.heap[i] EXCEPT !.refs = @ - 1] ELSE s.heap[i]])]

\* A new tensor, whose creator has the one reference.
Made(s, t, req) == [s EXCEPT !.heap = Append(@, [t |-> t, req |-> req, refs |-> 1])]
Newest(s) == Len(s.heap)

----------------------------------------------------------------------------
(* Recording *)

Node(op, ins, par, out) == [op |-> op, ins |-> ins, par |-> par, out |-> out]
Reductions == {"sum", "mean"}
Norms == {"batchnorm", "layernorm"}

\* Fault variant: the tape borrows the tensors it names.
OnTapeBorrowed(s, op, ins, par, out) ==
    [s EXCEPT !.tape = Append(@, Node(op, ins, par, out))]

\* plant_tape_record and its variants: the tape takes its own reference on
\* every tensor it names.
OnTape(s, op, ins, par, out) ==
    Retained([s EXCEPT !.tape = Append(@, Node(op, ins, par, out))], Append(ins, out))

Recording(s) == s.frames # <<>> /\ ~s.frames[Len(s.frames)].frozen

\* a2_emit: a node of the top frame. Of a layer it names the first two inputs;
\* the pseudo tensor of a reduction is its own.
Emitted(s, op, ins, par, out, pseudo) ==
    LET named == SubSeq(ins, 1, IF Len(ins) < 2 THEN Len(ins) ELSE 2)
        top == Len(s.frames)
        node == Node(op, named, par, out)
    IN IF ~Recording(s) THEN s
       ELSE Retained([s EXCEPT !.frames[top].nodes = Append(@, node)],
                     IF pseudo THEN named ELSE Append(named, out))

\* The hooks, called for the result of an operation with a tracked input.
Hooked(s, op, ins, par, out) ==
    LET t == OnTape([s EXCEPT !.heap[out].req = TRUE], op, ins, par, out)
    IN Emitted(t, op, ins, par, out, FALSE)

\* The operations whose result is a tensor.
Operations ==
    BinaryOps \union Activations \union AxisOps \union Norms \union
        {"scale", "matmul", "transpose", "reshape", "softmax", "dropout", "conv2d"}

\* What an operation computes.
Computed(s, op, ins, par) ==
    LET a == Val(s, ins[1])
        b == Val(s, ins[2])
        c == Val(s, ins[3])
    IN CASE op \in BinaryOps -> Elementwise(op, a, b)
         [] op \in Activations -> Activated(op, a)
         [] op \in AxisOps -> Reduced(op, a, par)
         [] op \in Norms -> Normalized(op, a, b, c, par)
         [] op = "scale" -> Scaled(a, par)
         [] op = "matmul" -> MatMul(a, b)
         [] op = "transpose" -> Transposed(a)
         [] op = "reshape" -> Reshaped(a, par)
         [] op = "softmax" -> Softmax(a, par)
         [] op = "dropout" -> Dropout(a, par[1], par[2])
         [] op = "conv2d" -> Conv2d(a, b, c, par[1], par[2])

\* An operation: its result is the newest tensor, an error is not recorded.
Recorded(s, op, ins, par) ==
    IF Val(s, Newest(s)) # Err /\ \E k \in DOMAIN ins : Tracked(s, ins[k])
    THEN Hooked(s, op, ins, par, Newest(s)) ELSE s
Operated(s, op, ins, par) == Recorded(Made(s, Computed(s, op, ins, par), FALSE), op, ins, par)

\* TENSOR_SUM and TENSOR_MEAN return a number; each engine records them with a
\* pseudo tensor of its own.
Reduction(s, op, i) == IF op = "sum" THEN Total(Val(s, i)) ELSE Mean(Val(s, i))
AfterReduction(s, op, i) ==
    LET zero == Filled(<<1>>, Zero)
        par == Reduction(s, op, i).v
        first == Made(s, zero, FALSE)
        taped == OnTape([first EXCEPT !.pseudo = @ \union {Newest(first)}], op, <<i>>, par, Newest(first))
        second == Made(taped, zero, FALSE)
    IN IF ~Tracked(s, i) THEN s
       ELSE IF Recording(s) THEN Emitted(second, op, <<i>>, par, Newest(second), TRUE) ELSE taped

\* plant_tape_clear.
NamesOf(nodes) ==
    LET upTo[k \in 0 .. Len(nodes)] ==
            IF k = 0 THEN <<>> ELSE upTo[k - 1] \o Append(nodes[k].ins, nodes[k].out)
    IN upTo[Len(nodes)]
Cleared(s) ==
    [GivenBack(Released(s, NamesOf(s.tape)), s.pseudo) EXCEPT !.tape = <<>>, !.pseudo = {}]

----------------------------------------------------------------------------
(* Backward rules of the first engine *)

Each(shape, f) == Tensor(shape, [i \in 1 .. Size(shape) |-> f[i]])

\* The slope of an activation at x, whose value was y.
NSlope(f, x, y) ==
    LET less(v) == NSub(NOne, NSquare(v))
        gelu(t) ==
            LET du == NScale(NAdd(NOne, NScale(NSquare(x), QMul(Q(3), GeluC))), GeluK)
            IN NAdd(NScale(NAdd(NOne, t), <<1, 2>>), NMul(NScale(x, <<1, 2>>), NMul(less(t), du)))
        swish(v) == NAdd(v, NMul(x, NMul(v, NSub(NOne, v))))
        mish(t) == NAdd(t, NMul(x, NMul(less(t), NSigmoid(x))))
    IN CASE f = "relu" -> Const(IF NPositive(x) THEN One ELSE Zero)
         [] f = "sigmoid" -> NMul(y, NSub(NOne, y))
         [] f = "tanh" -> less(y)
         [] f = "gelu" -> gelu(NTanh(GeluArgument(x)))
         [] f = "swish" -> swish(NSigmoid(x))
         [] f = "mish" -> mish(NTanhSoftplus(x))
         [] f = "sqrt" -> NDiv(NOne, NScale(NSqrt(x), Q(2)))
         [] f = "log" -> NDiv(NOne, x)
         [] f = "exp" -> NExp(x)
         [] f = "abs" -> Const(IF NPositive(x) THEN One ELSE IF x.v = Zero THEN Zero ELSE Q(-1))

\* Fault variant: the gradient of a broadcast operand is not summed.
ReducedToFirst(d, shape) == Tensor(shape, SubSeq(d.data, 1, Size(shape)))

\* ag_acc_reduced: what an operand of the given shape gets of d.
ReducedTo(d, shape) == SummedTo(d, shape)

AxisBack(op, a, axis, d) ==
    LET groups == Without(a.shape, axis)
        red == a.shape[axis + 1]
        of(i) == CHOOSE e \in 1 .. Size(groups) : \E r \in 1 .. red : Group(a.shape, axis, e)[r] = i
        mean(e) == NMean([r \in 1 .. red |-> a.data[Group(a.shape, axis, e)[r]]])
        factor(i) == CASE op = "sum_axis" -> NOne
                       [] op = "mean_axis" -> Const(<<1, red>>)
                       [] op = "var_axis" -> NScale(NSub(a.data[i], mean(of(i))), Frac(2, red))
    IN Each(a.shape, [i \in Elements(a) |-> NMul(d.data[of(i)], factor(i))])

SoftmaxBack(y, axis, d) ==
    LET weighed == [i \in Elements(y) |-> NMul(y.data[i], d.data[i])]
    IN Each(y.shape, [i \in Elements(y) |->
            NMul(y.data[i], NSub(d.data[i], NSum(weighed, SliceOf(y, axis, i))))])

\* Of the input, of gamma and of beta.
NormBack(norm, x, gamma, beta, eps, d) ==
    LET f(i) == FeatureOf(norm, x.shape, i)
        S == Listed([i \in Elements(x) |-> Sharing(norm, x.shape, i)])
        hat == Listed([i \in Elements(x) |-> Normal(x, S[i], eps)[i]])
        dhat == Listed([i \in Elements(x) |-> NMul(d.data[i], gamma.data[f(i)])])
        both == Listed([i \in Elements(x) |-> NMul(dhat[i], hat[i])])
        n(i) == Q(Cardinality(S[i]))
        inner(i) == NSub(NSub(NScale(dhat[i], n(i)), NSum(dhat, S[i])), NMul(hat[i], NSum(both, S[i])))
        of(c) == {i \in Elements(x) : f(i) = c}
    IN << Each(x.shape, [i \in Elements(x) |->
                NMul(NScale(InverseDeviation(x, S[i], eps), QDiv(One, n(i))), inner(i))]),
          Each(gamma.shape, [c \in Elements(gamma) |->
                NSum([i \in Elements(x) |-> NMul(d.data[i], hat[i])], of(c))]),
          Each(beta.shape, [c \in Elements(beta) |-> NSum(d.data, of(c))]) >>

\* Of the input, of the kernel and of the bias.
ConvBack(x, k, b, stride, pad, d) ==
    LET met == {<<e, t>> : e \in Elements(d), t \in Elements(x) \X Elements(k)}
        touches == {m \in met : m[2] \in Touched(x.shape, k.shape, d.shape, stride, pad, m[1])}
        share(m) == d.data[m[1]]
    IN << Each(x.shape, [i \in Elements(x) |->
                LET S == {m \in touches : m[2][1] = i}
                IN NSum([m \in S |-> NMul(share(m), k.data[m[2][2]])], S)]),
          Each(k.shape, [i \in Elements(k) |->
                LET S == {m \in touches : m[2][2] = i}
                IN NSum([m \in S |-> NMul(share(m), x.data[m[2][1]])], S)]),
          Each(b.shape, [c \in Elements(b) |->
                NSum(d.data, {e \in Elements(d) : Coordinates(d.shape, e - 1)[2] = c - 1})]) >>

\* What each input of node n gets when its output has the gradient d.
Shares(s, n, d) ==
    LET a == Val(s, n.ins[1])
        b == Val(s, n.ins[2])
        c == Val(s, n.ins[3])
        y == Val(s, n.out)
        times(t, u) == Elementwise("mul", t, u)
        square == times(b, b)
    IN CASE n.op = "add" -> <<ReducedTo(d, a.shape), ReducedTo(d, b.shape)>>
         [] n.op = "sub" -> <<ReducedTo(d, a.shape), Scaled(ReducedTo(d, b.shape), Q(-1))>>
         [] n.op = "mul" -> <<ReducedTo(times(d, b), a.shape), ReducedTo(times(d, a), b.shape)>>
         [] n.op = "div" ->
                <<ReducedTo(Elementwise("div", d, b), a.shape),
                  ReducedTo(Elementwise("div", Scaled(times(d, a), Q(-1)), square), b.shape)>>
         [] n.op = "scale" -> <<Scaled(d, n.par)>>
         [] n.op = "sum" -> <<Each(a.shape, [i \in Elements(a) |-> d.data[1]])>>
         [] n.op = "mean" -> <<Each(a.shape, [i \in Elements(a) |-> NScale(d.data[1], <<1, Len(a.data)>>)])>>
         [] n.op \in AxisOps -> <<AxisBack(n.op, a, n.par, d)>>
         [] n.op \in Activations ->
                <<Each(a.shape, [i \in Elements(a) |-> NMul(d.data[i], NSlope(n.op, a.data[i], y.data[i]))])>>
         [] n.op = "matmul" -> <<MatMul(d, Transposed(b)), MatMul(Transposed(a), d)>>
         [] n.op = "transpose" -> <<Transposed(d)>>
         [] n.op = "reshape" -> <<Tensor(a.shape, d.data)>>
         [] n.op = "softmax" -> <<SoftmaxBack(y, n.par, d)>>
         [] n.op = "dropout" -> <<Dropout(d, n.par[1], n.par[2])>>
         [] n.op \in Norms -> NormBack(n.op, a, b, c, n.par, d)
         [] n.op = "conv2d" -> ConvBack(a, b, c, n.par[1], n.par[2], d)

\* The gradients g, a function on some of the tensors, with a share more.
Accumulated(g, i, share) ==
    [j \in DOMAIN g \union {i} |->
        IF j # i THEN g[j] ELSE IF i \in DOMAIN g THEN Elementwise("add", g[i], share) ELSE share]

\* The loop of plant_autograd_grad: every node with a gradient, newest first,
\* shares it out among its inputs.
SharedOut(g, n, shares) ==
    LET after[j \in 0 .. Len(n.ins)] ==
            IF j = 0 THEN g ELSE Accumulated(after[j - 1], n.ins[j], shares[j])
    IN after[Len(n.ins)]
PassedNode(s, g, n) == IF n.out \in DOMAIN g THEN SharedOut(g, n, Shares(s, n, g[n.out])) ELSE g
Propagated(s, start) ==
    LET count == Len(s.tape)
        after[k \in 0 .. count] ==
            IF k = 0 THEN start ELSE PassedNode(s, after[k - 1], s.tape[count + 1 - k])
    IN after[count]

\* plant_autograd_grad: the gradient, along tensor w, of the root of the tape,
\* which is the output of its last node; loss is the number it was given. The
\* result has the engine afterwards and either a tensor or an error.
Failed(s, why) == [engine |-> s, ok |-> FALSE, why |-> why]
Found(s, g, w, retain) ==
    IF w \notin DOMAIN g THEN Failed(Cleared(s), "w not in graph")
    ELSE [engine |-> Made(IF retain THEN s ELSE Cleared(s), g[w], FALSE), ok |-> TRUE, why |-> ""]
Differentiated(s, loss, w, retain) ==
    LET last == s.tape[Len(s.tape)]
        seed == Filled(Val(s, last.out).shape, One)
    IN IF ~Tracked(s, w) THEN Failed(Cleared(s), "w not tracked")
       ELSE IF s.tape = <<>> THEN Failed(s, "empty tape")
       ELSE IF retain /\ last.op \in Reductions /\ loss # last.par
            THEN Failed(Cleared(s), "loss does not match")
       ELSE Found(s, Propagated(s, [i \in {last.out} |-> seed]), w, retain)
=============================================================================
