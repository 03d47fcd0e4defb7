---------------------------- MODULE HigherOrder ----------------------------
(***************************************************************************)
(* runtime/c/plant_ad2.c: the second engine, behind GRAD_HO. Its backward  *)
(* pass is made of recorded operations, so that a gradient can be          *)
(* differentiated again. An operation on tensors of which none is tracked  *)
(* is not recorded; those of LocalOps always are, but their results are    *)
(* not tracked.                                                            *)
(***************************************************************************)
EXTENDS Autograd

Frame(level) == [nodes |-> <<>>, level |-> level, frozen |-> FALSE]

\* plant_ad2_init, in the programs that use GRAD_HO.
Initialised(s) == [s EXCEPT !.frames = <<Frame(0)>>]

LocalOps == {"bcast", "axis_sum", "keep_sum"}
Helpers == LocalOps \union {"ones", "mask", "like"}

\* What a helper makes of t, for the tensor like.
KeptShape(shape, axis) ==
    IF Len(shape) = 1 THEN <<1>> ELSE IF axis = 1 THEN <<shape[1], 1>> ELSE <<1, shape[2]>>
Helped(op, t, like, par) ==
    CASE op = "bcast" -> Each(like.shape, [i \in 1 .. Size(like.shape) |-> Meeting(t, like.shape, i)])
      [] op = "axis_sum" -> SummedTo(t, like.shape)
      [] op = "keep_sum" -> SummedTo(t, KeptShape(t.shape, par))
      [] op = "ones" -> Filled(t.shape, One)
      [] op = "mask" -> Each(t.shape, [i \in Elements(t) |-> Const(IF NPositive(t.data[i]) THEN One ELSE Zero)])

----------------------------------------------------------------------------
(* Backward rules. A rule is a list of steps: a step names what it makes,  *)
(* from earlier names, d the gradient of the output y, and the inputs a    *)
(* and b; a step with to = k adds what it makes to the gradient of input   *)
(* k. The intermediates are let go at the end of the rule (a2_release).    *)

Step(name, op, ins) == [name |-> name, op |-> op, ins |-> ins, par |-> Zero, to |-> 0]
StepBy(name, op, ins, par) == [name |-> name, op |-> op, ins |-> ins, par |-> par, to |-> 0]
Give(k, op, ins) == [name |-> "given", op |-> op, ins |-> ins, par |-> Zero, to |-> k]
GiveBy(k, op, ins, par) == [name |-> "given", op |-> op, ins |-> ins, par |-> par, to |-> k]

\* 1 - f * f and its use for a function of one tensor.
Slope(make) == make \o <<Give(1, "mul", <<"d", "slope">>)>>

MulRule(same) ==
    IF same THEN <<Give(1, "mul", <<"d", "b">>), Give(2, "mul", <<"d", "a">>)>>
    ELSE << Step("bb", "bcast", <<"b", "d">>), Step("ba", "bcast", <<"a", "d">>),
            Step("da", "mul", <<"d", "bb">>), Step("db", "mul", <<"d", "ba">>),
            Give(1, "axis_sum", <<"da", "a">>), Give(2, "axis_sum", <<"db", "b">>) >>

DivRule(same) ==
    IF same
    THEN << Give(1, "div", <<"d", "b">>), Step("t1", "mul", <<"d", "a">>), Step("t2", "mul", <<"b", "b">>),
            Step("t3", "div", <<"t1", "t2">>), GiveBy(2, "scale", <<"t3">>, Q(-1)) >>
    ELSE << Step("bb", "bcast", <<"b", "d">>), Step("ba", "bcast", <<"a", "d">>),
            Step("da", "div", <<"d", "bb">>), Step("num", "mul", <<"d", "ba">>),
            Step("bb2", "mul", <<"bb", "bb">>), Step("db", "div", <<"num", "bb2">>),
            Give(1, "axis_sum", <<"da", "a">>), StepBy("neg", "scale", <<"db">>, Q(-1)),
            Give(2, "axis_sum", <<"neg", "b">>) >>

SoftmaxRule(axis) ==
    << Step("od", "mul", <<"y", "d">>), StepBy("sod", "keep_sum", <<"od", "y">>, axis),
       Step("bc", "bcast", <<"sod", "y">>), Step("dm", "sub", <<"d", "bc">>),
       Give(1, "mul", <<"y", "dm">>) >>

GeluRule ==
    << Step("sq", "mul", <<"a", "a">>), Step("cu", "mul", <<"sq", "a">>),
       StepBy("sc", "scale", <<"cu">>, GeluC), Step("ad", "add", <<"a", "sc">>),
       StepBy("u", "scale", <<"ad">>, GeluK), Step("th", "tanh", <<"u">>), Step("one", "ones", <<"th", "th">>),
       StepBy("s3", "scale", <<"sq">>, QMul(Q(3), GeluC)), Step("a1", "add", <<"one", "s3">>),
       StepBy("du", "scale", <<"a1">>, GeluK), Step("t1", "add", <<"one", "th">>),
       StepBy("h1", "scale", <<"t1">>, <<1, 2>>), Step("th2", "mul", <<"th", "th">>),
       Step("om", "sub", <<"one", "th2">>), Step("od", "mul", <<"om", "du">>),
       StepBy("ha", "scale", <<"a">>, <<1, 2>>), Step("t2", "mul", <<"ha", "od">>),
       Step("slope", "add", <<"h1", "t2">>) >>

MishRule ==
    << Step("t", "div", <<"y", "a">>), Step("sg", "sigmoid", <<"a">>), Step("t2", "mul", <<"t", "t">>),
       Step("one", "ones", <<"t", "t">>), Step("om", "sub", <<"one", "t2">>), Step("os", "mul", <<"om", "sg">>),
       Step("term", "mul", <<"a", "os">>), Step("slope", "add", <<"t", "term">>) >>

\* The operations without a rule, which GRAD_HO refuses.
Unsupported == {"conv2d", "dropout", "sqrt", "log", "exp", "abs"} \union Norms \union AxisOps
HasZero(t) == \E i \in Elements(t) : t.data[i].v = Zero
Refused(s, n) == n.op \in Unsupported \/ (n.op = "div" /\ HasZero(Val(s, n.ins[2])))

Rule(s, n) ==
    LET a == Val(s, n.ins[1])
        same == Len(a.data) = Len(Val(s, n.ins[2]).data)
        one == Step("one", "ones", <<"y", "y">>)
    IN CASE n.op = "add" -> <<Give(1, "axis_sum", <<"d", "a">>), Give(2, "axis_sum", <<"d", "b">>)>>
         [] n.op = "sub" -> <<StepBy("neg", "scale", <<"d">>, Q(-1)), Give(1, "axis_sum", <<"d", "a">>),
                              Give(2, "axis_sum", <<"neg", "b">>)>>
         [] n.op = "mul" -> MulRule(same)
         [] n.op = "div" -> DivRule(same)
         [] n.op = "scale" -> <<GiveBy(1, "scale", <<"d">>, n.par)>>
         [] n.op \in {"sum", "axis_sum", "keep_sum"} -> <<Give(1, "bcast", <<"d", "a">>)>>
         [] n.op = "bcast" -> <<Give(1, "axis_sum", <<"d", "a">>)>>
         [] n.op = "mean" -> <<Step("lost", "bcast", <<"d", "a">>),
                               GiveBy(1, "scale", <<"lost">>, <<1, Len(a.data)>>)>>
         [] n.op = "transpose" -> <<Give(1, "transpose", <<"d">>)>>
         [] n.op = "reshape" -> <<GiveBy(1, "reshape", <<"d">>, a.shape)>>
         [] n.op = "matmul" -> <<Step("tb", "transpose", <<"b">>), Step("ta", "transpose", <<"a">>),
                                 Step("da_c", "matmul", <<"d", "tb">>), Step("db_c", "matmul", <<"ta", "d">>),
                                 Give(1, "pass", <<"da_c">>), Give(2, "pass", <<"db_c">>)>>
         [] n.op = "relu" -> Slope(<<Step("slope", "mask", <<"a", "a">>)>>)
         [] n.op = "sigmoid" -> Slope(<<one, Step("om", "sub", <<"one", "y">>), Step("slope", "mul", <<"y", "om">>)>>)
         [] n.op = "tanh" -> Slope(<<one, Step("sq", "mul", <<"y", "y">>), Step("slope", "sub", <<"one", "sq">>)>>)
         [] n.op = "softmax" -> SoftmaxRule(n.par)
         [] n.op = "swish" -> Slope(<<Step("sg", "sigmoid", <<"a">>), Step("one", "ones", <<"sg", "sg">>),
                                      Step("om", "sub", <<"one", "sg">>), Step("inner", "mul", <<"sg", "om">>),
                                      Step("term", "mul", <<"a", "inner">>), Step("slope", "add", <<"sg", "term">>)>>)
         [] n.op = "gelu" -> Slope(GeluRule)
         [] n.op = "mish" -> Slope(MishRule)

----------------------------------------------------------------------------
(* A backward pass. Its state p has the engine s, the gradients g of some  *)
(* tensors (grad_map) and the names of the rule under way.                 *)

\* What a rule makes without a2_k: shares, and the broadcast of MEAN, which
\* nothing frees.
Unkept == {"given", "da_c", "db_c", "lost"}

HelpedBy(s, step, ids) ==
    LET local(made) == IF step.op \in LocalOps
                       THEN Emitted(made, step.op, <<ids[1]>>, step.par, Newest(made), FALSE) ELSE made
    IN local(Made(s, Helped(step.op, Val(s, ids[1]), Val(s, ids[2]), step.par), FALSE))
MadeBy(s, step, ids) ==
    IF step.op \in Helpers THEN HelpedBy(s, step, ids) ELSE Operated(s, step.op, ids, step.par)

\* What the step makes is the newest tensor.
NamedBy(p, t, step) ==
    [p EXCEPT !.s = t,
              !.names = [x \in DOMAIN @ \union {step.name} |-> IF x = step.name THEN Newest(t) ELSE @[x]],
              !.kept = IF step.name \in Unkept THEN @ ELSE Append(@, Newest(t))]
Taken(p, step) ==
    NamedBy(p, MadeBy(p.s, step, [k \in DOMAIN step.ins |-> p.names[step.ins[k]]]), step)

\* gm_set: the map owns what it has.
MapSet(p, i, id) ==
    [p EXCEPT !.s = IF i \in DOMAIN p.g THEN Released(@, <<p.g[i]>>) ELSE @,
              !.g = [j \in DOMAIN @ \union {i} |-> IF j = i THEN id ELSE @[j]]]

\* a2_acc, which owns the share. It tracks the old gradient, so that the sum
\* is recorded.
WithGradient(p, i) ==
    LET zeros == Made(p.s, Filled(Val(p.s, i).shape, Zero), FALSE)
    IN IF i \in DOMAIN p.g THEN p ELSE MapSet([p EXCEPT !.s = zeros], i, Newest(zeros))
SumKept(p, i, share, sum) ==
    IF Val(sum, Newest(sum)) = Err THEN [p EXCEPT !.s = Released(sum, <<share, Newest(sum)>>)]
    ELSE MapSet([p EXCEPT !.s = Released(sum, <<share>>)], i, Newest(sum))
AddedOnTape(p, i, share) ==
    SumKept(p, i, share, Operated([p.s EXCEPT !.heap[p.g[i]].req = TRUE], "add", <<p.g[i], share>>, Zero))
AccumulatedOnTape(p, i, share) ==
    IF Val(p.s, share) = Err THEN [p EXCEPT !.s = Released(p.s, <<share>>)]
    ELSE AddedOnTape(WithGradient(p, i), i, share)

\* One step of the rule of node n.
Handed(p, n, step, share) ==
    IF step.to = 0 THEN p ELSE AccumulatedOnTape(p, n.ins[step.to], share)
Performed(p, n, step) ==
    LET own(t) == Handed(t, n, step, Newest(t.s))
    IN IF step.op = "pass" THEN Handed(p, n, step, p.names[step.ins[1]]) ELSE own(Taken(p, step))

\* a2_backprop_nodes for node n.
Followed(start, n, rule) ==
    LET after[k \in 0 .. Len(rule)] == IF k = 0 THEN start ELSE Performed(after[k - 1], n, rule[k])
    IN after[Len(rule)]
LetGo(p) == [p EXCEPT !.s = Released(@, p.kept), !.kept = <<>>]
NodeBack(p, n) ==
    LET second == IF Len(n.ins) = 2 THEN n.ins[2] ELSE n.ins[1]
        start == [p EXCEPT !.names = [x \in {"a", "b", "d", "y"} |->
                    CASE x = "a" -> n.ins[1] [] x = "b" -> second
                      [] x = "d" -> p.g[n.out] [] x = "y" -> n.out]]
    IN IF ~p.ok \/ n.out \notin DOMAIN p.g THEN p
       ELSE IF Refused(p.s, n) THEN [p EXCEPT !.ok = FALSE]
       ELSE LetGo(Followed(start, n, Rule(p.s, n)))

FrameBack(p, f) ==
    LET nodes == p.s.frames[f].nodes
        n == Len(nodes)
        after[k \in 0 .. n] == IF k = 0 THEN p ELSE NodeBack(after[k - 1], nodes[n + 1 - k])
    IN IF ~p.ok THEN p ELSE [after[n] EXCEPT !.s.frames[f].frozen = TRUE]

\* The gradients recorded in a frame depend on the tensors of the older ones.
FramesBack(p, top) ==
    LET after[k \in 0 .. top] == IF k = 0 THEN p ELSE FrameBack(after[k - 1], top + 1 - k)
    IN after[top]

GradsFreed(p) == GivenBack(p.s, {p.g[i] : i \in DOMAIN p.g})

\* plant_ad2_grad. The answer is the tensor the map has for w, or zeros.
AnswerOf(p, w) ==
    LET zeros == Made(GradsFreed(p), Filled(Val(p.s, w).shape, Zero), FALSE)
    IN IF ~p.ok THEN Failed(GradsFreed(p), "unsupported")
       ELSE IF w \notin DOMAIN p.g THEN [engine |-> zeros, ok |-> TRUE, why |-> "", id |-> Newest(zeros)]
       ELSE [engine |-> GradsFreed([p EXCEPT !.s = Retained(@, <<p.g[w]>>)]), ok |-> TRUE, why |-> "", id |-> p.g[w]]
Seeded(s, root) ==
    [s |-> s, g |-> [i \in {root} |-> Newest(s)], ok |-> TRUE, names |-> [x \in {} |-> 0], kept |-> <<>>]
HigherDifferentiated(s, w) ==
    LET top == Len(s.frames)
        root == s.frames[top].nodes[Len(s.frames[top].nodes)].out
        pushed == [s EXCEPT !.frames = Append([@ EXCEPT ![top].frozen = TRUE], Frame(s.frames[top].level + 1))]
        seed == Filled(Val(s, root).shape, One)
    IN IF ~Tracked(s, w) THEN Failed(s, "w requires_grad=0")
       ELSE IF s.frames = <<>> THEN Failed(s, "not initialized")
       ELSE IF s.frames[top].level >= 2 THEN Failed(s, "3rd+ derivatives unsupported")
       ELSE IF s.frames[top].nodes = <<>> THEN Failed(s, "empty tape")
       ELSE AnswerOf(FramesBack(Seeded(Made(pushed, seed, FALSE), root), top), w)

\* plant_tape_clear_both: the frames go and no new one is pushed.
ClearedBoth(s) ==
    LET t == Cleared(s)
        names(f) == NamesOf(s.frames[f].nodes)
        over[f \in 0 .. Len(s.frames)] == IF f = 0 THEN t ELSE Released(over[f - 1], names(f))
    IN [over[Len(s.frames)] EXCEPT !.frames = <<>>]
=============================================================================
