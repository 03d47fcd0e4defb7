----------------------------- MODULE TensorLaws -----------------------------
(***************************************************************************)
(* Tensors from nested lists, and what the tensor built-ins owe to each    *)
(* other: every call of the instance is a state, and the laws say what its *)
(* result has to do with the elements of its arguments.                    *)
(***************************************************************************)
EXTENDS Tensors

CONSTANTS
    Dims,      \* the dimensions of the instance
    AnyLists   \* nested lists may be ragged

VARIABLE call

----------------------------------------------------------------------------
(* Tensors from lists *)

\* plant_tensor_from_list of a nested list, [items |-> its elements], whose
\* leaves are numbers; the shape is that of the first elements, and ragged
\* lists are refused level by level, starting one level down.
RECURSIVE ListShape(_), Ragged(_), Flattened(_)
List(f) == [items |-> f]
IsLeaf(l) == "v" \in DOMAIN l
ListShape(l) ==
    <<Len(l.items)>> \o
    (IF l.items = <<>> \/ IsLeaf(l.items[1]) THEN <<>> ELSE ListShape(l.items[1]))
Ragged(l) ==
    LET subs == {i \in DOMAIN l.items : ~IsLeaf(l.items[i])}
    IN \/ \E i, j \in subs : Len(l.items[i].items) # Len(l.items[j].items)
       \/ \E i \in subs : Ragged(l.items[i])
Flattened(l) ==
    LET upTo[k \in 0 .. Len(l.items)] ==
            IF k = 0 THEN <<>>
            ELSE upTo[k - 1] \o (IF IsLeaf(l.items[k]) THEN <<l.items[k]>> ELSE Flattened(l.items[k]))
    IN upTo[Len(l.items)]
FromList(l) ==
    LET shape == ListShape(l)
        subs == {i \in DOMAIN l.items : ~IsLeaf(l.items[i])}
    IN IF \E k \in DOMAIN shape : shape[k] = 0 THEN Err
       ELSE IF \E i \in subs : Ragged(l.items[i]) THEN Err
       ELSE Tensor(shape, Flattened(l))

----------------------------------------------------------------------------
(* The calls of the instance *)

Shapes == UNION {[1 .. n -> Dims] : n \in 1 .. 3}

\* A tensor whose elements differ.
Counting(shape) == Tensor(shape, [i \in 1 .. Size(shape) |-> Const(Q((i * i) - 3))])

\* The list that a program writes for a matrix, as rows of numbers.
Row(n, from) == List([i \in 1 .. n |-> Const(Q(from + i))])
RowLists == {List(f) : f \in UNION {[1 .. m -> {Row(n, from) : n, from \in 1 .. 3}] : m \in 1 .. 2}}
Even(l) == \A i, j \in DOMAIN l.items : Len(l.items[i].items) = Len(l.items[j].items)

Windows == [x : {<<1, 1, h, w>> : h, w \in 1 .. 3}, k : {<<2, 1, h, w>> : h, w \in 1 .. 2},
            stride : 1 .. 2, pad : 0 .. 1]

Calls ==
    [law : {"broadcast"}, a : Shapes, b : Shapes]
        \union [law : {"axis"}, a : Shapes]
        \union {[law |-> "window", w |-> w] : w \in Windows}
        \union {[law |-> "list", l |-> l] : l \in {l \in RowLists : AnyLists \/ Even(l)}}

Init == call \in Calls
Spec == Init /\ [][UNCHANGED call]_call

----------------------------------------------------------------------------
(* The laws *)

Inner2(s, t) == Total(Elementwise("mul", s, t)).v

\* A broadcast operation and the reduction of its gradient are adjoint, a
\* broadcast does not depend on the order of its operands, and an operand that
\* fits every position is not changed.
BroadcastLaw(s, t) ==
    LET a == Counting(s)  b == Counting(t)  shape == BroadcastShape(s, t)
        d == Counting(shape)
    IN /\ shape = BroadcastShape(t, s)
       /\ shape = <<>> \/ Elementwise("add", a, b) = Elementwise("add", b, a)
       /\ shape = <<>> \/ Inner2(SummedTo(d, s), a) = Inner2(d, Elementwise("sub", a, Filled(shape, Zero)))
       /\ shape = s => SummedTo(d, s) = d

\* The odometer of the loops visits every element once, in storage order; a
\* slice has the elements of its window; the sums along each axis add up to
\* the sum.
AxisLaw(s) ==
    LET a == Counting(s)  n == Size(s)
        at(i) == Coordinates(s, i - 1)
        last(i) == Sliced(a, [k \in DOMAIN s |-> <<at(i)[k], s[k]>>])
    IN /\ \A i \in 1 .. n : At(a, at(i)) = a.data[i] /\ last(i).data[1] = a.data[i]
       /\ \A i \in 1 .. n : Len(last(i).data) = Size(last(i).shape)
       /\ \A axis \in 0 .. Len(s) - 1 :
            /\ Total(Reduced("sum_axis", a, axis)) = Total(a)
            /\ Mean(Reduced("mean_axis", a, axis)) = Mean(a)
       /\ Len(s) = 2 => Transposed(Transposed(a)) = a
       /\ Reshaped(a, <<n>>) = Tensor(<<n>>, a.data)
       /\ Reshaped(a, <<n + 1>>) = Err
       /\ \A i \in 1 .. n : ~QLess(Largest(a), a.data[i].v)

\* Each output of a convolution is the bias and the sum, over the kernel, of
\* the input at that place, with zeros around it. The code refuses a kernel that
\* exceeds the padded input by the stride or more, on either axis; one that
\* exceeds it by less has one output, for C rounds the quotient towards zero.
WindowLaw(w) ==
    LET x == Counting(w.x)  k == Counting(w.k)
        bias == Tensor(<<2>>, <<NOne, Const(Q(-2))>>)
        y == Conv2d(x, k, bias, w.stride, w.pad)
        excess(axis) == w.k[axis] - (w.x[axis] + (2 * w.pad))
        taps == (0 .. w.k[3] - 1) \X (0 .. w.k[4] - 1)
        met(o, t) == NMul(At(x, <<o[1], 0, (o[3] * w.stride) - w.pad + t[1], (o[4] * w.stride) - w.pad + t[2]>>),
                          At(k, <<o[2], 0, t[1], t[2]>>))
        direct(o) == NAdd(bias.data[1 + o[2]], NSum([t \in taps |-> met(o, t)], taps))
    IN /\ (y = Err) = (\E axis \in 3 .. 4 : excess(axis) >= w.stride)
       /\ \A e \in Elements(y) : y.data[e] = direct(Coordinates(y.shape, e - 1))

\* What docs/CONV2D_RECIPE.md:76-77 says: a kernel larger than the padded input is
\* rejected. It holds for stride 1 only.
KernelsFit ==
    call.law = "window" =>
        LET w == call.w
        IN (\E axis \in 3 .. 4 : w.k[axis] > w.x[axis] + (2 * w.pad))
              => Conv2d(Counting(w.x), Counting(w.k), Tensor(<<2>>, <<NOne, NOne>>), w.stride, w.pad) = Err

\* A list that is accepted fills its tensor, in order.
ListLaw(l) ==
    LET t == FromList(l)
    IN t # Err =>
        /\ Size(t.shape) = Len(t.data)
        /\ \A i \in DOMAIN l.items : \A j \in DOMAIN l.items[i].items :
             At(t, <<i - 1, j - 1>>) = l.items[i].items[j]

\* The operations agree on where the elements of a tensor are: broadcasts, axes,
\* windows and nested lists.
TensorsAgree ==
    CASE call.law = "broadcast" -> BroadcastLaw(call.a, call.b)
      [] call.law = "axis" -> AxisLaw(call.a)
      [] call.law = "window" -> WindowLaw(call.w)
      [] call.law = "list" -> ListLaw(call.l)
=============================================================================
