------------------------------- MODULE MCData -------------------------------
(***************************************************************************)
(* The data built-ins of the runtime, each on its own: a behaviour runs    *)
(* one part, chosen at the start. The distributed heap runs on one ring; a *)
(* container is used; lists, matrices and tensors are calls without a      *)
(* state. The objects of the heap are interchangeable.                     *)
(***************************************************************************)
EXTENDS DistHeap, Collections, Lists, TLC

CONSTANTS
    MaxDim,                           \* of LinAlg
    Dims, AnyLists                    \* of TensorLaws

VARIABLES part, args, call

Q(n) == <<n, 1>>
MatrixEntries == {Q(-1), Q(0), Q(2)}
MatrixRows ==
    {[i \in 1 .. 3 |-> Q(row[i])] : row \in {<<0, 0, 0>>, <<0, 1, 2>>, <<1, 2, 0>>, <<2, 4, 0>>, <<3, -1, 1>>,
                                             <<0, 0, 2>>, <<-1, 2, 1>>}}

Matrices1 == INSTANCE LinAlg WITH Entries <- MatrixEntries, Rows3 <- MatrixRows
Tensors1 == INSTANCE TensorLaws WITH NParams <- 1

ListTexts == {<<"n", 1>>, <<"n", 2>>, <<"s", 0>>, <<"s", 1>>}

MCSymmetry == Permutations(Obj)
OneRing == [p \in Node \X (0 .. Vpts - 1) |-> (2 * p[1] + 3 * p[2]) % 5]
callVars == <<in, args, call>>

\* One initial state of the parts that do not run.
Idle == [call |-> "none"]
Calls(of, set, x) == IF part = of THEN x \in set ELSE x = Idle

MCInit ==
    /\ part \in {"heap", "containers", "lists", "matrices", "tensors"}
    /\ DistInit /\ points = OneRing
    /\ CollInit
    /\ part # "containers" => kind = "stack" /\ \A v \in Values : hash[v] = 0
    /\ Calls("lists", ListCalls, in)
    /\ Calls("matrices", Matrices1!MatrixArgs, args)
    /\ Calls("tensors", Tensors1!Calls, call)

MCNext ==
    /\ UNCHANGED <<part, callVars>>
    /\ \/ part = "heap" /\ DistNext /\ UNCHANGED collVars
       \/ part = "containers" /\ CollNext /\ UNCHANGED <<vars, distVars>>

MCSpec == MCInit /\ [][MCNext]_<<part, vars, distVars, collVars, callVars>>

----------------------------------------------------------------------------

\* The linear algebra built-ins obey the laws of matrices.
LinearAlgebraSound == part = "matrices" => Matrices1!LinearAlgebraSound

\* The tensor built-ins agree on where elements are.
TensorsAgree == part = "tensors" => Tensors1!TensorsAgree

\* A kernel larger than the padded input is rejected, as the recipe says.
KernelsFit == part = "tensors" => Tensors1!KernelsFit
=============================================================================
