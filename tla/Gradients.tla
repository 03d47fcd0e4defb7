----------------------------- MODULE Gradients -----------------------------
(***************************************************************************)
(* Programs on tensors under both engines. Tensor 1 is the parameter, the  *)
(* one tensor that the program tracks; a program computes with it, reduces *)
(* a result to a number, takes gradients of that number along the          *)
(* parameter with GRAD or GRAD_HO, computes on with the gradient, clears   *)
(* the tapes and lets tensors go, in any order.                            *)
(***************************************************************************)
EXTENDS HigherOrder

CONSTANTS
    Kits,       \* what a program may work with: leaves, calls, and bounds on
                \* its operations, its reductions and its drops and clears
    MaxPasses,  \* gradients of one program
    AnyShapes,  \* products and quotients of any shapes are trusted to GRAD_HO
    AnyLoss     \* a gradient may be asked of a number that is not the last recorded

\* The leaves and the inputs of a call are lists, and a call is of a built-in.
ASSUME KitsAssumption ==
    \A k \in Kits :
        /\ k.leaves \in Seq({k.leaves[i] : i \in DOMAIN k.leaves})
        /\ \A call \in k.calls : call.op \in Operations /\ call.ins \in Seq(Nat)

VARIABLES
    kit,     \* the leaves and the calls of this program
    s,       \* the engine
    held,    \* tensors the program has a reference to
    latest,  \* the result computed last, or the parameter
    known,   \* by engine, the tensors whose computation it still has
    loss,    \* the number reduced last, and whether each engine ends with it
    answer,  \* the last gradient, and what it should be
    used     \* operations, reductions, gradients, drops and clears so far

vars == <<kit, s, held, latest, known, loss, answer, used>>

W == 1
Leaves == DOMAIN kit.leaves
NoLoss == [num |-> Const(Zero), first |-> FALSE, second |-> FALSE, sure1 |-> FALSE, sure2 |-> FALSE]
NoAnswer == [claimed |-> FALSE, got |-> <<>>, want |-> <<>>]

Init ==
    /\ kit \in Kits
    /\ s = Initialised([heap |-> [i \in DOMAIN kit.leaves |-> [t |-> kit.leaves[i], req |-> i = W, refs |-> 1]],
                        tape |-> <<>>, pseudo |-> {}, frames |-> <<>>])
    /\ held = DOMAIN kit.leaves
    /\ latest = W
    /\ known = [first |-> DOMAIN kit.leaves, second |-> DOMAIN kit.leaves]
    /\ loss = NoLoss
    /\ answer = NoAnswer
    /\ used = [ops |-> 0, losses |-> 0, passes |-> 0, spare |-> 0]

\* The shapes for which the rules of GRAD_HO differentiate a product twice: a
\* quotient with a broadcast divisor loses its second derivative, and two
\* shapes of one size are taken for equal.
Handled(op, ins) ==
    LET a == Val(s, ins[1]).shape  b == Val(s, ins[2]).shape
    IN \/ AnyShapes
       \/ op \notin {"mul", "div"}
       \/ a = b
       \/ op = "mul" /\ Size(a) # Size(b)

\* One call of a built-in; 0 stands for the latest result.
Apply ==
    \E call \in kit.calls :
        LET ins == [k \in DOMAIN call.ins |-> IF call.ins[k] = 0 THEN latest ELSE call.ins[k]]
            new == Newest(s) + 1
            all(S) == \A k \in DOMAIN ins : ins[k] \in S
        IN /\ used.ops < kit.ops
           /\ all(held)
           /\ \E k \in DOMAIN ins : Tracked(s, ins[k])
           /\ s' = Operated(s, call.op, ins, call.par)
           /\ Val(s', new) # Err
           /\ held' = held \union {new}
           /\ latest' = new
           /\ known' = [first |-> known.first \union (IF all(known.first) THEN {new} ELSE {}),
                        second |-> known.second \union
                            (IF all(known.second) /\ Handled(call.op, ins) THEN {new} ELSE {})]
           /\ loss' = [loss EXCEPT !.first = FALSE, !.second = FALSE]
           /\ used' = [used EXCEPT !.ops = @ + 1]
           /\ UNCHANGED <<kit, answer>>

\* TENSOR_SUM and TENSOR_MEAN of the latest result.
Reduce(op) ==
    /\ used.losses < kit.losses
    /\ op \in kit.reductions
    /\ latest \in held
    /\ ~loss.first /\ ~loss.second
    /\ Tracked(s, latest)
    /\ s' = AfterReduction(s, op, latest)
    /\ loss' = [num |-> Reduction(s, op, latest), first |-> TRUE, second |-> Recording(s),
                sure1 |-> latest \in known.first, sure2 |-> latest \in known.second]
    /\ used' = [used EXCEPT !.losses = @ + 1]
    /\ UNCHANGED <<kit, held, latest, known, answer>>

Answered(result, id, claimed) ==
    [claimed |-> claimed /\ result.ok,
     got |-> IF result.ok THEN [k \in Params |-> Val(result.engine, id).data[k].v] ELSE <<>>,
     want |-> loss.num.d]

\* GRAD(loss, w) and GRAD(loss, w, 1).
Taking(result, id) ==
    /\ used.passes < MaxPasses
    /\ s' = result.engine
    /\ held' = IF result.ok THEN held \union {id} ELSE held
    /\ latest' = IF result.ok THEN id ELSE latest
    /\ used' = [used EXCEPT !.passes = @ + 1]
    /\ UNCHANGED kit

GradTaken(result, retain) ==
    /\ Taking(result, Newest(result.engine))
    /\ known' = IF retain /\ result.ok THEN known ELSE [known EXCEPT !.first = Leaves]
    /\ loss' = [loss EXCEPT !.first = retain /\ result.ok]
    /\ answer' = Answered(result, Newest(result.engine), loss.sure1)

\* The loss as the call reads it: a number of more than six digits that passed
\* through its text is no longer the tape's.
SixDigits(q) ==
    \E k \in 0 .. 5 : 10^k % q[2] = 0 /\ Magnitude(q[1]) < 10^6 \div (10^k \div q[2])
Readings(q) == IF IsNaN(q) \/ SixDigits(q) THEN {q} ELSE {q, NaN}

Grad(retain) ==
    /\ loss # NoLoss
    /\ loss.first \/ AnyLoss
    /\ \E read \in Readings(loss.num.v) :
          GradTaken(Differentiated(s, read, W, retain), retain)

\* GRAD_HO(loss, w). Its operations are recorded by both engines.
GradHoTaken(result) ==
    LET worked == Newest(result.engine) > Newest(s)
    IN /\ Taking(result, result.id)
       /\ known' = IF result.ok THEN [known EXCEPT !.second = @ \union {result.id}] ELSE known
       /\ loss' = IF worked THEN [loss EXCEPT !.first = FALSE, !.second = FALSE] ELSE loss
       /\ answer' = Answered(result, result.id, loss.sure2)
GradHo ==
    /\ loss # NoLoss
    /\ loss.second \/ AnyLoss
    /\ GradHoTaken(HigherDifferentiated(s, W))

\* TAPE_CLEAR().
TapeClear ==
    /\ s.tape # <<>>
    /\ used.spare < kit.spare
    /\ s' = ClearedBoth(s)
    /\ known' = [first |-> Leaves, second |-> Leaves]
    /\ loss' = NoLoss
    /\ used' = [used EXCEPT !.spare = @ + 1]
    /\ UNCHANGED <<kit, held, latest, answer>>

\* The end of a variable that named a result.
Drop ==
    \E i \in held \ Leaves :
        /\ used.spare < kit.spare
        /\ s' = Released(s, <<i>>)
        /\ held' = held \ {i}
        /\ used' = [used EXCEPT !.spare = @ + 1]
        /\ UNCHANGED <<kit, latest, known, loss, answer>>

Next == Apply \/ (\E op \in Reductions : Reduce(op)) \/ (\E r \in BOOLEAN : Grad(r)) \/ GradHo \/ TapeClear \/ Drop

Spec == Init /\ [][Next]_vars

----------------------------------------------------------------------------
(* Properties *)

\* A gradient that is claimed is the derivative of the number it was asked of, of
\* the first order and of the second, whatever was differentiated and cleared
\* before, and whichever engine is asked. Claimed are the gradients of the number
\* that the engine recorded last, when it still has every operation behind it;
\* of GRAD_HO, those whose products and quotients are Handled too.
GradientExact ==
    answer.claimed =>
        \A k \in Params : answer.got[k] = answer.want[k] \/ IsNaN(answer.got[k]) \/ IsNaN(answer.want[k])

\* No tensor is freed while the program, a tape node, a pseudo tensor or a
\* frame still has it: its references are at least its holders.
RefsCoverHolders ==
    LET one(p) == IF p THEN 1 ELSE 0
        inFrames[f \in 0 .. Len(s.frames)] ==
            IF f = 0 THEN NamesOf(s.tape) ELSE inFrames[f - 1] \o NamesOf(s.frames[f].nodes)
        names == inFrames[Len(s.frames)]
        uses[k \in 0 .. Len(names)] ==
            IF k = 0 THEN Listed([i \in DOMAIN s.heap |-> one(i \in held) + one(i \in s.pseudo)])
            ELSE [uses[k - 1] EXCEPT ![names[k]] = @ + 1]
        holders == uses[Len(names)]
    IN \A i \in DOMAIN s.heap : s.heap[i].refs >= holders[i]
=============================================================================
