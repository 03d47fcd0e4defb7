-------------------------- MODULE Gradients_proofs --------------------------
(***************************************************************************)
(* Proofs about the two differentiation engines: every operation, backward *)
(* pass and clear of Gradients leaves each tensor with at least as many    *)
(* references as it has holders, for every program, every tensor and any   *)
(* arithmetic.                                                             *)
(*                                                                         *)
(* The argument is about the spare references of a tensor, those that no   *)
(* tape node, pseudo tensor or frame accounts for. An operation takes none *)
(* from any tensor and gives its result one; the rules of the second       *)
(* engine own what they make until they let it go.                         *)
(***************************************************************************)
EXTENDS Gradients, ProofLemmas

----------------------------------------------------------------------------
(* Sequences of anything *)

IsSeq(q) == q \in Seq({q[k] : k \in DOMAIN q})

LEMMA SeqFacts ==
    ASSUME NEW q, IsSeq(q)
    PROVE  /\ Len(q) \in Nat /\ DOMAIN q = 1 .. Len(q)
           /\ q = [k \in 1 .. Len(q) |-> q[k]]
           /\ q = <<>> <=> Len(q) = 0
  <1> DEFINE S == {q[k] : k \in DOMAIN q}
  <1>1. q \in Seq(S)
    BY DEF IsSeq
  <1> HIDE DEF S
  <1>2. Len(q) \in Nat /\ q \in [1 .. Len(q) -> S] /\ DOMAIN q = 1 .. Len(q)
    BY <1>1, LenProperties
  <1>3. q = <<>> <=> Len(q) = 0
    BY <1>1, EmptySeq
  <1> QED BY <1>2, <1>3

LEMMA SeqOver ==
    ASSUME NEW S, NEW q \in Seq(S)
    PROVE  IsSeq(q)
  <1> DEFINE T == {q[k] : k \in DOMAIN q}
  <1>1. Len(q) \in Nat /\ DOMAIN q = 1 .. Len(q) /\ q = [k \in 1 .. Len(q) |-> q[k]]
    BY LenProperties
  <1>2. \A k \in 1 .. Len(q) : q[k] \in T
    BY <1>1
  <1>3. q \in [1 .. Len(q) -> T]
    <2> HIDE DEF T
    <2> QED BY <1>1, <1>2
  <1> HIDE DEF T
  <1>4. q \in Seq(T)
    BY <1>1, <1>3
  <1> QED BY <1>4 DEF IsSeq, T

LEMMA FunctionSeq ==
    ASSUME NEW n \in Nat, NEW q, q = [k \in 1 .. n |-> q[k]]
    PROVE  IsSeq(q) /\ Len(q) = n /\ DOMAIN q = 1 .. n
  <1> DEFINE S == {q[k] : k \in 1 .. n}
  <1>1. \A k \in 1 .. n : q[k] \in S
    OBVIOUS
  <1>2. q \in [1 .. n -> S]
    <2> HIDE DEF S
    <2> QED BY <1>1
  <1>3. q \in Seq(S) /\ Len(q) = n
    <2> HIDE DEF S
    <2> QED BY <1>2
  <1> HIDE DEF S
  <1> QED BY <1>2, <1>3, SeqOver

LEMMA SeqAppend ==
    ASSUME NEW q, IsSeq(q), NEW x
    PROVE  /\ IsSeq(Append(q, x)) /\ Len(Append(q, x)) = Len(q) + 1
           /\ \A k \in 1 .. Len(q) : Append(q, x)[k] = q[k]
           /\ Append(q, x)[Len(q) + 1] = x
  <1> DEFINE S == {q[k] : k \in DOMAIN q} \union {x}
  <1>1. Len(q) \in Nat /\ DOMAIN q = 1 .. Len(q) /\ q = [k \in 1 .. Len(q) |-> q[k]]
    BY SeqFacts
  <1>2. x \in S /\ \A k \in 1 .. Len(q) : q[k] \in S
    BY <1>1
  <1> HIDE DEF S
  <1>3. q \in Seq(S)
    BY <1>1, <1>2
  <1>4. Append(q, x) \in Seq(S)
    BY <1>2, <1>3, AppendProperties
  <1>5. /\ Len(Append(q, x)) = Len(q) + 1 /\ Append(q, x)[Len(q) + 1] = x
        /\ \A k \in 1 .. Len(q) : Append(q, x)[k] = q[k]
    BY <1>2, <1>3, AppendProperties
  <1>6. IsSeq(Append(q, x))
    BY <1>4, SeqOver
  <1> QED BY <1>5, <1>6

\* A function with the domain of a sequence.
LEMMA SeqAlike ==
    ASSUME NEW q, IsSeq(q), NEW r, r = [k \in 1 .. Len(q) |-> r[k]]
    PROVE  IsSeq(r) /\ Len(r) = Len(q)
  <1>1. Len(q) \in Nat
    BY SeqFacts
  <1> QED BY <1>1, FunctionSeq

----------------------------------------------------------------------------
(* The tensors that the nodes of a tape name *)

\* Nodes whose tensors are all in S.
NodesOver(nodes, S) ==
    /\ IsSeq(nodes)
    /\ \A k \in 1 .. Len(nodes) : nodes[k].ins \in Seq(S) /\ nodes[k].out \in S

\* The loop of NamesOf.
NamesLoop(nodes, C) ==
    C = [k \in 0 .. Len(nodes) |-> IF k = 0 THEN <<>> ELSE C[k - 1] \o Append(nodes[k].ins, nodes[k].out)]

LEMMA NamesTurns ==
    ASSUME NEW S, NEW nodes, NodesOver(nodes, S)
    PROVE  \E C : /\ NamesLoop(nodes, C) /\ NamesOf(nodes) = C[Len(nodes)]
                  /\ \A k \in 0 .. Len(nodes) : C[k] \in Seq(S)
  <1> DEFINE n == Len(nodes)
             more(k) == Append(nodes[k].ins, nodes[k].out)
             SS == [k \in 0 .. n |-> Seq(S)]
             step == [x \in (1 .. n) \X Seq(S) |-> x[2] \o more(x[1])]
  <1>1. n \in Nat /\ \A k \in 1 .. n : more(k) \in Seq(S)
    <2>1. n \in Nat
      BY SeqFacts DEF NodesOver
    <2>2. ASSUME NEW k \in 1 .. n PROVE more(k) \in Seq(S)
      <3>1. nodes[k].ins \in Seq(S) /\ nodes[k].out \in S
        BY DEF NodesOver
      <3> QED BY <3>1, AppendProperties
    <2> QED BY <2>1, <2>2
  <1> HIDE DEF n, more
  <1>2. \A k \in 1 .. n : \A x \in Seq(S) : step[<<k, x>>] = x \o more(k) /\ x \o more(k) \in Seq(S)
    BY <1>1, ConcatProperties
  <1>3. <<>> \in SS[0] /\ \A k \in 1 .. n : \A x \in SS[k - 1] : step[<<k, x>>] \in SS[k]
    <2>1. <<>> \in Seq(S) /\ n \in Nat
      BY <1>1
    <2>2. SS[0] = Seq(S) /\ \A k \in 1 .. n : SS[k] = Seq(S) /\ SS[k - 1] = Seq(S)
      BY <2>1
    <2> HIDE DEF step, SS
    <2>3. ASSUME NEW k \in 1 .. n, NEW x \in SS[k - 1] PROVE step[<<k, x>>] \in SS[k]
      <3>1. x \in Seq(S) /\ SS[k] = Seq(S)
        BY <2>2
      <3>2. step[<<k, x>>] \in Seq(S)
        BY <1>2, <3>1
      <3> QED BY <3>1, <3>2
    <2> QED BY <2>1, <2>2, <2>3
  <1>4. PICK f : Iteration(n, SS, step, <<>>, f)
    <2> HIDE DEF step, SS
    <2> QED BY <1>1, <1>3, LoopExists
  <1>5. \A k \in 0 .. n : f[k] \in Seq(S)
    BY <1>4 DEF Iteration
  <1>6. f = [k \in 0 .. n |-> IF k = 0 THEN <<>> ELSE f[k - 1] \o more(k)]
    <2>0. n \in Nat
      BY <1>1
    <2> HIDE DEF step
    <2>1. ASSUME NEW k \in 1 .. n PROVE step[<<k, f[k - 1]>>] = f[k - 1] \o more(k)
      <3>1. k - 1 \in 0 .. n
        BY <2>0
      <3>2. f[k - 1] \in Seq(S)
        BY <1>5, <3>1
      <3> QED BY <1>2, <3>2
    <2>4. \A k \in 0 .. n : k # 0 => k \in 1 .. n
      BY <2>0
    <2>2. \A k \in 0 .. n : f[k] = IF k = 0 THEN <<>> ELSE f[k - 1] \o more(k)
      BY <1>4, <2>1, <2>4 DEF Iteration
    <2>3. f = [k \in 0 .. n |-> f[k]]
      BY <1>4 DEF Iteration
    <2> QED BY <2>2, <2>3
  <1> DEFINE C == CHOOSE C : NamesLoop(nodes, C)
  <1>7. NamesLoop(nodes, f)
    BY <1>6 DEF NamesLoop, n, more
  <1>8. NamesOf(nodes) = C[n]
    BY DEF NamesOf, NamesLoop, n
  <1>9. NamesLoop(nodes, C)
    BY <1>7
  <1> HIDE DEF C
  <1>10. ASSUME NEW m \in 0 .. n PROVE C[m] \in Seq(S)
    <2>1. \A k \in 0 .. n : C[k] = IF k = 0 THEN <<>> ELSE C[k - 1] \o more(k)
      BY <1>9 DEF NamesLoop, n, more
    <2>2. C[0] \in SS[0] /\ \A k \in 1 .. m : C[k - 1] \in SS[k - 1] => C[k] \in SS[k]
      <3>1. C[0] = <<>>
        BY <1>1, <2>1
      <3>2. ASSUME NEW k \in 1 .. m, C[k - 1] \in SS[k - 1] PROVE C[k] \in SS[k]
        <4>0. n \in Nat
          BY <1>1
        <4>1. k \in 1 .. n /\ k \in 0 .. n /\ k # 0 /\ k - 1 \in 0 .. n
          BY <4>0
        <4>2. C[k - 1] \in Seq(S) /\ C[k] = C[k - 1] \o more(k)
          BY <2>1, <3>2, <4>1
        <4>3. C[k] \in Seq(S)
          BY <1>2, <4>1, <4>2
        <4> HIDE DEF more, step
        <4> QED BY <4>1, <4>3
      <3> QED BY <1>3, <3>1, <3>2
    <2>3. C[m] \in SS[m]
      <3> HIDE DEF SS
      <3> QED BY <1>1, <2>2, LoopKeeps
    <2> QED BY <2>3
  <1> QED BY <1>8, <1>9, <1>10 DEF n

LEMMA NamesType ==
    ASSUME NEW S, NEW nodes, NodesOver(nodes, S)
    PROVE  NamesOf(nodes) \in Seq(S) /\ (nodes = <<>> => NamesOf(nodes) = <<>>)
  <1>1. Len(nodes) \in Nat /\ (nodes = <<>> => Len(nodes) = 0)
    BY SeqFacts DEF NodesOver
  <1>2. PICK C : /\ NamesLoop(nodes, C) /\ NamesOf(nodes) = C[Len(nodes)]
                 /\ \A k \in 0 .. Len(nodes) : C[k] \in Seq(S)
    BY NamesTurns
  <1>3. C[0] = <<>>
    BY <1>1, <1>2 DEF NamesLoop
  <1> QED BY <1>1, <1>2, <1>3

LEMMA NamesAppend ==
    ASSUME NEW S, NEW nodes, NodesOver(nodes, S), NEW x, x.ins \in Seq(S), x.out \in S
    PROVE  /\ NodesOver(Append(nodes, x), S)
           /\ NamesOf(Append(nodes, x)) = NamesOf(nodes) \o Append(x.ins, x.out)
  <1> DEFINE n == Len(nodes)
             more == Append(nodes, x)
  <1>1. /\ IsSeq(more) /\ Len(more) = n + 1 /\ n \in Nat
        /\ (\A k \in 1 .. n : more[k] = nodes[k]) /\ more[n + 1] = x
    BY SeqAppend, SeqFacts DEF NodesOver
  <1> HIDE DEF n, more
  <1>2. NodesOver(more, S)
    <2>1. \A k \in 1 .. n : nodes[k].ins \in Seq(S) /\ nodes[k].out \in S
      BY DEF NodesOver, n
    <2>2. ASSUME NEW k \in 1 .. n + 1 PROVE more[k].ins \in Seq(S) /\ more[k].out \in S
      <3>1. CASE k = n + 1
        BY <1>1, <3>1
      <3>2. CASE k \in 1 .. n
        BY <1>1, <2>1, <3>2
      <3> QED BY <1>1, <3>1, <3>2
    <2> QED BY <1>1, <2>2 DEF NodesOver
  <1>3. PICK C : /\ NamesLoop(nodes, C) /\ NamesOf(nodes) = C[n]
                 /\ \A k \in 0 .. n : C[k] \in Seq(S)
    BY NamesTurns DEF n
  <1>4. PICK D : NamesLoop(more, D) /\ NamesOf(more) = D[n + 1]
    BY <1>1, <1>2, NamesTurns
  <1>5. \A k \in 0 .. n : C[k] = IF k = 0 THEN <<>> ELSE C[k - 1] \o Append(nodes[k].ins, nodes[k].out)
    BY <1>3 DEF NamesLoop, n
  <1>6. \A k \in 0 .. n + 1 : D[k] = IF k = 0 THEN <<>> ELSE D[k - 1] \o Append(more[k].ins, more[k].out)
    BY <1>1, <1>4 DEF NamesLoop
  <1> DEFINE SS == [k \in 0 .. n |-> {C[k]}]
  <1>7. D[0] \in SS[0] /\ \A k \in 1 .. n : D[k - 1] \in SS[k - 1] => D[k] \in SS[k]
    <2>1. D[0] = <<>> /\ C[0] = <<>>
      BY <1>1, <1>5, <1>6
    <2>2. ASSUME NEW k \in 1 .. n, D[k - 1] = C[k - 1] PROVE D[k] = C[k]
      <3>1. k \in 0 .. n + 1 /\ k \in 0 .. n /\ k # 0 /\ more[k] = nodes[k]
        BY <1>1
      <3>2. D[k] = D[k - 1] \o Append(more[k].ins, more[k].out)
        BY <1>6, <3>1
      <3>3. C[k] = C[k - 1] \o Append(nodes[k].ins, nodes[k].out)
        BY <1>5, <3>1
      <3> QED BY <2>2, <3>1, <3>2, <3>3
    <2> QED BY <1>1, <2>1, <2>2
  <1>8. D[n] = C[n]
    <2>1. D[n] \in SS[n]
      <3> HIDE DEF SS
      <3> QED BY <1>1, <1>7, LoopKeeps
    <2> QED BY <1>1, <2>1
  <1>9. D[n + 1] = D[n] \o Append(x.ins, x.out)
    <2>1. n + 1 \in 0 .. n + 1 /\ n + 1 # 0 /\ (n + 1) - 1 = n
      BY <1>1
    <2> QED BY <1>1, <1>6, <2>1
  <1> QED BY <1>2, <1>3, <1>4, <1>8, <1>9 DEF more

----------------------------------------------------------------------------
(* How often the nodes of the frames name a tensor *)

FramesOver(frames, S) ==
    IsSeq(frames) /\ \A k \in 1 .. Len(frames) : NodesOver(frames[k].nodes, S)

FramesOcc(frames, i) ==
    LET upTo[k \in 0 .. Len(frames)] == IF k = 0 THEN 0 ELSE upTo[k - 1] + Occ(NamesOf(frames[k].nodes), i)
    IN upTo[Len(frames)]

FramesLoop(frames, i, C) ==
    C = [k \in 0 .. Len(frames) |-> IF k = 0 THEN 0 ELSE C[k - 1] + Occ(NamesOf(frames[k].nodes), i)]

LEMMA FramesTurns ==
    ASSUME NEW S, NEW frames, FramesOver(frames, S), NEW i
    PROVE  \E C : /\ FramesLoop(frames, i, C) /\ FramesOcc(frames, i) = C[Len(frames)]
                  /\ \A k \in 0 .. Len(frames) : C[k] \in Nat /\ (i \notin S => C[k] = 0)
  <1> DEFINE n == Len(frames)
             more(k) == Occ(NamesOf(frames[k].nodes), i)
             N == IF i \in S THEN Nat ELSE {0}
             SS == [k \in 0 .. n |-> N]
             step == [x \in (1 .. n) \X N |-> x[2] + more(x[1])]
  <1>0. n \in Nat
    BY SeqFacts DEF FramesOver
  <1>1. \A k \in 1 .. n : more(k) \in N
    <2> SUFFICES ASSUME NEW k \in 1 .. n PROVE more(k) \in N
      OBVIOUS
    <2>1. NamesOf(frames[k].nodes) \in Seq(S)
      BY NamesType DEF FramesOver
    <2> QED BY <2>1, OccType
  <1>2. \A x, y \in N : x + y \in N /\ x \in Nat
    OBVIOUS
  <1>3. 0 \in N /\ (i \notin S => N = {0})
    OBVIOUS
  <1> HIDE DEF n, more, N
  <1>4. \A k \in 1 .. n : \A x \in N : step[<<k, x>>] = x + more(k) /\ x + more(k) \in N
    BY <1>1, <1>2
  <1>5. 0 \in SS[0] /\ \A k \in 1 .. n : \A x \in SS[k - 1] : step[<<k, x>>] \in SS[k]
    <2>1. SS[0] = N /\ \A k \in 1 .. n : SS[k] = N /\ SS[k - 1] = N
      BY <1>0
    <2> HIDE DEF step, SS
    <2>2. ASSUME NEW k \in 1 .. n, NEW x \in SS[k - 1] PROVE step[<<k, x>>] \in SS[k]
      BY <1>4, <2>1
    <2> QED BY <1>3, <2>1, <2>2
  <1>6. PICK f : Iteration(n, SS, step, 0, f)
    <2> HIDE DEF step, SS
    <2> QED BY <1>0, <1>5, LoopExists
  <1>7. \A k \in 0 .. n : f[k] \in N
    BY <1>6 DEF Iteration
  <1>8. f = [k \in 0 .. n |-> IF k = 0 THEN 0 ELSE f[k - 1] + more(k)]
    <2> HIDE DEF step
    <2>1. ASSUME NEW k \in 1 .. n PROVE step[<<k, f[k - 1]>>] = f[k - 1] + more(k)
      <3>1. k - 1 \in 0 .. n
        BY <1>0
      <3>2. f[k - 1] \in N
        BY <1>7, <3>1
      <3> QED BY <1>4, <3>2
    <2>2. \A k \in 0 .. n : k # 0 => k \in 1 .. n
      BY <1>0
    <2>3. \A k \in 0 .. n : f[k] = IF k = 0 THEN 0 ELSE f[k - 1] + more(k)
      BY <1>6, <2>1, <2>2 DEF Iteration
    <2>4. f = [k \in 0 .. n |-> f[k]]
      BY <1>6 DEF Iteration
    <2> QED BY <2>3, <2>4
  <1> DEFINE C == CHOOSE C : FramesLoop(frames, i, C)
  <1>9. FramesLoop(frames, i, f)
    BY <1>8 DEF FramesLoop, n, more
  <1>10. FramesOcc(frames, i) = C[n]
    BY DEF FramesOcc, FramesLoop, n
  <1>11. FramesLoop(frames, i, C)
    BY <1>9
  <1> HIDE DEF C
  <1>12. ASSUME NEW m \in 0 .. n PROVE C[m] \in N
    <2>1. \A k \in 0 .. n : C[k] = IF k = 0 THEN 0 ELSE C[k - 1] + more(k)
      BY <1>11 DEF FramesLoop, n, more
    <2>2. C[0] \in SS[0] /\ \A k \in 1 .. m : C[k - 1] \in SS[k - 1] => C[k] \in SS[k]
      <3>1. C[0] = 0
        BY <1>0, <2>1
      <3>2. ASSUME NEW k \in 1 .. m, C[k - 1] \in SS[k - 1] PROVE C[k] \in SS[k]
        <4>1. k \in 1 .. n /\ k \in 0 .. n /\ k # 0 /\ k - 1 \in 0 .. n
          BY <1>0
        <4>2. C[k - 1] \in N /\ C[k] = C[k - 1] + more(k)
          BY <2>1, <3>2, <4>1
        <4>3. C[k] \in N
          BY <1>4, <4>1, <4>2
        <4> HIDE DEF more, step
        <4> QED BY <4>1, <4>3
      <3> QED BY <1>5, <3>1, <3>2
    <2>3. C[m] \in SS[m] /\ m \in Nat
      <3>1. m \in Nat
        BY <1>0
      <3> HIDE DEF SS
      <3> QED BY <2>2, <3>1, LoopKeeps
    <2> QED BY <2>3
  <1>13. \A k \in 0 .. n : C[k] \in Nat /\ (i \notin S => C[k] = 0)
    BY <1>2, <1>3, <1>12
  <1> QED BY <1>10, <1>11, <1>13 DEF n

LEMMA FramesOccType ==
    ASSUME NEW S, NEW frames, FramesOver(frames, S), NEW i
    PROVE  /\ FramesOcc(frames, i) \in Nat
           /\ i \notin S => FramesOcc(frames, i) = 0
           /\ frames = <<>> => FramesOcc(frames, i) = 0
  <1>1. Len(frames) \in Nat /\ (frames = <<>> => Len(frames) = 0)
    BY SeqFacts DEF FramesOver
  <1>2. PICK C : /\ FramesLoop(frames, i, C) /\ FramesOcc(frames, i) = C[Len(frames)]
                 /\ \A k \in 0 .. Len(frames) : C[k] \in Nat /\ (i \notin S => C[k] = 0)
    BY FramesTurns
  <1>3. C[0] = 0
    BY <1>1, <1>2 DEF FramesLoop
  <1> QED BY <1>1, <1>2, <1>3

\* The first m frames count the same in two stacks that agree on them.
LEMMA FramesAgree ==
    ASSUME NEW a, NEW b, IsSeq(a), IsSeq(b), NEW m \in Nat, m <= Len(a), m <= Len(b),
           \A k \in 1 .. m : a[k].nodes = b[k].nodes,
           NEW i, NEW A, NEW B, FramesLoop(a, i, A), FramesLoop(b, i, B)
    PROVE  A[m] = B[m]
  <1> DEFINE SS == [k \in 0 .. m |-> {A[k]}]
  <1>1. Len(a) \in Nat /\ Len(b) \in Nat
    BY SeqFacts
  <1>2. \A k \in 0 .. Len(a) : A[k] = IF k = 0 THEN 0 ELSE A[k - 1] + Occ(NamesOf(a[k].nodes), i)
    BY DEF FramesLoop
  <1>3. \A k \in 0 .. Len(b) : B[k] = IF k = 0 THEN 0 ELSE B[k - 1] + Occ(NamesOf(b[k].nodes), i)
    BY DEF FramesLoop
  <1>4. B[0] = A[0]
    BY <1>1, <1>2, <1>3
  <1>5. ASSUME NEW k \in 1 .. m, B[k - 1] = A[k - 1] PROVE B[k] = A[k]
    <2>1. k \in 0 .. Len(a) /\ k \in 0 .. Len(b) /\ k # 0
      BY <1>1
    <2> QED BY <1>2, <1>3, <1>5, <2>1
  <1>6. B[0] \in SS[0] /\ \A k \in 1 .. m : B[k - 1] \in SS[k - 1] => B[k] \in SS[k]
    BY <1>4, <1>5
  <1>7. B[m] \in SS[m]
    <2> HIDE DEF SS
    <2> QED BY <1>6, LoopKeeps
  <1> QED BY <1>7

LEMMA FramesPush ==
    ASSUME NEW S, NEW frames, FramesOver(frames, S), NEW f, NodesOver(f.nodes, S), NEW i
    PROVE  /\ FramesOver(Append(frames, f), S)
           /\ FramesOcc(Append(frames, f), i) = FramesOcc(frames, i) + Occ(NamesOf(f.nodes), i)
  <1> DEFINE n == Len(frames)
             more == Append(frames, f)
  <1>1. /\ IsSeq(frames) /\ IsSeq(more) /\ Len(more) = n + 1 /\ n \in Nat
        /\ (\A k \in 1 .. n : more[k] = frames[k]) /\ more[n + 1] = f
    BY SeqAppend, SeqFacts DEF FramesOver
  <1> HIDE DEF n, more
  <1>2. FramesOver(more, S)
    <2>1. ASSUME NEW k \in 1 .. n + 1 PROVE NodesOver(more[k].nodes, S)
      <3>1. CASE k = n + 1
        BY <1>1, <3>1
      <3>2. CASE k \in 1 .. n
        BY <1>1, <3>2 DEF FramesOver, n
      <3> QED BY <1>1, <3>1, <3>2
    <2> QED BY <1>1, <2>1 DEF FramesOver
  <1>3. PICK C : FramesLoop(frames, i, C) /\ FramesOcc(frames, i) = C[n]
    BY FramesTurns DEF n
  <1>4. PICK D : FramesLoop(more, i, D) /\ FramesOcc(more, i) = D[n + 1]
    BY <1>1, <1>2, FramesTurns
  <1>5. D[n] = C[n]
    <2>1. n <= Len(frames) /\ n <= Len(more) /\ \A k \in 1 .. n : frames[k].nodes = more[k].nodes
      BY <1>1 DEF n
    <2> QED BY <1>1, <1>3, <1>4, <2>1, FramesAgree
  <1>6. D[n + 1] = D[n] + Occ(NamesOf(f.nodes), i)
    <2>1. n + 1 \in 0 .. n + 1 /\ n + 1 # 0 /\ (n + 1) - 1 = n
      BY <1>1
    <2>2. \A k \in 0 .. n + 1 : D[k] = IF k = 0 THEN 0 ELSE D[k - 1] + Occ(NamesOf(more[k].nodes), i)
      BY <1>1, <1>4 DEF FramesLoop
    <2> QED BY <1>1, <2>1, <2>2
  <1> QED BY <1>2, <1>3, <1>4, <1>5, <1>6 DEF more

\* Only the nodes of the top frame differ.
LEMMA FramesTop ==
    ASSUME NEW S, NEW a, NEW b, FramesOver(a, S), FramesOver(b, S), Len(a) = Len(b), a # <<>>,
           \A k \in 1 .. Len(a) - 1 : a[k].nodes = b[k].nodes, NEW i
    PROVE  FramesOcc(b, i) = FramesOcc(a, i) - Occ(NamesOf(a[Len(a)].nodes), i)
                                             + Occ(NamesOf(b[Len(a)].nodes), i)
  <1> DEFINE n == Len(a)
             x == Occ(NamesOf(a[n].nodes), i)
             y == Occ(NamesOf(b[n].nodes), i)
  <1>1. IsSeq(a) /\ IsSeq(b) /\ n \in Nat /\ n # 0
    BY SeqFacts DEF FramesOver
  <1>2. x \in Nat /\ y \in Nat
    <2>1. NamesOf(a[n].nodes) \in Seq(S) /\ NamesOf(b[n].nodes) \in Seq(S)
      BY <1>1, NamesType DEF FramesOver
    <2> QED BY <2>1, OccType
  <1>3. PICK A : /\ FramesLoop(a, i, A) /\ FramesOcc(a, i) = A[n]
                 /\ \A k \in 0 .. n : A[k] \in Nat
    BY FramesTurns
  <1>4. PICK B : FramesLoop(b, i, B) /\ FramesOcc(b, i) = B[n]
    BY FramesTurns
  <1>5. n - 1 \in Nat /\ n - 1 <= n /\ n \in 0 .. n /\ n - 1 \in 0 .. n
    BY <1>1
  <1>6. A[n - 1] = B[n - 1]
    BY <1>1, <1>3, <1>4, <1>5, FramesAgree
  <1>7. A[n] = A[n - 1] + x
    BY <1>1, <1>3, <1>5 DEF FramesLoop
  <1>8. B[n] = B[n - 1] + y
    BY <1>1, <1>4, <1>5 DEF FramesLoop
  <1>9. A[n - 1] \in Nat
    BY <1>3, <1>5
  <1> HIDE DEF n, x, y
  <1>10. B[n] = A[n] - x + y
    BY <1>2, <1>6, <1>7, <1>8, <1>9
  <1> QED BY <1>3, <1>4, <1>10 DEF n, x, y

----------------------------------------------------------------------------
(* The engine and its spare references *)

Ids(e) == 1 .. Len(e.heap)

\* What a node of a frame is the result of.
NodeOps == Operations \union LocalOps \union Reductions

IsEntry(x) == x = [t |-> x.t, req |-> x.req, refs |-> x.refs] /\ x.refs \in Int
IsFrame(f) ==
    /\ f = [nodes |-> f.nodes, level |-> f.level, frozen |-> f.frozen]
    /\ \A k \in 1 .. Len(f.nodes) : f.nodes[k].op \in NodeOps /\ f.nodes[k].ins # <<>>
IsRecord(e) == e = [heap |-> e.heap, tape |-> e.tape, pseudo |-> e.pseudo, frames |-> e.frames]

\* Every tensor that the engine names is one of its heap.
IsEngine(e) ==
    /\ IsRecord(e)
    /\ IsSeq(e.heap) /\ \A i \in Ids(e) : IsEntry(e.heap[i])
    /\ NodesOver(e.tape, Ids(e))
    /\ e.pseudo \subseteq Ids(e)
    /\ FramesOver(e.frames, Ids(e)) /\ \A f \in 1 .. Len(e.frames) : IsFrame(e.frames[f])

\* The references that the engine has itself, and those it does not account
\* for.
OneIn(i, S) == IF i \in S THEN 1 ELSE 0
Accounted(e, i) == OneIn(i, e.pseudo) + Occ(NamesOf(e.tape), i) + FramesOcc(e.frames, i)
Spare(e, i) == IF i \in Ids(e) THEN e.heap[i].refs - Accounted(e, i) ELSE 0

LEMMA EngineFacts ==
    ASSUME NEW e, IsEngine(e)
    PROVE  /\ Len(e.heap) \in Nat /\ DOMAIN e.heap = Ids(e)
           /\ IsSeq(e.tape) /\ IsSeq(e.frames) /\ Len(e.frames) \in Nat
           /\ \A i : /\ Occ(NamesOf(e.tape), i) \in Nat /\ FramesOcc(e.frames, i) \in Nat
                     /\ Accounted(e, i) \in Nat /\ Spare(e, i) \in Int
                     /\ i \notin Ids(e) => Occ(NamesOf(e.tape), i) = 0 /\ FramesOcc(e.frames, i) = 0
  <1>1. Len(e.heap) \in Nat /\ DOMAIN e.heap = Ids(e)
    BY SeqFacts DEF IsEngine, Ids
  <1>2. IsSeq(e.tape) /\ IsSeq(e.frames)
    BY DEF IsEngine, NodesOver, FramesOver
  <1>3. Len(e.frames) \in Nat
    BY <1>2, SeqFacts
  <1>4. ASSUME NEW i
        PROVE  /\ Occ(NamesOf(e.tape), i) \in Nat /\ FramesOcc(e.frames, i) \in Nat
               /\ Accounted(e, i) \in Nat /\ Spare(e, i) \in Int
               /\ i \notin Ids(e) => Occ(NamesOf(e.tape), i) = 0 /\ FramesOcc(e.frames, i) = 0
    <2>1. NamesOf(e.tape) \in Seq(Ids(e))
      BY NamesType DEF IsEngine
    <2>2. Occ(NamesOf(e.tape), i) \in Nat /\ (i \notin Ids(e) => Occ(NamesOf(e.tape), i) = 0)
      BY <2>1, OccType
    <2>3. FramesOcc(e.frames, i) \in Nat /\ (i \notin Ids(e) => FramesOcc(e.frames, i) = 0)
      BY FramesOccType DEF IsEngine
    <2>4. Accounted(e, i) \in Nat
      BY <2>2, <2>3 DEF Accounted, OneIn
    <2>5. i \in Ids(e) => e.heap[i].refs \in Int
      BY DEF IsEngine, IsEntry
    <2>6. Spare(e, i) \in Int
      BY <2>4, <2>5 DEF Spare
    <2> QED BY <2>2, <2>3, <2>4, <2>6
  <1> QED BY <1>1, <1>2, <1>3, <1>4

LEMMA NodesMore ==
    ASSUME NEW S, NEW T, S \subseteq T, NEW nodes, NodesOver(nodes, S)
    PROVE  NodesOver(nodes, T)
  <1>1. \A q \in Seq(S) : q \in Seq(T)
    OBVIOUS
  <1> QED BY <1>1 DEF NodesOver

LEMMA FramesMore ==
    ASSUME NEW S, NEW T, S \subseteq T, NEW frames, FramesOver(frames, S)
    PROVE  FramesOver(frames, T)
  BY NodesMore DEF FramesOver

\* How often i is among the first k of ids.
UpTo(ids, k, i) == Cardinality({j \in 1 .. k : ids[j] = i})

LEMMA UpToNext ==
    ASSUME NEW ids, NEW i
    PROVE  /\ UpTo(ids, 0, i) = 0
           /\ \A k \in Nat : UpTo(ids, k, i) \in Nat
           /\ \A k \in Nat \ {0} : UpTo(ids, k, i) = UpTo(ids, k - 1, i) + OneAt(ids[k], i)
  <1> DEFINE S(k) == {j \in 1 .. k : ids[j] = i}
  <1>1. S(0) = {}
    OBVIOUS
  <1>2. ASSUME NEW k \in Nat PROVE IsFiniteSet(S(k)) /\ Cardinality(S(k)) \in Nat
    <2>1. IsFiniteSet(1 .. k) /\ S(k) \subseteq 1 .. k
      BY FS_Interval
    <2> HIDE DEF S
    <2> QED BY <2>1, FS_Subset, FS_CardinalityType
  <1>3. ASSUME NEW k \in Nat \ {0}
        PROVE  Cardinality(S(k)) = Cardinality(S(k - 1)) + OneAt(ids[k], i)
    <2>1. S(k) = (IF ids[k] = i THEN S(k - 1) \union {k} ELSE S(k - 1)) /\ k \notin S(k - 1)
      OBVIOUS
    <2>2. k - 1 \in Nat
      OBVIOUS
    <2> HIDE DEF S
    <2>3. IsFiniteSet(S(k - 1)) /\ Cardinality(S(k - 1)) \in Nat
      BY <1>2, <2>2
    <2>4. Cardinality(S(k - 1) \union {k}) = Cardinality(S(k - 1)) + 1
      BY <2>1, <2>3, FS_AddElement
    <2> QED BY <2>1, <2>3, <2>4 DEF OneAt
  <1> QED BY <1>1, <1>2, <1>3, FS_EmptySet DEF UpTo

LEMMA UpToAll ==
    ASSUME NEW S, NEW ids \in Seq(S), NEW i
    PROVE  UpTo(ids, Len(ids), i) = Occ(ids, i)
  BY LenProperties DEF UpTo, Occ

----------------------------------------------------------------------------
(* References taken and given back *)

\* t differs from e in the references of its tensors, by d.
Recounted(e, t, d) ==
    /\ IsRecord(t) /\ t.tape = e.tape /\ t.pseudo = e.pseudo /\ t.frames = e.frames
    /\ t.heap = [i \in Ids(e) |-> [t |-> e.heap[i].t, req |-> e.heap[i].req, refs |-> e.heap[i].refs + d[i]]]

LEMMA RecountedEngine ==
    ASSUME NEW e, IsEngine(e), NEW t, NEW d \in [Ids(e) -> Int], Recounted(e, t, d)
    PROVE  /\ IsEngine(t) /\ Len(t.heap) = Len(e.heap)
           /\ t.tape = e.tape /\ t.pseudo = e.pseudo /\ t.frames = e.frames
           /\ \A i \in Ids(e) : /\ t.heap[i].t = e.heap[i].t /\ t.heap[i].req = e.heap[i].req
                                /\ Spare(t, i) = Spare(e, i) + d[i]
  <1>1. Len(e.heap) \in Nat
    BY EngineFacts
  <1>2. IsSeq(t.heap) /\ Len(t.heap) = Len(e.heap)
    BY <1>1, FunctionSeq DEF Recounted, Ids
  <1>3. Ids(t) = Ids(e)
    BY <1>2 DEF Ids
  <1>4. ASSUME NEW i \in Ids(e)
        PROVE  /\ IsEntry(t.heap[i]) /\ t.heap[i].t = e.heap[i].t /\ t.heap[i].req = e.heap[i].req
               /\ t.heap[i].refs = e.heap[i].refs + d[i] /\ e.heap[i].refs \in Int
    <2>1. e.heap[i].refs \in Int /\ d[i] \in Int
      BY DEF IsEngine, IsEntry
    <2>2. t.heap[i] = [t |-> e.heap[i].t, req |-> e.heap[i].req, refs |-> e.heap[i].refs + d[i]]
      BY DEF Recounted
    <2> QED BY <2>1, <2>2 DEF IsEntry
  <1>5. IsEngine(t)
    BY <1>2, <1>3, <1>4 DEF IsEngine, Recounted
  <1>6. ASSUME NEW i \in Ids(e) PROVE Spare(t, i) = Spare(e, i) + d[i]
    <2>1. Accounted(t, i) = Accounted(e, i) /\ Accounted(e, i) \in Nat
      BY EngineFacts DEF Accounted, Recounted
    <2>2. d[i] \in Int
      OBVIOUS
    <2> QED BY <1>3, <1>4, <2>1, <2>2 DEF Spare
  <1> QED BY <1>2, <1>4, <1>5, <1>6 DEF Recounted

LEMMA CountedIs ==
    ASSUME NEW e, IsEngine(e), NEW ids \in Seq(Ids(e)), NEW by \in {-1, 1}
    PROVE  Recounted(e, Counted(e, ids, by),
                     [i \in Ids(e) |-> IF by = 1 THEN Occ(ids, i) ELSE -Occ(ids, i)])
  <1> DEFINE n == Len(ids)
             D(k, i) == IF by = 1 THEN UpTo(ids, k, i) ELSE -UpTo(ids, k, i)
             H(k) == [i \in Ids(e) |-> [t |-> e.heap[i].t, req |-> e.heap[i].req, refs |-> e.heap[i].refs + D(k, i)]]
             G(k) == [heap |-> H(k), tape |-> e.tape, pseudo |-> e.pseudo, frames |-> e.frames]
             F == [k \in 0 .. n |-> G(k)]
             turn(k, x) == [x EXCEPT !.heap[ids[k]].refs = @ + by]
             Turns(C) == C = [k \in 0 .. n |-> IF k = 0 THEN e ELSE turn(k, C[k - 1])]
             C == CHOOSE C : Turns(C)
  <1>1. n \in Nat /\ \A k \in 1 .. n : ids[k] \in Ids(e)
    BY LenProperties, ElementOfSeq
  <1>2. \A i \in Ids(e) : IsEntry(e.heap[i])
    BY DEF IsEngine
  <1>3. G(0) = e
    <2>1. \A i \in Ids(e) : D(0, i) = 0
      BY UpToNext
    <2>2. ASSUME NEW i \in Ids(e)
          PROVE  [t |-> e.heap[i].t, req |-> e.heap[i].req, refs |-> e.heap[i].refs + D(0, i)] = e.heap[i]
      <3>1. IsEntry(e.heap[i]) /\ D(0, i) = 0
        BY <1>2, <2>1
      <3> HIDE DEF D
      <3>2. e.heap[i].refs + D(0, i) = e.heap[i].refs
        BY <3>1 DEF IsEntry
      <3> QED BY <3>1, <3>2 DEF IsEntry
    <2>3. e.heap = [i \in Ids(e) |-> e.heap[i]]
      BY SeqFacts DEF IsEngine, Ids
    <2>4. H(0) = e.heap
      <3> HIDE DEF D
      <3> QED BY <2>2, <2>3
    <2> HIDE DEF H
    <2> QED BY <2>4 DEF IsEngine, IsRecord
  <1>4. ASSUME NEW k \in 1 .. n PROVE turn(k, G(k - 1)) = G(k)
    <2> DEFINE j == ids[k]
               x == G(k - 1)
    <2>1. j \in Ids(e) /\ k \in Nat \ {0} /\ k - 1 \in Nat /\ k \in Nat
      BY <1>1
    <2>2. \A i \in Ids(e) : /\ UpTo(ids, k, i) = UpTo(ids, k - 1, i) + OneAt(j, i)
                            /\ UpTo(ids, k - 1, i) \in Nat /\ UpTo(ids, k, i) \in Nat
      <3> SUFFICES ASSUME NEW i \in Ids(e)
                   PROVE  /\ UpTo(ids, k, i) = UpTo(ids, k - 1, i) + OneAt(j, i)
                          /\ UpTo(ids, k - 1, i) \in Nat /\ UpTo(ids, k, i) \in Nat
        OBVIOUS
      <3>1. \A m \in Nat : UpTo(ids, m, i) \in Nat
        BY UpToNext
      <3>2. UpTo(ids, k, i) = UpTo(ids, k - 1, i) + OneAt(ids[k], i)
        BY <2>1, UpToNext
      <3> QED BY <2>1, <3>1, <3>2
    <2>3. \A i \in Ids(e) : /\ D(k, i) = IF i = j THEN D(k - 1, i) + by ELSE D(k - 1, i)
                            /\ D(k, i) \in Int /\ D(k - 1, i) \in Int
      BY <2>2 DEF OneAt
    <2> HIDE DEF D, j
    <2>4. x.heap = H(k - 1) /\ x.tape = e.tape /\ x.pseudo = e.pseudo /\ x.frames = e.frames /\ IsRecord(x)
      BY DEF IsRecord
    <2>5. \A i \in Ids(e) : x.heap[i] = [t |-> e.heap[i].t, req |-> e.heap[i].req, refs |-> e.heap[i].refs + D(k - 1, i)]
      BY <2>4
    <2> HIDE DEF H, x
    <2>6. turn(k, x) = [x EXCEPT !.heap = [x.heap EXCEPT ![j] = [x.heap[j] EXCEPT !.refs = x.heap[j].refs + by]]]
      BY DEF j
    <2>7. \A i \in Ids(e) : H(k)[i] = [t |-> e.heap[i].t, req |-> e.heap[i].req, refs |-> e.heap[i].refs + D(k, i)]
      BY DEF H
    <2>8. H(k) = [i \in Ids(e) |-> H(k)[i]] /\ x.heap = [i \in Ids(e) |-> x.heap[i]]
      BY <2>4 DEF H
    <2>9. [x.heap EXCEPT ![j] = [x.heap[j] EXCEPT !.refs = x.heap[j].refs + by]] = H(k)
      <3> DEFINE y == [x.heap EXCEPT ![j] = [x.heap[j] EXCEPT !.refs = x.heap[j].refs + by]]
      <3>1. ASSUME NEW i \in Ids(e) PROVE y[i] = H(k)[i]
        <4>1. CASE i # j
          <5>1. y[i] = x.heap[i] /\ D(k, i) = D(k - 1, i)
            BY <2>3, <2>8, <4>1
          <5> QED BY <2>5, <2>7, <5>1
        <4>2. CASE i = j
          <5>1. y[i] = [x.heap[i] EXCEPT !.refs = x.heap[i].refs + by]
            BY <2>8, <4>2
          <5>2. x.heap[i] = [t |-> e.heap[i].t, req |-> e.heap[i].req, refs |-> e.heap[i].refs + D(k - 1, i)]
            BY <2>5
          <5>3. D(k, i) = D(k - 1, i) + by /\ D(k - 1, i) \in Int /\ e.heap[i].refs \in Int
            BY <1>2, <2>3, <4>2 DEF IsEntry
          <5>4. x.heap[i].refs + by = e.heap[i].refs + D(k, i)
            <6>1. x.heap[i].refs = e.heap[i].refs + D(k - 1, i)
              BY <5>2
            <6> QED BY <5>3, <6>1
          <5>5. y[i] = [t |-> e.heap[i].t, req |-> e.heap[i].req, refs |-> e.heap[i].refs + D(k, i)]
            BY <5>1, <5>2, <5>4
          <5> QED BY <2>7, <5>5
        <4> QED BY <4>1, <4>2
      <3>2. y = [i \in Ids(e) |-> y[i]]
        BY <2>8
      <3> HIDE DEF y
      <3>3. y = H(k)
        BY <2>8, <3>1, <3>2
      <3> QED BY <3>3 DEF y
    <2>10. turn(k, x) = [heap |-> H(k), tape |-> e.tape, pseudo |-> e.pseudo, frames |-> e.frames]
      BY <2>4, <2>6, <2>9 DEF IsRecord
    <2> QED BY <2>10 DEF x
  <1> HIDE DEF G, turn
  <1>5. Turns(F)
    <2> SUFFICES ASSUME NEW k \in 0 .. n PROVE F[k] = IF k = 0 THEN e ELSE turn(k, F[k - 1])
      OBVIOUS
    <2>1. CASE k = 0
      BY <1>1, <1>3, <2>1
    <2>2. CASE k # 0
      <3>1. k \in 1 .. n /\ k - 1 \in 0 .. n
        BY <1>1, <2>2
      <3>2. F[k] = G(k) /\ F[k - 1] = G(k - 1)
        BY <3>1
      <3> QED BY <1>4, <2>2, <3>1, <3>2
    <2> QED BY <2>1, <2>2
  <1>6. Turns(C)
    <2> HIDE DEF F, Turns
    <2> QED BY <1>5
  <1>7. Counted(e, ids, by) = C[n]
    BY DEF Counted, turn
  <1> HIDE DEF C
  <1> DEFINE SS == [k \in 0 .. n |-> {G(k)}]
  <1>8. C[n] = G(n)
    <2>1. \A k \in 0 .. n : C[k] = IF k = 0 THEN e ELSE turn(k, C[k - 1])
      BY <1>6
    <2>2. ASSUME NEW k \in 1 .. n, C[k - 1] = G(k - 1) PROVE C[k] = G(k)
      <3>1. k \in 0 .. n /\ k # 0
        BY <1>1
      <3> QED BY <1>4, <2>1, <2>2, <3>1
    <2>3. C[0] = G(0)
      BY <1>1, <1>3, <2>1
    <2>4. C[0] \in SS[0] /\ \A k \in 1 .. n : C[k - 1] \in SS[k - 1] => C[k] \in SS[k]
      <3>0. n \in Nat
        BY <1>1
      <3>1. \A k \in 0 .. n : SS[k] = {G(k)}
        OBVIOUS
      <3>2. \A k \in 1 .. n : k \in 0 .. n /\ k - 1 \in 0 .. n
        BY <3>0
      <3>3. 0 \in 0 .. n
        BY <3>0
      <3> HIDE DEF SS
      <3> QED BY <2>2, <2>3, <3>1, <3>2, <3>3
    <2>5. C[n] \in SS[n]
      <3> HIDE DEF SS, Turns
      <3> QED BY <1>1, <2>4, LoopKeeps
    <2> QED BY <1>1, <2>5
  <1>9. \A i \in Ids(e) : D(n, i) = IF by = 1 THEN Occ(ids, i) ELSE -Occ(ids, i)
    BY UpToAll
  <1> DEFINE d == [i \in Ids(e) |-> IF by = 1 THEN Occ(ids, i) ELSE -Occ(ids, i)]
  <1>10. Recounted(e, G(n), d)
    <2>1. \A i \in Ids(e) : D(n, i) = d[i]
      BY <1>9
    <2> HIDE DEF d, D
    <2>2. H(n) = [i \in Ids(e) |-> [t |-> e.heap[i].t, req |-> e.heap[i].req, refs |-> e.heap[i].refs + d[i]]]
      BY <2>1
    <2> HIDE DEF H
    <2> QED BY <2>2 DEF G, Recounted, IsRecord
  <1> QED BY <1>7, <1>8, <1>10

\* t has the tensors and the nodes of e.
SameNodes(e, t) ==
    /\ IsEngine(t) /\ Len(t.heap) = Len(e.heap)
    /\ t.tape = e.tape /\ t.pseudo = e.pseudo /\ t.frames = e.frames

LEMMA RetainedIs ==
    ASSUME NEW e, IsEngine(e), NEW ids \in Seq(Ids(e))
    PROVE  /\ SameNodes(e, Retained(e, ids))
           /\ \A i \in Ids(e) : Spare(Retained(e, ids), i) = Spare(e, i) + Occ(ids, i)
  <1> DEFINE d == [i \in Ids(e) |-> Occ(ids, i)]
             t == Retained(e, ids)
  <1>1. Recounted(e, t, d)
    <2>1. Recounted(e, Counted(e, ids, 1), [i \in Ids(e) |-> IF 1 = 1 THEN Occ(ids, i) ELSE -Occ(ids, i)])
      BY CountedIs
    <2> QED BY <2>1 DEF Retained
  <1>2. d \in [Ids(e) -> Int] /\ \A i \in Ids(e) : d[i] = Occ(ids, i)
    <2>1. ASSUME NEW i \in Ids(e) PROVE Occ(ids, i) \in Int
      <3>1. Occ(ids, i) \in Nat
        BY OccType
      <3> QED BY <3>1
    <2> QED BY <2>1
  <1> HIDE DEF d, t
  <1> QED BY <1>1, <1>2, RecountedEngine DEF SameNodes, t

LEMMA ReleasedIs ==
    ASSUME NEW e, IsEngine(e), NEW ids \in Seq(Ids(e))
    PROVE  /\ SameNodes(e, Released(e, ids))
           /\ \A i \in Ids(e) : Spare(Released(e, ids), i) = Spare(e, i) - Occ(ids, i)
  <1> DEFINE d == [i \in Ids(e) |-> -Occ(ids, i)]
             t == Released(e, ids)
  <1>1. Recounted(e, t, d)
    <2>1. Recounted(e, Counted(e, ids, -1), [i \in Ids(e) |-> IF -1 = 1 THEN Occ(ids, i) ELSE -Occ(ids, i)])
      BY CountedIs
    <2> QED BY <2>1 DEF Released
  <1>2. \A i \in Ids(e) : d[i] = -Occ(ids, i) /\ Occ(ids, i) \in Nat
    <2>1. ASSUME NEW i \in Ids(e) PROVE Occ(ids, i) \in Nat
      BY OccType
    <2> QED BY <2>1
  <1>3. d \in [Ids(e) -> Int]
    <2>1. \A i \in Ids(e) : d[i] \in Int
      BY <1>2
    <2> QED BY <2>1
  <1> HIDE DEF d, t
  <1>4. SameNodes(e, t) /\ \A i \in Ids(e) : Spare(t, i) = Spare(e, i) + d[i]
    BY <1>1, <1>3, RecountedEngine DEF SameNodes
  <1>5. \A i \in Ids(e) : Spare(t, i) = Spare(e, i) - Occ(ids, i)
    <2> SUFFICES ASSUME NEW i \in Ids(e) PROVE Spare(t, i) = Spare(e, i) - Occ(ids, i)
      OBVIOUS
    <2>1. Spare(e, i) \in Int
      BY EngineFacts
    <2> QED BY <1>2, <1>4, <2>1
  <1> QED BY <1>4, <1>5 DEF t

\* t has one tensor more, with one spare reference.
OneMore(e, t) ==
    /\ IsEngine(t) /\ Len(t.heap) = Len(e.heap) + 1
    /\ t.tape = e.tape /\ t.pseudo = e.pseudo /\ t.frames = e.frames
    /\ \A i \in Ids(t) : Spare(t, i) = Spare(e, i) + OneAt(Newest(t), i)

LEMMA MadeIs ==
    ASSUME NEW e, IsEngine(e), NEW v, NEW req
    PROVE  OneMore(e, Made(e, v, req))
  <1> DEFINE x == [t |-> v, req |-> req, refs |-> 1]
             h == Append(e.heap, x)
             n == Len(e.heap)
             t == [e EXCEPT !.heap = h]
  <1>1. Made(e, v, req) = t
    BY DEF Made
  <1>2. n \in Nat /\ IsSeq(e.heap)
    BY EngineFacts DEF IsEngine
  <1>3. IsSeq(h) /\ Len(h) = n + 1 /\ (\A i \in 1 .. n : h[i] = e.heap[i]) /\ h[n + 1] = x
    BY <1>2, SeqAppend
  <1>4. x.refs = 1 /\ IsEntry(x)
    BY DEF IsEntry
  <1> HIDE DEF x, h
  <1>5. t.heap = h /\ t.tape = e.tape /\ t.pseudo = e.pseudo /\ t.frames = e.frames /\ IsRecord(t)
    BY DEF IsEngine, IsRecord
  <1> HIDE DEF t
  <1>6. Ids(e) = 1 .. n /\ Ids(t) = 1 .. n + 1 /\ Newest(t) = n + 1
    BY <1>3, <1>5 DEF Ids, Newest
  <1> HIDE DEF n
  <1>7. Ids(e) \subseteq Ids(t)
    BY <1>2, <1>6
  <1>8. IsEngine(t)
    <2>1. \A i \in Ids(t) : IsEntry(t.heap[i])
      <3> SUFFICES ASSUME NEW i \in Ids(t) PROVE IsEntry(h[i])
        BY <1>5
      <3>1. CASE i = n + 1
        BY <1>3, <1>4, <3>1
      <3>2. CASE i \in 1 .. n
        BY <1>3, <1>6, <3>2 DEF IsEngine
      <3> QED BY <1>2, <1>6, <3>1, <3>2
    <2>2. NodesOver(t.tape, Ids(t)) /\ FramesOver(t.frames, Ids(t)) /\ t.pseudo \subseteq Ids(t)
      BY <1>5, <1>7, NodesMore, FramesMore DEF IsEngine
    <2> QED BY <1>3, <1>5, <2>1, <2>2 DEF IsEngine
  <1>9. ASSUME NEW i \in Ids(t) PROVE Spare(t, i) = Spare(e, i) + OneAt(Newest(t), i)
    <2>1. Accounted(t, i) = Accounted(e, i)
      BY <1>5 DEF Accounted
    <2>2. CASE i = n + 1
      <3>1. i \notin Ids(e) /\ i \notin e.pseudo
        BY <1>2, <1>6, <2>2 DEF IsEngine
      <3>2. Accounted(e, i) = 0
        BY <3>1, EngineFacts DEF Accounted, OneIn
      <3> QED BY <1>3, <1>4, <1>5, <1>6, <2>1, <2>2, <3>1, <3>2 DEF Spare, OneAt
    <2>3. CASE i # n + 1
      <3>1. i \in Ids(e) /\ t.heap[i] = e.heap[i]
        BY <1>2, <1>3, <1>5, <1>6, <2>3
      <3>2. OneAt(Newest(t), i) = 0
        BY <1>6, <2>3 DEF OneAt
      <3>3. Spare(t, i) = Spare(e, i) /\ Spare(e, i) \in Int
        BY <2>1, <3>1, EngineFacts DEF Spare
      <3> QED BY <3>2, <3>3
    <2> QED BY <2>2, <2>3
  <1> QED BY <1>1, <1>3, <1>5, <1>8, <1>9 DEF OneMore, n

\* The loss of Spare that a node is.
Named(ins, out, i) == Occ(ins, i) + OneAt(out, i)

LEMMA NamedOcc ==
    ASSUME NEW S, NEW ins \in Seq(S), NEW out \in S, NEW i
    PROVE  Occ(Append(ins, out), i) = Named(ins, out, i) /\ Named(ins, out, i) \in Nat /\ Occ(ins, i) \in Nat
  <1>1. Occ(ins, i) \in Nat
    BY OccType
  <1>2. Occ(Append(ins, out), i) = Occ(ins, i) + OneAt(out, i)
    BY OccAppend
  <1> QED BY <1>1, <1>2 DEF Named, OneAt

\* A tensor begins to be tracked.
LEMMA TrackedIs ==
    ASSUME NEW e, IsEngine(e), NEW j, NEW t, t = [e EXCEPT !.heap[j].req = TRUE]
    PROVE  SameNodes(e, t) /\ \A i \in Ids(e) : Spare(t, i) = Spare(e, i)
  <1> DEFINE x == [e.heap[j] EXCEPT !.req = TRUE]
             h == [e.heap EXCEPT ![j] = x]
  <1>1. t = [e EXCEPT !.heap = h]
    OBVIOUS
  <1>2. IsSeq(e.heap)
    BY DEF IsEngine
  <1>3. j \in Ids(e) => IsEntry(x) /\ x.refs = e.heap[j].refs
    <2> SUFFICES ASSUME j \in Ids(e) PROVE IsEntry(x) /\ x.refs = e.heap[j].refs
      OBVIOUS
    <2> DEFINE y == e.heap[j]
    <2>1. IsEntry(y)
      BY DEF IsEngine
    <2>2. x = [y EXCEPT !.req = TRUE]
      OBVIOUS
    <2> HIDE DEF x, y
    <2>3. x = [t |-> y.t, req |-> TRUE, refs |-> y.refs]
      BY <2>1, <2>2 DEF IsEntry
    <2>4. IsEntry(x) /\ x.refs = y.refs
      BY <2>1, <2>3 DEF IsEntry
    <2> QED BY <2>4 DEF y
  <1> HIDE DEF x
  <1>9. h = [e.heap EXCEPT ![j] = x]
    OBVIOUS
  <1>4. IsSeq(h) /\ Len(h) = Len(e.heap) /\ \A i \in Ids(e) : h[i] = IF i = j THEN x ELSE e.heap[i]
    <2>1. e.heap = [k \in 1 .. Len(e.heap) |-> e.heap[k]]
      BY <1>2, SeqFacts
    <2>2. /\ h = [k \in 1 .. Len(e.heap) |-> h[k]]
          /\ \A i \in Ids(e) : h[i] = IF i = j THEN x ELSE e.heap[i]
      BY <2>1 DEF Ids
    <2> HIDE DEF h
    <2>3. IsSeq(h) /\ Len(h) = Len(e.heap)
      BY <1>2, <2>2, SeqAlike
    <2> QED BY <2>2, <2>3
  <1> HIDE DEF h
  <1>5. t.heap = h /\ t.tape = e.tape /\ t.pseudo = e.pseudo /\ t.frames = e.frames /\ IsRecord(t)
    BY <1>1, <1>9 DEF IsEngine, IsRecord
  <1>6. Ids(t) = Ids(e)
    BY <1>4, <1>5 DEF Ids
  <1>7. \A i \in Ids(e) : IsEntry(t.heap[i]) /\ t.heap[i].refs = e.heap[i].refs
    BY <1>3, <1>4, <1>5 DEF IsEngine
  <1>8. IsEngine(t)
    BY <1>4, <1>5, <1>6, <1>7 DEF IsEngine
  <1>10. \A i \in Ids(e) : Spare(t, i) = Spare(e, i)
    BY <1>5, <1>6, <1>7 DEF Spare, Accounted
  <1> QED BY <1>4, <1>5, <1>8, <1>10 DEF SameNodes

----------------------------------------------------------------------------
(* Recording *)

LEMMA SpareShift ==
    ASSUME NEW e, IsEngine(e), NEW t, t.heap = e.heap, NEW i \in Ids(e), NEW d \in Int,
           Accounted(t, i) = Accounted(e, i) + d
    PROVE  Spare(t, i) = Spare(e, i) - d
  <1>1. i \in Ids(t)
    BY DEF Ids
  <1>2. e.heap[i].refs \in Int /\ Accounted(e, i) \in Nat
    BY EngineFacts DEF IsEngine, IsEntry
  <1>3. Spare(t, i) = e.heap[i].refs - Accounted(t, i) /\ Spare(e, i) = e.heap[i].refs - Accounted(e, i)
    BY <1>1 DEF Spare
  <1> QED BY <1>2, <1>3

LEMMA TapeAppend ==
    ASSUME NEW e, IsEngine(e), NEW x, x.ins \in Seq(Ids(e)), x.out \in Ids(e),
           NEW t, t = [e EXCEPT !.tape = Append(e.tape, x)]
    PROVE  /\ IsEngine(t) /\ t.heap = e.heap /\ t.pseudo = e.pseudo /\ t.frames = e.frames
           /\ \A i \in Ids(e) : Spare(t, i) = Spare(e, i) - Named(x.ins, x.out, i)
  <1> DEFINE tape == Append(e.tape, x)
  <1>1. /\ NodesOver(tape, Ids(e))
        /\ NamesOf(tape) = NamesOf(e.tape) \o Append(x.ins, x.out)
    BY NamesAppend DEF IsEngine
  <1> HIDE DEF tape
  <1>2. t.heap = e.heap /\ t.tape = tape /\ t.pseudo = e.pseudo /\ t.frames = e.frames /\ IsRecord(t)
    BY DEF IsEngine, IsRecord, tape
  <1>3. Ids(t) = Ids(e)
    BY <1>2 DEF Ids
  <1>4. IsEngine(t)
    BY <1>1, <1>2, <1>3 DEF IsEngine
  <1>5. ASSUME NEW i \in Ids(e) PROVE Spare(t, i) = Spare(e, i) - Named(x.ins, x.out, i)
    <2>1. NamesOf(e.tape) \in Seq(Ids(e)) /\ Append(x.ins, x.out) \in Seq(Ids(e))
      BY NamesType, AppendProperties DEF IsEngine
    <2>2. Occ(NamesOf(tape), i) = Occ(NamesOf(e.tape), i) + Occ(Append(x.ins, x.out), i)
      <3>1. Occ(NamesOf(e.tape) \o Append(x.ins, x.out), i)
              = Occ(NamesOf(e.tape), i) + Occ(Append(x.ins, x.out), i)
        BY <2>1, OccConcat
      <3> QED BY <1>1, <3>1
    <2>3. Occ(Append(x.ins, x.out), i) = Named(x.ins, x.out, i) /\ Named(x.ins, x.out, i) \in Nat
      BY NamedOcc
    <2>4. Occ(NamesOf(e.tape), i) \in Nat /\ FramesOcc(e.frames, i) \in Nat /\ OneIn(i, e.pseudo) \in Nat
      BY EngineFacts DEF OneIn
    <2>5. Accounted(t, i) = Accounted(e, i) + Named(x.ins, x.out, i)
      <3>1. Accounted(t, i) = OneIn(i, e.pseudo) + Occ(NamesOf(tape), i) + FramesOcc(e.frames, i)
        BY <1>2 DEF Accounted
      <3> QED BY <2>2, <2>3, <2>4, <3>1 DEF Accounted
    <2>6. t.heap = e.heap /\ Named(x.ins, x.out, i) \in Int
      BY <1>2, <2>3
    <2> QED BY <2>5, <2>6, SpareShift
  <1> QED BY <1>2, <1>4, <1>5

\* The tape keeps what it names.
LEMMA OnTapeIs ==
    ASSUME NEW e, IsEngine(e), NEW op, NEW ins \in Seq(Ids(e)), NEW par, NEW out \in Ids(e)
    PROVE  LET t == OnTape(e, op, ins, par, out)
           IN /\ IsEngine(t) /\ Len(t.heap) = Len(e.heap)
              /\ t.pseudo = e.pseudo /\ t.frames = e.frames
              /\ \A i \in Ids(e) : Spare(t, i) = Spare(e, i)
  <1> DEFINE x == Node(op, ins, par, out)
             t1 == [e EXCEPT !.tape = Append(e.tape, x)]
             ids == Append(ins, out)
             t == Retained(t1, ids)
  <1>1. OnTape(e, op, ins, par, out) = t
    BY DEF OnTape
  <1>2. x.ins = ins /\ x.out = out
    BY DEF Node
  <1> HIDE DEF x
  <1>3. /\ IsEngine(t1) /\ t1.heap = e.heap /\ t1.pseudo = e.pseudo /\ t1.frames = e.frames
        /\ \A i \in Ids(e) : Spare(t1, i) = Spare(e, i) - Named(ins, out, i)
    <2> DEFINE t2 == t1
    <2>1. x.ins \in Seq(Ids(e)) /\ x.out \in Ids(e) /\ t2 = [e EXCEPT !.tape = Append(e.tape, x)]
      BY <1>2
    <2> HIDE DEF t2
    <2>2. /\ IsEngine(t2) /\ t2.heap = e.heap /\ t2.pseudo = e.pseudo /\ t2.frames = e.frames
          /\ \A i \in Ids(e) : Spare(t2, i) = Spare(e, i) - Named(x.ins, x.out, i)
      BY <2>1, TapeAppend
    <2> QED BY <1>2, <2>2 DEF t2
  <1> HIDE DEF t1
  <1>4. ids \in Seq(Ids(e)) /\ Ids(t1) = Ids(e)
    BY <1>3, AppendProperties DEF Ids
  <1> HIDE DEF ids
  <1>5. SameNodes(t1, t) /\ \A i \in Ids(e) : Spare(t, i) = Spare(t1, i) + Occ(ids, i)
    BY <1>3, <1>4, RetainedIs
  <1> HIDE DEF t
  <1>6. ASSUME NEW i \in Ids(e) PROVE Spare(t, i) = Spare(e, i)
    <2>1. Occ(ids, i) = Named(ins, out, i) /\ Named(ins, out, i) \in Nat
      BY NamedOcc DEF ids
    <2>2. Spare(e, i) \in Int
      BY EngineFacts
    <2> QED BY <1>3, <1>5, <2>1, <2>2
  <1> QED BY <1>1, <1>3, <1>5, <1>6 DEF SameNodes

LEMMA FrameAppend ==
    ASSUME NEW e, IsEngine(e), e.frames # <<>>, NEW x, x.op \in NodeOps,
           x.ins \in Seq(Ids(e)), x.ins # <<>>, x.out \in Ids(e),
           NEW t, t = [e EXCEPT !.frames[Len(e.frames)].nodes = Append(e.frames[Len(e.frames)].nodes, x)]
    PROVE  /\ IsEngine(t) /\ t.heap = e.heap /\ t.pseudo = e.pseudo /\ t.tape = e.tape
           /\ Len(t.frames) = Len(e.frames)
           /\ \A i \in Ids(e) : Spare(t, i) = Spare(e, i) - Named(x.ins, x.out, i)
  <1> DEFINE n == Len(e.frames)
             f == e.frames[n]
             nodes == Append(f.nodes, x)
             g == [f EXCEPT !.nodes = nodes]
             frames == [e.frames EXCEPT ![n] = g]
  <1>1. IsSeq(e.frames) /\ n \in Nat /\ n # 0
    BY SeqFacts DEF IsEngine, FramesOver
  <1>2. IsFrame(f) /\ NodesOver(f.nodes, Ids(e))
    BY <1>1 DEF IsEngine, FramesOver
  <1>3. /\ NodesOver(nodes, Ids(e))
        /\ NamesOf(nodes) = NamesOf(f.nodes) \o Append(x.ins, x.out)
    BY <1>2, NamesAppend
  <1>4. g.nodes = nodes /\ IsFrame(g)
    <2> DEFINE m == Len(f.nodes)
    <2>1. /\ Len(nodes) = m + 1 /\ m \in Nat
          /\ (\A k \in 1 .. m : nodes[k] = f.nodes[k]) /\ nodes[m + 1] = x
      BY <1>2, SeqAppend, SeqFacts DEF NodesOver
    <2> HIDE DEF m, nodes, f
    <2>2. g = [nodes |-> nodes, level |-> f.level, frozen |-> f.frozen]
      BY <1>2 DEF IsFrame
    <2>3. \A k \in 1 .. m : f.nodes[k].op \in NodeOps /\ f.nodes[k].ins # <<>>
      BY <1>2 DEF IsFrame, m
    <2>4. ASSUME NEW k \in 1 .. m + 1 PROVE nodes[k].op \in NodeOps /\ nodes[k].ins # <<>>
      <3>1. CASE k = m + 1
        BY <2>1, <3>1
      <3>2. CASE k \in 1 .. m
        BY <2>1, <2>3, <3>2
      <3> QED BY <2>1, <3>1, <3>2
    <2>5. g.nodes = nodes /\ g.level = f.level /\ g.frozen = f.frozen
      BY <2>2
    <2> HIDE DEF g
    <2> QED BY <2>1, <2>2, <2>4, <2>5 DEF IsFrame
  <1>5. t = [e EXCEPT !.frames = frames]
    OBVIOUS
  <1>6. /\ IsSeq(frames) /\ Len(frames) = n
        /\ \A k \in 1 .. n : frames[k] = IF k = n THEN g ELSE e.frames[k]
    <2> HIDE DEF g
    <2>1. e.frames = [k \in 1 .. n |-> e.frames[k]]
      BY <1>1, SeqFacts
    <2>2. frames = [k \in 1 .. n |-> frames[k]] /\ \A k \in 1 .. n : frames[k] = IF k = n THEN g ELSE e.frames[k]
      BY <2>1
    <2> HIDE DEF frames
    <2>3. IsSeq(frames) /\ Len(frames) = Len(e.frames)
      BY <1>1, <2>2, SeqAlike
    <2> QED BY <2>2, <2>3
  <1> HIDE DEF frames, g, nodes
  <1>7. t.heap = e.heap /\ t.tape = e.tape /\ t.pseudo = e.pseudo /\ t.frames = frames /\ IsRecord(t)
    BY <1>5 DEF IsEngine, IsRecord
  <1>8. Ids(t) = Ids(e)
    BY <1>7 DEF Ids
  <1>9. FramesOver(frames, Ids(e)) /\ \A k \in 1 .. n : IsFrame(frames[k])
    <2> SUFFICES ASSUME NEW k \in 1 .. n PROVE NodesOver(frames[k].nodes, Ids(e)) /\ IsFrame(frames[k])
      BY <1>6 DEF FramesOver
    <2>1. CASE k = n
      BY <1>3, <1>4, <1>6, <2>1
    <2>2. CASE k # n
      BY <1>6, <2>2 DEF IsEngine, FramesOver
    <2> QED BY <2>1, <2>2
  <1>10. IsEngine(t)
    BY <1>6, <1>7, <1>8, <1>9 DEF IsEngine
  <1>11. ASSUME NEW i \in Ids(e) PROVE Spare(t, i) = Spare(e, i) - Named(x.ins, x.out, i)
    <2>1. NamesOf(f.nodes) \in Seq(Ids(e)) /\ Append(x.ins, x.out) \in Seq(Ids(e))
      BY <1>2, NamesType, AppendProperties
    <2>2. Occ(NamesOf(nodes), i) = Occ(NamesOf(f.nodes), i) + Occ(Append(x.ins, x.out), i)
      <3>1. Occ(NamesOf(f.nodes) \o Append(x.ins, x.out), i)
              = Occ(NamesOf(f.nodes), i) + Occ(Append(x.ins, x.out), i)
        BY <2>1, OccConcat
      <3> QED BY <1>3, <3>1
    <2>3. Occ(Append(x.ins, x.out), i) = Named(x.ins, x.out, i) /\ Named(x.ins, x.out, i) \in Nat
      BY NamedOcc
    <2>4. FramesOcc(frames, i) = FramesOcc(e.frames, i) - Occ(NamesOf(f.nodes), i) + Occ(NamesOf(nodes), i)
      <3>1. FramesOver(e.frames, Ids(e)) /\ Len(e.frames) = Len(frames)
        BY <1>6 DEF IsEngine
      <3>2. \A k \in 1 .. n - 1 : e.frames[k].nodes = frames[k].nodes
        BY <1>1, <1>6
      <3>3. frames[n].nodes = nodes
        BY <1>1, <1>4, <1>6
      <3> HIDE DEF f
      <3>4. FramesOcc(frames, i) = FramesOcc(e.frames, i) - Occ(NamesOf(e.frames[n].nodes), i)
                                                         + Occ(NamesOf(frames[n].nodes), i)
        BY <1>9, <3>1, <3>2, FramesTop
      <3> QED BY <3>3, <3>4 DEF f
    <2>5. Occ(NamesOf(e.tape), i) \in Nat /\ FramesOcc(e.frames, i) \in Nat /\ Occ(NamesOf(f.nodes), i) \in Nat
      BY <2>1, EngineFacts, OccType
    <2>7. OneIn(i, e.pseudo) \in Nat
      BY DEF OneIn
    <2> HIDE DEF f, n
    <2>8. FramesOcc(frames, i) = FramesOcc(e.frames, i) + Named(x.ins, x.out, i)
      BY <2>2, <2>3, <2>4, <2>5
    <2>9. Accounted(t, i) = Accounted(e, i) + Named(x.ins, x.out, i)
      <3>1. Accounted(t, i) = OneIn(i, e.pseudo) + Occ(NamesOf(e.tape), i) + FramesOcc(frames, i)
        BY <1>7 DEF Accounted
      <3> QED BY <2>3, <2>5, <2>7, <2>8, <3>1 DEF Accounted
    <2>10. t.heap = e.heap /\ Named(x.ins, x.out, i) \in Int
      BY <1>7, <2>3
    <2> QED BY <2>9, <2>10, SpareShift
  <1> QED BY <1>6, <1>7, <1>10, <1>11

\* t has the tensors of e, and none has lost a spare reference.
Kept(e, t) ==
    /\ IsEngine(t) /\ Len(t.heap) = Len(e.heap) /\ Len(t.frames) = Len(e.frames)
    /\ \A i \in Ids(e) : Spare(t, i) >= Spare(e, i)

\* t has one tensor more, with a spare reference for its creator.
Grown(e, t) ==
    /\ IsEngine(t) /\ Len(t.heap) = Len(e.heap) + 1 /\ Len(t.frames) = Len(e.frames)
    /\ \A i \in Ids(t) : Spare(t, i) >= Spare(e, i) + OneAt(Newest(t), i)

LEMMA KeptKept ==
    ASSUME NEW e, IsEngine(e), NEW t, Kept(e, t), NEW u, Kept(t, u)
    PROVE  Kept(e, u)
  <1>1. Ids(t) = Ids(e) /\ IsEngine(t) /\ IsEngine(u)
    BY DEF Kept, Ids
  <1>2. ASSUME NEW i \in Ids(e) PROVE Spare(u, i) >= Spare(e, i)
    <2>1. Spare(u, i) >= Spare(t, i) /\ Spare(t, i) >= Spare(e, i)
      BY <1>1 DEF Kept
    <2>2. Spare(u, i) \in Int /\ Spare(t, i) \in Int /\ Spare(e, i) \in Int
      BY <1>1, EngineFacts
    <2> QED BY <2>1, <2>2
  <1> QED BY <1>2 DEF Kept

LEMMA GrownKept ==
    ASSUME NEW e, IsEngine(e), NEW t, Grown(e, t), NEW u, Kept(t, u)
    PROVE  Grown(e, u)
  <1>1. Ids(u) = Ids(t) /\ IsEngine(t) /\ IsEngine(u) /\ Newest(u) = Newest(t)
    BY DEF Kept, Grown, Ids, Newest
  <1>2. ASSUME NEW i \in Ids(u) PROVE Spare(u, i) >= Spare(e, i) + OneAt(Newest(u), i)
    <2>1. Spare(u, i) >= Spare(t, i) /\ Spare(t, i) >= Spare(e, i) + OneAt(Newest(t), i)
      BY <1>1 DEF Kept, Grown
    <2>2. /\ Spare(u, i) \in Int /\ Spare(t, i) \in Int /\ Spare(e, i) \in Int
          /\ OneAt(Newest(t), i) \in Int
      BY <1>1, EngineFacts DEF OneAt
    <2> QED BY <1>1, <2>1, <2>2
  <1> QED BY <1>2 DEF Grown, Kept

LEMMA MadeGrown ==
    ASSUME NEW e, IsEngine(e), NEW v, NEW req
    PROVE  Grown(e, Made(e, v, req))
  <1> DEFINE t == Made(e, v, req)
  <1>1. OneMore(e, t)
    BY MadeIs
  <1> HIDE DEF t
  <1>2. ASSUME NEW i \in Ids(t) PROVE Spare(t, i) >= Spare(e, i) + OneAt(Newest(t), i)
    <2>1. Spare(t, i) = Spare(e, i) + OneAt(Newest(t), i) /\ Spare(t, i) \in Int
      BY <1>1, EngineFacts DEF OneMore
    <2> QED BY <2>1
  <1> QED BY <1>1, <1>2 DEF OneMore, Grown, t

\* A frame keeps what its nodes name, but not its pseudo tensors.
LEMMA EmittedIs ==
    ASSUME NEW e, IsEngine(e), NEW op \in NodeOps, NEW ins \in Seq(Ids(e)), ins # <<>>, NEW par,
           NEW out \in Ids(e), NEW pseudo \in BOOLEAN
    PROVE  LET t == Emitted(e, op, ins, par, out, pseudo)
           IN /\ IsEngine(t) /\ Len(t.heap) = Len(e.heap) /\ Len(t.frames) = Len(e.frames)
              /\ \A i \in Ids(e) : Spare(t, i) >= Spare(e, i) - (IF pseudo THEN OneAt(out, i) ELSE 0)
  <1> DEFINE m == IF Len(ins) < 2 THEN Len(ins) ELSE 2
             named == SubSeq(ins, 1, m)
             x == Node(op, named, par, out)
             n == Len(e.frames)
             t1 == [e EXCEPT !.frames[n].nodes = Append(e.frames[n].nodes, x)]
             ids == IF pseudo THEN named ELSE Append(named, out)
             t2 == Retained(t1, ids)
             t == Emitted(e, op, ins, par, out, pseudo)
             lost(i) == IF pseudo THEN OneAt(out, i) ELSE 0
  <1>1. named \in Seq(Ids(e)) /\ named # <<>>
    <2>1. Len(ins) \in Nat \ {0} /\ \A k \in 1 .. Len(ins) : ins[k] \in Ids(e)
      BY EmptySeq, ElementOfSeq
    <2>2. m \in Nat /\ m >= 1 /\ m <= Len(ins)
      BY <2>1
    <2>3. \A k \in 1 .. m : ins[k] \in Ids(e)
      BY <2>1, <2>2
    <2> HIDE DEF m
    <2>4. named \in Seq(Ids(e)) /\ Len(named) = m
      BY <2>2, <2>3, SubSeqProperties
    <2>5. Len(<<>>) = 0
      OBVIOUS
    <2> QED BY <2>2, <2>4, <2>5
  <1> HIDE DEF named
  <1>2. ASSUME NEW i \in Ids(e) PROVE Spare(e, i) \in Int /\ lost(i) \in Nat
    BY EngineFacts DEF OneAt
  <1>3. CASE ~Recording(e)
    <2>1. t = e
      BY <1>3 DEF Emitted
    <2>2. \A i \in Ids(e) : Spare(e, i) >= Spare(e, i) - lost(i)
      BY <1>2
    <2> HIDE DEF t
    <2> QED BY <2>1, <2>2 DEF t
  <1>4. CASE Recording(e)
    <2>1. t = t2
      BY <1>4 DEF Emitted, named
    <2>2. x.op = op /\ x.ins = named /\ x.out = out
      BY DEF Node
    <2> HIDE DEF x, t
    <2>3. /\ IsEngine(t1) /\ t1.heap = e.heap /\ Len(t1.frames) = n
          /\ \A i \in Ids(e) : Spare(t1, i) = Spare(e, i) - Named(named, out, i)
      <3> DEFINE u == t1
      <3>1. x.op \in NodeOps /\ x.ins \in Seq(Ids(e)) /\ x.ins # <<>> /\ x.out \in Ids(e) /\ e.frames # <<>>
        BY <1>1, <1>4, <2>2 DEF Recording
      <3>2. u = [e EXCEPT !.frames[Len(e.frames)].nodes = Append(e.frames[Len(e.frames)].nodes, x)]
        OBVIOUS
      <3> HIDE DEF u
      <3>3. /\ IsEngine(u) /\ u.heap = e.heap /\ Len(u.frames) = Len(e.frames)
            /\ \A i \in Ids(e) : Spare(u, i) = Spare(e, i) - Named(x.ins, x.out, i)
        BY <3>1, <3>2, FrameAppend
      <3> QED BY <2>2, <3>3 DEF u
    <2> HIDE DEF t1
    <2>4. ids \in Seq(Ids(e)) /\ Ids(t1) = Ids(e)
      BY <1>1, <2>3, AppendProperties DEF Ids
    <2> HIDE DEF ids
    <2>5. SameNodes(t1, t2) /\ \A i \in Ids(e) : Spare(t2, i) = Spare(t1, i) + Occ(ids, i)
      BY <2>3, <2>4, RetainedIs
    <2> HIDE DEF t2
    <2>6. ASSUME NEW i \in Ids(e) PROVE Spare(t2, i) >= Spare(e, i) - lost(i)
      <3>1. Occ(ids, i) + lost(i) = Named(named, out, i) /\ Named(named, out, i) \in Nat /\ Occ(ids, i) \in Nat
        <4>1. /\ Occ(Append(named, out), i) = Named(named, out, i)
              /\ Named(named, out, i) \in Nat /\ Occ(named, i) \in Nat
          BY <1>1, NamedOcc
        <4>2. CASE pseudo
          BY <4>1, <4>2 DEF ids, Named
        <4>3. CASE ~pseudo
          BY <4>1, <4>3 DEF ids
        <4> QED BY <4>2, <4>3
      <3>2. Spare(t2, i) = Spare(e, i) - Named(named, out, i) + Occ(ids, i)
        BY <2>3, <2>5
      <3>3. Spare(e, i) \in Int /\ lost(i) \in Nat
        BY <1>2
      <3> HIDE DEF lost
      <3> QED BY <3>1, <3>2, <3>3
    <2>7. IsEngine(t) /\ Len(t.heap) = Len(e.heap) /\ Len(t.frames) = Len(e.frames)
      BY <2>1, <2>3, <2>5 DEF SameNodes
    <2> QED BY <2>1, <2>6, <2>7 DEF t
  <1> QED BY <1>3, <1>4

LEMMA EmittedKept ==
    ASSUME NEW e, IsEngine(e), NEW op \in NodeOps, NEW ins \in Seq(Ids(e)), ins # <<>>, NEW par,
           NEW out \in Ids(e)
    PROVE  Kept(e, Emitted(e, op, ins, par, out, FALSE))
  <1> DEFINE no == FALSE
             t == Emitted(e, op, ins, par, out, no)
  <1>1. no \in BOOLEAN
    OBVIOUS
  <1> HIDE DEF no
  <1>2. /\ IsEngine(t) /\ Len(t.heap) = Len(e.heap) /\ Len(t.frames) = Len(e.frames)
        /\ \A i \in Ids(e) : Spare(t, i) >= Spare(e, i) - (IF no THEN OneAt(out, i) ELSE 0)
    BY <1>1, EmittedIs
  <1> HIDE DEF t
  <1>3. ASSUME NEW i \in Ids(e) PROVE Spare(t, i) >= Spare(e, i)
    <2>1. (IF no THEN OneAt(out, i) ELSE 0) = 0
      BY DEF no
    <2>2. Spare(e, i) \in Int
      BY EngineFacts
    <2> QED BY <1>2, <2>1, <2>2
  <1>4. Kept(e, t)
    BY <1>2, <1>3 DEF Kept
  <1> QED BY <1>4 DEF t, no

LEMMA HookedIs ==
    ASSUME NEW e, IsEngine(e), NEW op \in Operations, NEW ins \in Seq(Ids(e)), ins # <<>>, NEW par,
           NEW out \in Ids(e)
    PROVE  Kept(e, Hooked(e, op, ins, par, out))
  <1> DEFINE t1 == [e EXCEPT !.heap[out].req = TRUE]
             t2 == OnTape(t1, op, ins, par, out)
             t == Emitted(t2, op, ins, par, out, FALSE)
  <1>1. Hooked(e, op, ins, par, out) = t
    BY DEF Hooked
  <1>2. SameNodes(e, t1) /\ \A i \in Ids(e) : Spare(t1, i) = Spare(e, i)
    <2> DEFINE u == t1
    <2>1. u = [e EXCEPT !.heap[out].req = TRUE]
      OBVIOUS
    <2> HIDE DEF u
    <2>2. SameNodes(e, u) /\ \A i \in Ids(e) : Spare(u, i) = Spare(e, i)
      BY <2>1, TrackedIs
    <2> QED BY <2>2 DEF u
  <1> HIDE DEF t1
  <1>3. Ids(t1) = Ids(e) /\ IsEngine(t1) /\ t1.frames = e.frames
    BY <1>2 DEF SameNodes, Ids
  <1>4. /\ IsEngine(t2) /\ Len(t2.heap) = Len(t1.heap) /\ t2.frames = t1.frames
        /\ \A i \in Ids(e) : Spare(t2, i) = Spare(t1, i)
    BY <1>3, OnTapeIs
  <1> HIDE DEF t2
  <1>5. Ids(t2) = Ids(e) /\ op \in NodeOps
    BY <1>3, <1>4 DEF Ids, NodeOps
  <1>6. Kept(t2, t)
    BY <1>4, <1>5, EmittedKept
  <1> HIDE DEF t
  <1>7. ASSUME NEW i \in Ids(e) PROVE Spare(t, i) >= Spare(e, i)
    <2>1. Spare(t2, i) = Spare(e, i) /\ Spare(e, i) \in Int
      BY <1>2, <1>4, EngineFacts
    <2>2. Spare(t, i) >= Spare(t2, i)
      BY <1>5, <1>6 DEF Kept
    <2> QED BY <2>1, <2>2
  <1> QED BY <1>1, <1>2, <1>3, <1>4, <1>6, <1>7 DEF Kept, SameNodes

\* An operation gives its result one reference, and takes none.
LEMMA OperatedIs ==
    ASSUME NEW e, IsEngine(e), NEW op \in Operations, NEW ins \in Seq(Ids(e)), NEW par
    PROVE  Grown(e, Operated(e, op, ins, par))
  <1> DEFINE t1 == Made(e, Computed(e, op, ins, par), FALSE)
             t == Operated(e, op, ins, par)
  <1>1. Grown(e, t1)
    BY MadeGrown
  <1>2. t = Recorded(t1, op, ins, par)
    BY DEF Operated
  <1> HIDE DEF t1, t
  <1>3. CASE t = t1
    BY <1>1, <1>3 DEF t
  <1>4. CASE t # t1
    <2>1. t = Hooked(t1, op, ins, par, Newest(t1)) /\ \E k \in DOMAIN ins : TRUE
      BY <1>2, <1>4 DEF Recorded
    <2>2. ins # <<>>
      BY <2>1
    <2>3. ins \in Seq(Ids(t1)) /\ Newest(t1) \in Ids(t1) /\ IsEngine(t1)
      <3>1. Len(e.heap) \in Nat /\ Len(t1.heap) = Len(e.heap) + 1
        BY <1>1, EngineFacts DEF Grown
      <3>2. Ids(e) \subseteq Ids(t1) /\ Newest(t1) \in Ids(t1)
        BY <3>1 DEF Ids, Newest
      <3> QED BY <1>1, <3>2 DEF Grown
    <2>4. Kept(t1, t)
      BY <2>1, <2>2, <2>3, HookedIs
    <2> QED BY <1>1, <2>4, GrownKept DEF t
  <1> QED BY <1>3, <1>4

\* t has the tensors of e and perhaps more, and none has lost a spare
\* reference.
NoLess(e, t) ==
    /\ IsEngine(t) /\ Len(t.heap) >= Len(e.heap) /\ Len(t.frames) = Len(e.frames)
    /\ \A i \in Ids(t) : Spare(t, i) >= Spare(e, i)

LEMMA GrownNoLess ==
    ASSUME NEW e, IsEngine(e), NEW t, Kept(e, t) \/ Grown(e, t)
    PROVE  NoLess(e, t) /\ Ids(e) \subseteq Ids(t) /\ (Grown(e, t) => Newest(t) \in Ids(t))
  <1>1. Len(e.heap) \in Nat
    BY EngineFacts
  <1>2. CASE Kept(e, t)
    <2>1. Ids(t) = Ids(e) /\ ~ Grown(e, t)
      BY <1>1, <1>2 DEF Kept, Grown, Ids
    <2> QED BY <1>1, <1>2, <2>1 DEF Kept, NoLess
  <1>3. CASE Grown(e, t)
    <2>1. ASSUME NEW i \in Ids(t) PROVE Spare(t, i) >= Spare(e, i)
      <3>1. Spare(t, i) >= Spare(e, i) + OneAt(Newest(t), i) /\ Spare(t, i) \in Int /\ Spare(e, i) \in Int
        BY <1>3, EngineFacts DEF Grown
      <3>2. OneAt(Newest(t), i) \in {0, 1}
        BY DEF OneAt
      <3> QED BY <3>1, <3>2
    <2>2. Len(t.heap) = Len(e.heap) + 1
      BY <1>3 DEF Grown
    <2>3. Ids(e) \subseteq Ids(t) /\ Newest(t) \in Ids(t)
      BY <1>1, <2>2 DEF Ids, Newest
    <2> QED BY <1>1, <1>3, <2>1, <2>2, <2>3 DEF Grown, NoLess
  <1> QED BY <1>2, <1>3

LEMMA NoLessNoLess ==
    ASSUME NEW e, IsEngine(e), NEW t, NoLess(e, t), NEW u, NoLess(t, u)
    PROVE  NoLess(e, u)
  <1>1. Len(e.heap) \in Nat /\ Len(t.heap) \in Nat /\ Len(u.heap) \in Nat
    BY EngineFacts DEF NoLess
  <1>2. Len(u.heap) >= Len(e.heap) /\ IsEngine(t) /\ IsEngine(u)
    BY <1>1 DEF NoLess
  <1>3. ASSUME NEW i \in Ids(u) PROVE Spare(u, i) >= Spare(e, i)
    <2>1. Spare(u, i) >= Spare(t, i)
      BY DEF NoLess
    <2>2. i \in Ids(t) => Spare(t, i) >= Spare(e, i)
      BY DEF NoLess
    <2>3. i \notin Ids(t) => Spare(t, i) = 0 /\ Spare(e, i) = 0
      <3>1. Ids(e) \subseteq Ids(t)
        BY <1>1 DEF NoLess, Ids
      <3> QED BY <3>1 DEF Spare
    <2>4. Spare(u, i) \in Int /\ Spare(t, i) \in Int /\ Spare(e, i) \in Int
      BY <1>2, EngineFacts
    <2> QED BY <2>1, <2>2, <2>3, <2>4
  <1> QED BY <1>2, <1>3 DEF NoLess

----------------------------------------------------------------------------
(* Reductions *)

LEMMA EmittedPseudo ==
    ASSUME NEW e, IsEngine(e), NEW op \in NodeOps, NEW ins \in Seq(Ids(e)), ins # <<>>, NEW par,
           NEW out \in Ids(e)
    PROVE  LET t == Emitted(e, op, ins, par, out, TRUE)
           IN /\ IsEngine(t) /\ Len(t.heap) = Len(e.heap) /\ Len(t.frames) = Len(e.frames)
              /\ \A i \in Ids(e) : Spare(t, i) >= Spare(e, i) - OneAt(out, i)
  <1> DEFINE yes == TRUE
             t == Emitted(e, op, ins, par, out, yes)
  <1>1. yes \in BOOLEAN
    OBVIOUS
  <1> HIDE DEF yes
  <1>2. /\ IsEngine(t) /\ Len(t.heap) = Len(e.heap) /\ Len(t.frames) = Len(e.frames)
        /\ \A i \in Ids(e) : Spare(t, i) >= Spare(e, i) - (IF yes THEN OneAt(out, i) ELSE 0)
    BY <1>1, EmittedIs
  <1> HIDE DEF t
  <1>3. ASSUME NEW i \in Ids(e) PROVE Spare(t, i) >= Spare(e, i) - OneAt(out, i)
    <2>1. (IF yes THEN OneAt(out, i) ELSE 0) = OneAt(out, i)
      BY DEF yes
    <2> QED BY <1>2, <2>1
  <1> QED BY <1>2, <1>3 DEF t, yes

LEMMA PseudoIs ==
    ASSUME NEW e, IsEngine(e), NEW j \in Ids(e), j \notin e.pseudo,
           NEW t, t = [e EXCEPT !.pseudo = e.pseudo \union {j}]
    PROVE  /\ IsEngine(t) /\ t.heap = e.heap /\ t.frames = e.frames
           /\ \A i \in Ids(e) : Spare(t, i) = Spare(e, i) - OneAt(j, i)
  <1>1. t.heap = e.heap /\ t.tape = e.tape /\ t.pseudo = e.pseudo \union {j} /\ t.frames = e.frames /\ IsRecord(t)
    BY DEF IsEngine, IsRecord
  <1>2. Ids(t) = Ids(e)
    BY <1>1 DEF Ids
  <1>3. IsEngine(t)
    BY <1>1, <1>2 DEF IsEngine
  <1>4. ASSUME NEW i \in Ids(e) PROVE Spare(t, i) = Spare(e, i) - OneAt(j, i)
    <2>1. OneIn(i, t.pseudo) = OneIn(i, e.pseudo) + OneAt(j, i) /\ OneIn(i, e.pseudo) \in Nat /\ OneAt(j, i) \in Int
      BY <1>1 DEF OneIn, OneAt
    <2>2. Occ(NamesOf(e.tape), i) \in Nat /\ FramesOcc(e.frames, i) \in Nat
      BY EngineFacts
    <2>3. Accounted(t, i) = Accounted(e, i) + OneAt(j, i)
      BY <1>1, <2>1, <2>2 DEF Accounted
    <2> DEFINE d == OneAt(j, i)
    <2>4. t.heap = e.heap /\ d \in Int /\ Accounted(t, i) = Accounted(e, i) + d
      BY <1>1, <2>1, <2>3
    <2> HIDE DEF d
    <2>5. Spare(t, i) = Spare(e, i) - d
      BY <2>4, SpareShift
    <2> QED BY <2>5 DEF d
  <1> QED BY <1>1, <1>3, <1>4

\* A reduction takes no reference from any tensor: its pseudo tensors are the
\* engine's own.
LEMMA AfterReductionIs ==
    ASSUME NEW e, IsEngine(e), NEW op \in Reductions, NEW i \in Ids(e)
    PROVE  NoLess(e, AfterReduction(e, op, i))
  <1> DEFINE ins == <<i>>
             zero == Filled(<<1>>, Zero)
             par == Reduction(e, op, i).v
             first == Made(e, zero, FALSE)
             j == Newest(first)
             marked == [first EXCEPT !.pseudo = first.pseudo \union {j}]
             taped == OnTape(marked, op, ins, par, j)
             second == Made(taped, zero, FALSE)
             k == Newest(second)
             both == Emitted(second, op, ins, par, k, TRUE)
             t == AfterReduction(e, op, i)
  <1>1. t = e \/ t = taped \/ t = both
    BY DEF AfterReduction
  <1> HIDE DEF zero, par, t
  <1>2. NoLess(e, e)
    <2>1. \A n \in Ids(e) : Spare(e, n) >= Spare(e, n)
      BY EngineFacts
    <2>2. Len(e.heap) >= Len(e.heap)
      BY EngineFacts
    <2> QED BY <2>1, <2>2 DEF NoLess
  <1>3. OneMore(e, first)
    BY MadeIs
  <1> HIDE DEF first
  <1>4. /\ IsEngine(first) /\ Ids(e) \subseteq Ids(first) /\ j \in Ids(first) /\ j \notin first.pseudo
        /\ Len(first.heap) = Len(e.heap) + 1 /\ Len(e.heap) \in Nat /\ i \in Ids(first)
    <2>1. Len(first.heap) = Len(e.heap) + 1 /\ Len(e.heap) \in Nat /\ IsEngine(first)
      BY <1>3, EngineFacts DEF OneMore
    <2>2. first.pseudo \subseteq Ids(e)
      BY <1>3 DEF OneMore, IsEngine
    <2> QED BY <2>1, <2>2 DEF Ids, Newest
  <1> HIDE DEF j
  <1>16. ins \in Seq(Ids(first)) /\ ins # <<>>
    BY <1>4
  <1>5. /\ IsEngine(marked) /\ marked.heap = first.heap /\ marked.frames = first.frames
        /\ \A n \in Ids(first) : Spare(marked, n) = Spare(first, n) - OneAt(j, n)
    <2> DEFINE u == marked
    <2>1. u = [first EXCEPT !.pseudo = first.pseudo \union {j}]
      OBVIOUS
    <2> HIDE DEF u
    <2>2. /\ IsEngine(u) /\ u.heap = first.heap /\ u.frames = first.frames
          /\ \A n \in Ids(first) : Spare(u, n) = Spare(first, n) - OneAt(j, n)
      BY <1>4, <2>1, PseudoIs
    <2> QED BY <2>2 DEF u
  <1> HIDE DEF marked
  <1>6. Ids(marked) = Ids(first) /\ ins \in Seq(Ids(first)) /\ ins # <<>>
    BY <1>16, <1>5 DEF Ids
  <1> HIDE DEF ins
  <1>7. /\ IsEngine(taped) /\ Len(taped.heap) = Len(first.heap) /\ taped.frames = first.frames
        /\ \A n \in Ids(first) : Spare(taped, n) = Spare(marked, n)
    <2>1. IsEngine(marked) /\ ins \in Seq(Ids(marked)) /\ j \in Ids(marked)
      BY <1>4, <1>5, <1>6
    <2>2. /\ IsEngine(taped) /\ Len(taped.heap) = Len(marked.heap) /\ taped.frames = marked.frames
          /\ \A n \in Ids(marked) : Spare(taped, n) = Spare(marked, n)
      BY <2>1, OnTapeIs
    <2> HIDE DEF taped
    <2> QED BY <1>5, <1>6, <2>2
  <1> HIDE DEF taped
  <1>8. Ids(taped) = Ids(first) /\ Len(taped.frames) = Len(e.frames)
    BY <1>3, <1>7 DEF Ids, OneMore
  <1>9. \A n \in Ids(first) : Spare(taped, n) = Spare(e, n)
    <2> SUFFICES ASSUME NEW n \in Ids(first) PROVE Spare(taped, n) = Spare(e, n)
      OBVIOUS
    <2>1. Spare(first, n) = Spare(e, n) + OneAt(j, n)
      BY <1>3 DEF OneMore, j
    <2>2. Spare(e, n) \in Int /\ OneAt(j, n) \in Int
      BY EngineFacts DEF OneAt
    <2> QED BY <1>5, <1>7, <2>1, <2>2
  <1>10. NoLess(e, taped)
    <2>1. \A n \in Ids(taped) : Spare(taped, n) >= Spare(e, n)
      BY <1>7, <1>8, <1>9, EngineFacts
    <2> QED BY <1>4, <1>7, <1>8, <2>1 DEF NoLess
  <1>11. OneMore(taped, second)
    BY <1>7, MadeIs
  <1> HIDE DEF second
  <1>12. /\ IsEngine(second) /\ k \in Ids(second) /\ ins \in Seq(Ids(second)) /\ ins # <<>>
         /\ op \in NodeOps
    <2>1. Len(second.heap) = Len(taped.heap) + 1 /\ Len(taped.heap) \in Nat /\ IsEngine(second)
      BY <1>7, <1>11, EngineFacts DEF OneMore
    <2>2. k \in Ids(second) /\ i \in Ids(second)
      BY <1>4, <1>8, <2>1 DEF Ids, Newest
    <2>3. ins \in Seq(Ids(second)) /\ ins # <<>>
      BY <2>2 DEF ins
    <2> QED BY <2>1, <2>2, <2>3 DEF NodeOps
  <1> HIDE DEF k
  <1>13. /\ IsEngine(both) /\ Len(both.heap) = Len(second.heap) /\ Len(both.frames) = Len(second.frames)
         /\ \A n \in Ids(second) : Spare(both, n) >= Spare(second, n) - OneAt(k, n)
    BY <1>12, EmittedPseudo
  <1> HIDE DEF both
  <1>14. NoLess(taped, both)
    <2>1. Ids(both) = Ids(second) /\ Len(both.frames) = Len(taped.frames)
      BY <1>11, <1>13 DEF Ids, OneMore
    <2>2. ASSUME NEW n \in Ids(both) PROVE Spare(both, n) >= Spare(taped, n)
      <3>1. Spare(second, n) = Spare(taped, n) + OneAt(k, n)
        BY <1>11, <2>1 DEF OneMore, k
      <3>2. Spare(taped, n) \in Int /\ OneAt(k, n) \in Int
        BY <1>7, EngineFacts DEF OneAt
      <3>3. Spare(both, n) >= Spare(second, n) - OneAt(k, n) /\ Spare(both, n) \in Int
        BY <1>13, <2>1, EngineFacts
      <3> QED BY <3>1, <3>2, <3>3
    <2>3. Len(both.heap) >= Len(taped.heap)
      <3>1. Len(both.heap) = Len(taped.heap) + 1 /\ Len(taped.heap) \in Nat
        BY <1>7, <1>11, <1>13, EngineFacts DEF OneMore
      <3> QED BY <3>1
    <2> QED BY <1>13, <2>1, <2>2, <2>3 DEF NoLess
  <1>15. NoLess(e, both)
    BY <1>10, <1>14, NoLessNoLess
  <1> QED BY <1>1, <1>2, <1>10, <1>15 DEF t

----------------------------------------------------------------------------
(* Clearing the first tape *)

LEMMA ListedIs ==
    ASSUME NEW n \in Nat, NEW f, f = [i \in 1 .. n |-> f[i]]
    PROVE  Listed(f) = f
  <1> DEFINE S == {f[i] : i \in DOMAIN f}
  <1>1. f \in Seq(S)
    <2>1. IsSeq(f)
      BY FunctionSeq
    <2> QED BY <2>1 DEF IsSeq
  <1> HIDE DEF S
  <1>2. f \o <<>> = f
    BY <1>1, ConcatEmptySeq
  <1> QED BY <1>2 DEF Listed

LEMMA GivenBackIs ==
    ASSUME NEW e, IsEngine(e), NEW S
    PROVE  /\ SameNodes(e, GivenBack(e, S))
           /\ \A i \in Ids(e) : Spare(GivenBack(e, S), i) = Spare(e, i) - OneIn(i, S)
  <1> DEFINE back(i) == IF i \in S THEN [e.heap[i] EXCEPT !.refs = @ - 1] ELSE e.heap[i]
             heap == [i \in DOMAIN e.heap |-> back(i)]
             t == GivenBack(e, S)
             d == [i \in Ids(e) |-> IF i \in S THEN -1 ELSE 0]
             less == [i \in Ids(e) |-> [t |-> e.heap[i].t, req |-> e.heap[i].req, refs |-> e.heap[i].refs + d[i]]]
  <1>1. DOMAIN e.heap = Ids(e) /\ Len(e.heap) \in Nat
    BY EngineFacts
  <1>2. \A i \in Ids(e) : back(i) = less[i]
    <2> SUFFICES ASSUME NEW i \in Ids(e) PROVE back(i) = less[i]
      OBVIOUS
    <2> DEFINE x == e.heap[i]
    <2>1. x = [t |-> x.t, req |-> x.req, refs |-> x.refs] /\ x.refs \in Int
      BY DEF IsEngine, IsEntry
    <2>2. less[i] = [t |-> x.t, req |-> x.req, refs |-> x.refs + IF i \in S THEN -1 ELSE 0]
      OBVIOUS
    <2> HIDE DEF x, less
    <2>3. x.refs + 0 = x.refs /\ x.refs + (-1) = x.refs - 1
      BY <2>1
    <2>4. CASE i \in S
      <3>1. [x EXCEPT !.refs = @ - 1] = [t |-> x.t, req |-> x.req, refs |-> x.refs - 1]
        BY <2>1
      <3>2. less[i] = [t |-> x.t, req |-> x.req, refs |-> x.refs - 1]
        BY <2>2, <2>3, <2>4
      <3> QED BY <2>4, <3>1, <3>2 DEF x
    <2>5. CASE i \notin S
      BY <2>1, <2>2, <2>3, <2>5 DEF x
    <2> QED BY <2>4, <2>5
  <1>3. heap = less
    <2> HIDE DEF back
    <2> QED BY <1>1, <1>2
  <1>4. Listed(heap) = less
    <2>1. less = [i \in 1 .. Len(e.heap) |-> less[i]]
      BY DEF Ids
    <2> HIDE DEF less, heap
    <2>2. Listed(less) = less
      BY <1>1, <2>1, ListedIs
    <2> QED BY <1>3, <2>2
  <1>5. t = [e EXCEPT !.heap = less]
    <2>1. t = [e EXCEPT !.heap = Listed(heap)]
      BY DEF GivenBack
    <2> HIDE DEF less, heap, t
    <2> QED BY <1>4, <2>1
  <1> HIDE DEF t
  <1>6. Recounted(e, t, d)
    <2> HIDE DEF less
    <2>1. IsRecord(t) /\ t.heap = less /\ t.tape = e.tape /\ t.pseudo = e.pseudo /\ t.frames = e.frames
      BY <1>5 DEF IsEngine, IsRecord
    <2> HIDE DEF d
    <2> QED BY <2>1 DEF Recounted, less
  <1>7. d \in [Ids(e) -> Int]
    OBVIOUS
  <1>8. \A i \in Ids(e) : d[i] = -OneIn(i, S) /\ OneIn(i, S) \in Int
    BY DEF OneIn
  <1> HIDE DEF d
  <1>9. SameNodes(e, t) /\ \A i \in Ids(e) : Spare(t, i) = Spare(e, i) + d[i]
    BY <1>6, <1>7, RecountedEngine DEF SameNodes
  <1>10. ASSUME NEW i \in Ids(e) PROVE Spare(t, i) = Spare(e, i) - OneIn(i, S)
    <2>1. Spare(e, i) \in Int
      BY EngineFacts
    <2> QED BY <1>8, <1>9, <2>1
  <1> QED BY <1>9, <1>10 DEF t

LEMMA EmptiedIs ==
    ASSUME NEW e, IsEngine(e), NEW t, t = [e EXCEPT !.tape = <<>>, !.pseudo = {}]
    PROVE  /\ IsEngine(t) /\ t.heap = e.heap /\ t.tape = <<>> /\ t.pseudo = {} /\ t.frames = e.frames
           /\ \A i \in Ids(e) : Spare(t, i) = Spare(e, i) + OneIn(i, e.pseudo) + Occ(NamesOf(e.tape), i)
  <1>1. t.heap = e.heap /\ t.tape = <<>> /\ t.pseudo = {} /\ t.frames = e.frames /\ IsRecord(t)
    BY DEF IsEngine, IsRecord
  <1>2. Ids(t) = Ids(e)
    BY <1>1 DEF Ids
  <1>3. NodesOver(<<>>, Ids(e))
    <2>1. <<>> \in Seq({}) /\ Len(<<>>) = 0
      OBVIOUS
    <2>2. IsSeq(<<>>)
      BY <2>1, SeqOver
    <2> QED BY <2>1, <2>2 DEF NodesOver
  <1>4. IsEngine(t)
    <2>1. NodesOver(t.tape, Ids(t)) /\ t.pseudo \subseteq Ids(t)
      BY <1>1, <1>2, <1>3
    <2> QED BY <1>1, <1>2, <2>1 DEF IsEngine
  <1>5. ASSUME NEW i \in Ids(e)
        PROVE  Spare(t, i) = Spare(e, i) + OneIn(i, e.pseudo) + Occ(NamesOf(e.tape), i)
    <2> DEFINE a == OneIn(i, e.pseudo)
               b == Occ(NamesOf(e.tape), i)
               d == -(a + b)
    <2>1. a \in Int /\ b \in Int /\ FramesOcc(e.frames, i) \in Int
      BY EngineFacts DEF OneIn
    <2>2. OneIn(i, t.pseudo) = 0 /\ Occ(NamesOf(t.tape), i) = 0
      <3>1. OneIn(i, {}) = 0
        BY DEF OneIn
      <3>2. NamesOf(<<>>) = <<>> /\ <<>> \in Seq(Ids(e))
        BY <1>3, NamesType
      <3>3. Occ(<<>>, i) = 0
        BY <3>2, OccType
      <3> QED BY <1>1, <3>1, <3>2, <3>3
    <2> HIDE DEF a, b
    <2>3. Accounted(t, i) = FramesOcc(e.frames, i) /\ Accounted(e, i) = a + b + FramesOcc(e.frames, i)
      BY <1>1, <2>1, <2>2 DEF Accounted, a, b
    <2>4. d \in Int /\ Accounted(t, i) = Accounted(e, i) + d
      BY <2>1, <2>3
    <2>5. d = -(a + b)
      OBVIOUS
    <2> HIDE DEF d
    <2>6. Spare(t, i) = Spare(e, i) - d
      <3>1. t.heap = e.heap
        BY <1>1
      <3> QED BY <2>4, <3>1, SpareShift
    <2>7. Spare(e, i) \in Int
      BY EngineFacts
    <2>8. Spare(t, i) = Spare(e, i) + a + b
      BY <2>1, <2>5, <2>6, <2>7
    <2> QED BY <2>8 DEF a, b
  <1> QED BY <1>1, <1>4, <1>5

\* A clear gives back what the tape took, and nothing else.
LEMMA ClearedIs ==
    ASSUME NEW e, IsEngine(e)
    PROVE  LET t == Cleared(e)
           IN /\ Kept(e, t) /\ t.frames = e.frames
  <1> DEFINE names == NamesOf(e.tape)
             u == Released(e, names)
             v == GivenBack(u, e.pseudo)
             t == [v EXCEPT !.tape = <<>>, !.pseudo = {}]
  <1>1. Cleared(e) = t
    BY DEF Cleared
  <1>2. names \in Seq(Ids(e))
    BY NamesType DEF IsEngine
  <1> HIDE DEF names
  <1>3. SameNodes(e, u) /\ \A i \in Ids(e) : Spare(u, i) = Spare(e, i) - Occ(names, i)
    BY <1>2, ReleasedIs
  <1> HIDE DEF u
  <1>4. IsEngine(u) /\ Ids(u) = Ids(e) /\ u.tape = e.tape /\ u.pseudo = e.pseudo /\ u.frames = e.frames
    BY <1>3 DEF SameNodes, Ids
  <1>5. SameNodes(u, v) /\ \A i \in Ids(u) : Spare(v, i) = Spare(u, i) - OneIn(i, e.pseudo)
    BY <1>4, GivenBackIs
  <1> HIDE DEF v
  <1>6. /\ IsEngine(v) /\ Ids(v) = Ids(e) /\ v.tape = e.tape /\ v.pseudo = e.pseudo /\ v.frames = e.frames
        /\ Len(v.heap) = Len(e.heap)
    BY <1>3, <1>4, <1>5 DEF SameNodes, Ids
  <1>7. /\ IsEngine(t) /\ t.heap = v.heap /\ t.frames = v.frames
        /\ \A i \in Ids(v) : Spare(t, i) = Spare(v, i) + OneIn(i, v.pseudo) + Occ(NamesOf(v.tape), i)
    <2> DEFINE w == t
    <2>1. w = [v EXCEPT !.tape = <<>>, !.pseudo = {}]
      OBVIOUS
    <2> HIDE DEF w
    <2>2. /\ IsEngine(w) /\ w.heap = v.heap /\ w.frames = v.frames
          /\ \A i \in Ids(v) : Spare(w, i) = Spare(v, i) + OneIn(i, v.pseudo) + Occ(NamesOf(v.tape), i)
      BY <1>6, <2>1, EmptiedIs
    <2> QED BY <2>2 DEF w
  <1> HIDE DEF t
  <1>8. ASSUME NEW i \in Ids(e) PROVE Spare(t, i) = Spare(e, i)
    <2>1. Spare(e, i) \in Int /\ OneIn(i, e.pseudo) \in Int /\ Occ(names, i) \in Int
      BY EngineFacts DEF OneIn, names
    <2>2. Spare(t, i) = Spare(v, i) + OneIn(i, e.pseudo) + Occ(names, i)
      BY <1>6, <1>7 DEF names
    <2>3. Spare(v, i) = Spare(e, i) - Occ(names, i) - OneIn(i, e.pseudo)
      BY <1>3, <1>4, <1>5
    <2> QED BY <2>1, <2>2, <2>3
  <1>9. Kept(e, t) /\ t.frames = e.frames
    <2>1. \A i \in Ids(e) : Spare(t, i) >= Spare(e, i)
      BY <1>8, EngineFacts
    <2> QED BY <1>6, <1>7, <2>1 DEF Kept
  <1> QED BY <1>1, <1>9

LEMMA KeptSelf ==
    ASSUME NEW e, IsEngine(e)
    PROVE  Kept(e, e)
  <1>1. \A i \in Ids(e) : Spare(e, i) >= Spare(e, i)
    BY EngineFacts
  <1> QED BY <1>1 DEF Kept

\* GRAD: the gradient belongs to the program.
LEMMA DifferentiatedIs ==
    ASSUME NEW e, IsEngine(e), NEW num, NEW w, NEW retain \in BOOLEAN
    PROVE  LET r == Differentiated(e, num, w, retain)
           IN /\ r.ok \in BOOLEAN
              /\ IF r.ok THEN Grown(e, r.engine) ELSE Kept(e, r.engine)
  <1> DEFINE last == e.tape[Len(e.tape)]
             seed == Filled(Val(e, last.out).shape, One)
             g == Propagated(e, [i \in {last.out} |-> seed])
             r == Differentiated(e, num, w, retain)
             u == IF retain THEN e ELSE Cleared(e)
             found == [engine |-> Made(u, g[w], FALSE), ok |-> TRUE, why |-> ""]
  <1>1. Kept(e, Cleared(e)) /\ Kept(e, e)
    BY ClearedIs, KeptSelf
  <1>2. Kept(e, u) /\ IsEngine(u)
    BY <1>1 DEF Kept
  <1>3. Grown(e, Made(u, g[w], FALSE))
    <2> DEFINE v == Made(u, g[w], FALSE)
    <2> HIDE DEF g, u
    <2>1. Grown(u, v)
      BY <1>2, MadeGrown
    <2> HIDE DEF v
    <2>2. Ids(u) = Ids(e) /\ Len(v.heap) = Len(e.heap) + 1 /\ Len(v.frames) = Len(e.frames) /\ IsEngine(v)
      BY <1>2, <2>1 DEF Kept, Grown, Ids
    <2>3. ASSUME NEW i \in Ids(v) PROVE Spare(v, i) >= Spare(e, i) + OneAt(Newest(v), i)
      <3>1. Spare(v, i) >= Spare(u, i) + OneAt(Newest(v), i)
        BY <2>1 DEF Grown
      <3>2. Spare(u, i) >= Spare(e, i)
        <4>1. CASE i \in Ids(e)
          BY <1>2, <4>1 DEF Kept
        <4>2. CASE i \notin Ids(e)
          <5>1. Spare(u, i) = 0 /\ Spare(e, i) = 0
            BY <2>2, <4>2 DEF Spare
          <5> QED BY <5>1
        <4> QED BY <4>1, <4>2
      <3>3. /\ Spare(v, i) \in Int /\ Spare(u, i) \in Int /\ Spare(e, i) \in Int
            /\ OneAt(Newest(v), i) \in Int
        BY <1>2, <2>2, EngineFacts DEF OneAt
      <3> QED BY <3>1, <3>2, <3>3
    <2>4. Grown(e, v)
      BY <2>2, <2>3 DEF Grown
    <2> QED BY <2>4 DEF v
  <1>4. \/ \E why : r = Failed(Cleared(e), why)
        \/ \E why : r = Failed(e, why)
        \/ r = found
    <2>1. \/ \E why : r = Failed(Cleared(e), why)
          \/ \E why : r = Failed(e, why)
          \/ r = Found(e, g, w, retain)
      BY DEF Differentiated
    <2> HIDE DEF r, g
    <2>2. Found(e, g, w, retain) = Failed(Cleared(e), "w not in graph") \/ Found(e, g, w, retain) = found
      BY DEF Found
    <2> QED BY <2>1, <2>2
  <1> HIDE DEF r, u, g
  <1>5. CASE \E why : r = Failed(Cleared(e), why)
    <2>1. r.ok = FALSE /\ r.engine = Cleared(e)
      BY <1>5 DEF Failed
    <2> QED BY <1>1, <2>1 DEF r
  <1>6. CASE \E why : r = Failed(e, why)
    <2>1. r.ok = FALSE /\ r.engine = e
      BY <1>6 DEF Failed
    <2> QED BY <1>1, <2>1 DEF r
  <1>7. CASE r = found
    <2>1. r.ok = TRUE /\ r.engine = Made(u, g[w], FALSE)
      BY <1>7
    <2> QED BY <1>3, <2>1 DEF r
  <1> QED BY <1>4, <1>5, <1>6, <1>7

----------------------------------------------------------------------------
(* A backward pass of the second engine *)

\* How many gradients of the map g the tensor i is.
GradsAt(g, i) == Cardinality({j \in DOMAIN g : g[j] = i})

IsPass(p) ==
    /\ p = [s |-> p.s, g |-> p.g, ok |-> p.ok, names |-> p.names, kept |-> p.kept]
    /\ IsEngine(p.s) /\ p.ok \in BOOLEAN
    /\ IsFiniteSet(DOMAIN p.g) /\ \A j \in DOMAIN p.g : p.g[j] \in Ids(p.s)
    /\ \A x \in DOMAIN p.names : p.names[x] \in Ids(p.s)
    /\ p.kept \in Seq(Ids(p.s))

\* The spare references that are neither of the map nor of the rule under way.
Owned(p, i) == Spare(p.s, i) - GradsAt(p.g, i) - Occ(p.kept, i)

\* A pass over n frames, with m tensors or more, that has left b[i] references
\* of tensor i to others.
Pass(b, n, m, p) ==
    /\ IsPass(p) /\ Len(p.s.frames) = n /\ m <= Len(p.s.heap)
    /\ \A i \in Nat : Owned(p, i) >= b[i]
Plus(b, x) == [i \in Nat |-> b[i] + OneAt(x, i)]

LEMMA GradsAtType ==
    ASSUME NEW g, IsFiniteSet(DOMAIN g), NEW i
    PROVE  /\ GradsAt(g, i) \in Nat
           /\ (\A j \in DOMAIN g : g[j] # i) => GradsAt(g, i) = 0
           /\ (\E j \in DOMAIN g : g[j] = i) => GradsAt(g, i) >= 1
  <1> DEFINE S == {j \in DOMAIN g : g[j] = i}
  <1>1. IsFiniteSet(S) /\ Cardinality(S) \in Nat
    BY FS_Subset, FS_CardinalityType
  <1>2. S = {} => Cardinality(S) = 0
    BY FS_EmptySet
  <1>3. S # {} => Cardinality(S) # 0
    BY <1>1, FS_EmptySet
  <1>4. /\ (\A j \in DOMAIN g : g[j] # i) => S = {}
        /\ (\E j \in DOMAIN g : g[j] = i) => S # {}
    OBVIOUS
  <1> HIDE DEF S
  <1>5. S # {} => Cardinality(S) >= 1
    BY <1>1, <1>3
  <1> QED BY <1>1, <1>2, <1>4, <1>5 DEF GradsAt, S

\* The map with id for j.
LEMMA GradsAtSet ==
    ASSUME NEW g, IsFiniteSet(DOMAIN g), NEW j, NEW id,
           NEW h, DOMAIN h = DOMAIN g \union {j}, h[j] = id, \A k \in DOMAIN g \ {j} : h[k] = g[k], NEW i
    PROVE  /\ IsFiniteSet(DOMAIN h)
           /\ GradsAt(h, i) = GradsAt(g, i) + OneAt(id, i) - (IF j \in DOMAIN g THEN OneAt(g[j], i) ELSE 0)
  <1> DEFINE A == {k \in DOMAIN g : g[k] = i}
             B == A \ {j}
             C == {k \in DOMAIN h : h[k] = i}
  <1>1. DOMAIN h = DOMAIN g \union {j} /\ IsFiniteSet(DOMAIN h)
    BY FS_AddElement
  <1>2. C = IF id = i THEN B \union {j} ELSE B
    BY <1>1
  <1>3. IsFiniteSet(A) /\ IsFiniteSet(B) /\ j \notin B
    BY FS_Subset
  <1>4. j \in A <=> j \in DOMAIN g /\ g[j] = i
    OBVIOUS
  <1> HIDE DEF C
  <1>5. Cardinality(A) \in Nat /\ Cardinality(B) \in Nat
    BY <1>3, FS_CardinalityType
  <1>6. Cardinality(A) = Cardinality(B) + (IF j \in A THEN 1 ELSE 0)
    <2>1. CASE j \in A
      <3>1. Cardinality(A \ {j}) = Cardinality(A) - 1
        BY <1>3, <2>1, FS_RemoveElement
      <3> HIDE DEF A
      <3> QED BY <1>5, <2>1, <3>1
    <2>2. CASE j \notin A
      <3>1. A \ {j} = A
        BY <2>2
      <3> HIDE DEF A
      <3> QED BY <1>5, <2>2, <3>1
    <2> QED BY <2>1, <2>2
  <1> HIDE DEF A, B
  <1>7. Cardinality(C) = Cardinality(B) + OneAt(id, i)
    <2>1. Cardinality(B \union {j}) = Cardinality(B) + 1
      BY <1>3, FS_AddElement
    <2> QED BY <1>2, <1>5, <2>1 DEF OneAt
  <1>8. (IF j \in A THEN 1 ELSE 0) = (IF j \in DOMAIN g THEN OneAt(g[j], i) ELSE 0)
    BY <1>4 DEF OneAt
  <1>9. OneAt(id, i) \in Int
    BY DEF OneAt
  <1>10. Cardinality(C) = Cardinality(A) + OneAt(id, i) - (IF j \in A THEN 1 ELSE 0)
    BY <1>5, <1>6, <1>7, <1>9
  <1> QED BY <1>1, <1>8, <1>10 DEF GradsAt, A, C

LEMMA PassFacts ==
    ASSUME NEW p, IsPass(p)
    PROVE  /\ IsEngine(p.s) /\ Len(p.s.heap) \in Nat
           /\ \A i : /\ Spare(p.s, i) \in Int /\ GradsAt(p.g, i) \in Nat /\ Occ(p.kept, i) \in Nat
                     /\ Owned(p, i) \in Int /\ (i \notin Ids(p.s) => Owned(p, i) = 0)
  <1>1. IsEngine(p.s) /\ Len(p.s.heap) \in Nat
    BY EngineFacts DEF IsPass
  <1>2. ASSUME NEW i
        PROVE  /\ Spare(p.s, i) \in Int /\ GradsAt(p.g, i) \in Nat /\ Occ(p.kept, i) \in Nat
               /\ Owned(p, i) \in Int /\ (i \notin Ids(p.s) => Owned(p, i) = 0)
    <2>1. Spare(p.s, i) \in Int /\ GradsAt(p.g, i) \in Nat
      BY <1>1, EngineFacts, GradsAtType DEF IsPass
    <2>2. Occ(p.kept, i) \in Nat /\ (i \notin Ids(p.s) => Occ(p.kept, i) = 0)
      BY OccType DEF IsPass
    <2>3. i \notin Ids(p.s) => GradsAt(p.g, i) = 0 /\ Spare(p.s, i) = 0
      <3>1. i \notin Ids(p.s) => \A j \in DOMAIN p.g : p.g[j] # i
        BY DEF IsPass
      <3>2. i \notin Ids(p.s) => GradsAt(p.g, i) = 0
        BY <3>1, GradsAtType DEF IsPass
      <3> QED BY <3>2 DEF Spare
    <2> QED BY <2>1, <2>2, <2>3 DEF Owned
  <1> QED BY <1>1, <1>2

\* q has the map and the names of p.
SameMap(p, q) ==
    /\ q = [s |-> q.s, g |-> q.g, ok |-> q.ok, names |-> q.names, kept |-> q.kept]
    /\ q.g = p.g /\ q.ok = p.ok /\ q.names = p.names /\ q.kept = p.kept

LEMMA WithEngine ==
    ASSUME NEW p, IsPass(p), NEW t, NEW q, q = [p EXCEPT !.s = t]
    PROVE  SameMap(p, q) /\ q.s = t
  BY DEF IsPass, SameMap

\* The engine of a pass changes.
LEMMA PassEngine ==
    ASSUME NEW p, IsPass(p), NEW q, SameMap(p, q), IsEngine(q.s), Len(q.s.heap) >= Len(p.s.heap)
    PROVE  /\ IsPass(q)
           /\ \A i : Owned(q, i) = Owned(p, i) + Spare(q.s, i) - Spare(p.s, i)
  <1> DEFINE t == q.s
  <1>1. /\ q.g = p.g /\ q.ok = p.ok /\ q.names = p.names /\ q.kept = p.kept
        /\ q = [s |-> q.s, g |-> q.g, ok |-> q.ok, names |-> q.names, kept |-> q.kept]
    BY DEF SameMap
  <1>2. Ids(p.s) \subseteq Ids(t)
    <2>1. Len(t.heap) \in Nat /\ Len(p.s.heap) \in Nat
      BY EngineFacts, PassFacts
    <2> QED BY <2>1 DEF Ids
  <1>3. p.kept \in Seq(Ids(t))
    <2>1. p.kept \in Seq(Ids(p.s))
      BY DEF IsPass
    <2> QED BY <1>2, <2>1
  <1>4. IsPass(q)
    BY <1>1, <1>2, <1>3 DEF IsPass
  <1>5. ASSUME NEW i PROVE Owned(q, i) = Owned(p, i) + Spare(t, i) - Spare(p.s, i)
    <2>1. Spare(p.s, i) \in Int /\ GradsAt(p.g, i) \in Nat /\ Occ(p.kept, i) \in Nat
      BY PassFacts
    <2>2. Spare(t, i) \in Int
      BY EngineFacts
    <2> QED BY <1>1, <2>1, <2>2 DEF Owned
  <1> QED BY <1>1, <1>4, <1>5

LEMMA PassGrown ==
    ASSUME NEW b \in [Nat -> Int], NEW n, NEW m \in Nat, NEW p, Pass(b, n, m, p),
           NEW q, SameMap(p, q), Grown(p.s, q.s)
    PROVE  Pass(Plus(b, Newest(q.s)), n, m, q) /\ Newest(q.s) \in Ids(q.s)
  <1> DEFINE t == q.s
  <1>1. IsPass(p) /\ Len(p.s.heap) \in Nat /\ IsEngine(p.s)
    BY PassFacts DEF Pass
  <1>2. IsEngine(t) /\ Len(t.heap) = Len(p.s.heap) + 1 /\ Len(t.frames) = Len(p.s.frames)
    BY DEF Grown
  <1>3. Len(t.heap) >= Len(p.s.heap) /\ m <= Len(t.heap) /\ Newest(t) \in Ids(t)
    <2> DEFINE u == Len(p.s.heap)
               v == Len(t.heap)
    <2>1. m <= u /\ u \in Nat /\ v = u + 1
      BY <1>1, <1>2 DEF Pass
    <2> HIDE DEF u, v
    <2>2. v >= u /\ m <= v /\ v \in 1 .. v
      BY <2>1
    <2> QED BY <2>2 DEF Newest, Ids, u, v
  <1>4. /\ IsPass(q)
        /\ \A i : Owned(q, i) = Owned(p, i) + Spare(t, i) - Spare(p.s, i)
    BY <1>1, <1>2, <1>3, PassEngine
  <1>5. ASSUME NEW i \in Nat PROVE Owned(q, i) >= Plus(b, Newest(t))[i]
    <2>1. Owned(p, i) >= b[i] /\ b[i] \in Int
      BY DEF Pass
    <2>2. /\ Owned(q, i) \in Int /\ Owned(p, i) \in Int /\ Spare(p.s, i) \in Int /\ Spare(t, i) \in Int
          /\ OneAt(Newest(t), i) \in Int
      BY <1>1, <1>2, <1>4, PassFacts, EngineFacts DEF OneAt
    <2>3. Spare(t, i) >= Spare(p.s, i) + OneAt(Newest(t), i)
      <3>1. CASE i \in Ids(t)
        BY <3>1 DEF Grown
      <3>2. CASE i \notin Ids(t)
        <4>1. i \notin Ids(p.s) /\ i # Newest(t)
          <5>1. Ids(p.s) \subseteq Ids(t)
            BY <1>1, <1>2 DEF Ids
          <5> QED BY <1>3, <3>2, <5>1
        <4> QED BY <3>2, <4>1 DEF Spare, OneAt
      <3> QED BY <3>1, <3>2
    <2>4. Plus(b, Newest(t))[i] = b[i] + OneAt(Newest(t), i)
      BY DEF Plus
    <2>5. Owned(q, i) = Owned(p, i) + Spare(t, i) - Spare(p.s, i)
      BY <1>4
    <2> QED BY <2>1, <2>2, <2>3, <2>4, <2>5
  <1>6. Len(q.s.frames) = n
    BY <1>2, <1>4 DEF Pass
  <1> QED BY <1>3, <1>4, <1>5, <1>6 DEF Pass

LEMMA PassKept ==
    ASSUME NEW b \in [Nat -> Int], NEW n, NEW m \in Nat, NEW p, Pass(b, n, m, p),
           NEW q, SameMap(p, q), Kept(p.s, q.s)
    PROVE  Pass(b, n, m, q)
  <1> DEFINE t == q.s
  <1>1. IsPass(p) /\ Len(p.s.heap) \in Nat /\ IsEngine(p.s)
    BY PassFacts DEF Pass
  <1>2. IsEngine(t) /\ Len(t.heap) = Len(p.s.heap) /\ Len(t.frames) = Len(p.s.frames) /\ Ids(t) = Ids(p.s)
    BY DEF Kept, Ids
  <1>3. Len(t.heap) >= Len(p.s.heap)
    BY <1>1, <1>2
  <1>4. /\ IsPass(q)
        /\ \A i : Owned(q, i) = Owned(p, i) + Spare(t, i) - Spare(p.s, i)
    BY <1>1, <1>2, <1>3, PassEngine
  <1>5. ASSUME NEW i \in Nat PROVE Owned(q, i) >= b[i]
    <2>1. Owned(p, i) >= b[i] /\ b[i] \in Int
      BY DEF Pass
    <2>2. Owned(q, i) \in Int /\ Owned(p, i) \in Int /\ Spare(p.s, i) \in Int /\ Spare(t, i) \in Int
      BY <1>1, <1>2, <1>4, PassFacts, EngineFacts
    <2>3. Spare(t, i) >= Spare(p.s, i)
      <3>1. CASE i \in Ids(p.s)
        BY <3>1 DEF Kept
      <3>2. CASE i \notin Ids(p.s)
        <4>1. Spare(t, i) = 0 /\ Spare(p.s, i) = 0
          BY <1>2, <3>2 DEF Spare
        <4> QED BY <4>1
      <3> QED BY <3>1, <3>2
    <2>5. Owned(q, i) = Owned(p, i) + Spare(t, i) - Spare(p.s, i)
      BY <1>4
    <2> QED BY <2>1, <2>2, <2>3, <2>5
  <1>6. Len(q.s.frames) = n /\ m <= Len(q.s.heap)
    BY <1>2, <1>4 DEF Pass
  <1> QED BY <1>4, <1>5, <1>6 DEF Pass

LEMMA PassLess ==
    ASSUME NEW b \in [Nat -> Int], NEW n, NEW m, NEW x, NEW p, Pass(Plus(b, x), n, m, p)
    PROVE  Pass(b, n, m, p) /\ Plus(b, x) \in [Nat -> Int]
  <1>1. ASSUME NEW i \in Nat PROVE b[i] + OneAt(x, i) \in Int /\ (Owned(p, i) >= b[i])
    <2>1. Owned(p, i) >= b[i] + OneAt(x, i) /\ Owned(p, i) \in Int
      BY PassFacts DEF Pass, Plus
    <2>2. OneAt(x, i) \in {0, 1} /\ b[i] \in Int
      BY DEF OneAt
    <2> QED BY <2>1, <2>2
  <1> QED BY <1>1 DEF Pass, Plus

\* A share is given back.
LEMMA PassReleased ==
    ASSUME NEW b \in [Nat -> Int], NEW n, NEW m \in Nat, NEW x, NEW p, Pass(Plus(b, x), n, m, p), x \in Ids(p.s),
           NEW q, SameMap(p, q), q.s = Released(p.s, <<x>>)
    PROVE  Pass(b, n, m, q) /\ Ids(q.s) = Ids(p.s)
  <1> DEFINE ids == <<x>>
             t == Released(p.s, ids)
  <1>1. IsPass(p) /\ Len(p.s.heap) \in Nat /\ IsEngine(p.s)
    BY PassFacts DEF Pass
  <1>2. ids \in Seq(Ids(p.s)) /\ \A i : Occ(ids, i) = OneAt(x, i)
    BY OccSingle
  <1>4. SameMap(p, q) /\ q.s = t
    OBVIOUS
  <1> HIDE DEF ids
  <1>5. SameNodes(p.s, t) /\ \A i \in Ids(p.s) : Spare(t, i) = Spare(p.s, i) - Occ(ids, i)
    BY <1>1, <1>2, ReleasedIs
  <1> HIDE DEF t
  <1>6. IsEngine(t) /\ Len(t.heap) = Len(p.s.heap) /\ t.frames = p.s.frames /\ Ids(t) = Ids(p.s)
    BY <1>5 DEF SameNodes, Ids
  <1>7. Len(t.heap) >= Len(p.s.heap)
    BY <1>1, <1>6
  <1>8. /\ IsPass(q) /\ q.s = t
        /\ \A i : Owned(q, i) = Owned(p, i) + Spare(t, i) - Spare(p.s, i)
    BY <1>1, <1>4, <1>6, <1>7, PassEngine
  <1>9. ASSUME NEW i \in Nat PROVE Owned(q, i) >= b[i]
    <2>1. Owned(p, i) >= b[i] + OneAt(x, i) /\ b[i] \in Int
      BY DEF Pass, Plus
    <2>2. Owned(q, i) \in Int /\ Owned(p, i) \in Int /\ Spare(p.s, i) \in Int /\ Spare(t, i) \in Int
      BY <1>1, <1>6, <1>8, PassFacts, EngineFacts
    <2>5. OneAt(x, i) \in Int
      BY DEF OneAt
    <2>3. Spare(t, i) = Spare(p.s, i) - OneAt(x, i)
      <3>1. CASE i \in Ids(p.s)
        BY <1>2, <1>5, <3>1
      <3>2. CASE i \notin Ids(p.s)
        <4>1. Spare(t, i) = 0 /\ Spare(p.s, i) = 0 /\ OneAt(x, i) = 0
          BY <1>6, <3>2 DEF Spare, OneAt
        <4> QED BY <4>1
      <3> QED BY <3>1, <3>2
    <2>4. Owned(q, i) = Owned(p, i) + Spare(t, i) - Spare(p.s, i)
      BY <1>8
    <2> QED BY <2>5, <2>1, <2>2, <2>3, <2>4
  <1>10. Len(q.s.frames) = n /\ m <= Len(q.s.heap)
    BY <1>6, <1>8 DEF Pass
  <1> QED BY <1>4, <1>6, <1>8, <1>9, <1>10 DEF Pass

LEMMA ReleasedOne ==
    ASSUME NEW e, IsEngine(e), NEW x \in Ids(e)
    PROVE  /\ SameNodes(e, Released(e, <<x>>))
           /\ \A i \in Ids(e) : Spare(Released(e, <<x>>), i) = Spare(e, i) - OneAt(x, i)
  <1> DEFINE ids == <<x>>
  <1>1. ids \in Seq(Ids(e)) /\ \A i : Occ(ids, i) = OneAt(x, i)
    BY OccSingle
  <1> HIDE DEF ids
  <1>2. /\ SameNodes(e, Released(e, ids))
        /\ \A i \in Ids(e) : Spare(Released(e, ids), i) = Spare(e, i) - Occ(ids, i)
    BY <1>1, ReleasedIs
  <1> QED BY <1>1, <1>2 DEF ids

\* The map takes over a share.
LEMMA MapSetIs ==
    ASSUME NEW b \in [Nat -> Int], NEW n, NEW m \in Nat, NEW j, NEW x, NEW p,
           Pass(Plus(b, x), n, m, p), x \in Ids(p.s)
    PROVE  LET q == MapSet(p, j, x)
           IN /\ Pass(b, n, m, q) /\ Ids(q.s) = Ids(p.s) /\ j \in DOMAIN q.g
              /\ q.ok = p.ok /\ q.names = p.names
  <1> DEFINE g == p.g
             t == IF j \in DOMAIN g THEN Released(p.s, <<g[j]>>) ELSE p.s
             h == [k \in DOMAIN g \union {j} |-> IF k = j THEN x ELSE g[k]]
             q == MapSet(p, j, x)
             old(i) == IF j \in DOMAIN g THEN OneAt(g[j], i) ELSE 0
  <1>1. IsPass(p) /\ Len(p.s.heap) \in Nat /\ IsEngine(p.s)
    BY PassFacts DEF Pass
  <1>2. /\ q = [s |-> t, g |-> h, ok |-> p.ok, names |-> p.names, kept |-> p.kept]
    <2>1. q = [p EXCEPT !.s = t, !.g = h]
      BY DEF MapSet
    <2> HIDE DEF t, h, q
    <2> QED BY <1>1, <2>1 DEF IsPass
  <1>3. q.s = t /\ q.g = h /\ q.ok = p.ok /\ q.names = p.names /\ q.kept = p.kept
        /\ q = [s |-> q.s, g |-> q.g, ok |-> q.ok, names |-> q.names, kept |-> q.kept]
    <2> HIDE DEF t, h, q
    <2> QED BY <1>2
  <1> HIDE DEF q
  <1>4. /\ IsEngine(t) /\ Len(t.heap) = Len(p.s.heap) /\ t.frames = p.s.frames
        /\ \A i \in Ids(p.s) : Spare(t, i) = Spare(p.s, i) - old(i)
    <2>1. CASE j \in DOMAIN g
      <3> DEFINE r == Released(p.s, <<g[j]>>)
      <3>1. g[j] \in Ids(p.s)
        BY <1>1, <2>1 DEF IsPass
      <3>2. SameNodes(p.s, r) /\ \A i \in Ids(p.s) : Spare(r, i) = Spare(p.s, i) - OneAt(g[j], i)
        <4> HIDE DEF g
        <4> QED BY <1>1, <3>1, ReleasedOne
      <3>3. t = r /\ \A i : old(i) = OneAt(g[j], i)
        BY <2>1
      <3> HIDE DEF g, t, old, r
      <3> QED BY <3>2, <3>3 DEF SameNodes
    <2>2. CASE j \notin DOMAIN g
      <3>1. t = p.s /\ \A i : old(i) = 0
        BY <2>2
      <3>2. \A i \in Ids(p.s) : Spare(p.s, i) - 0 = Spare(p.s, i)
        BY <1>1, EngineFacts
      <3> HIDE DEF g, t, old
      <3> QED BY <1>1, <3>1, <3>2
    <2> QED BY <2>1, <2>2
  <1>5. /\ IsFiniteSet(DOMAIN h) /\ DOMAIN h = DOMAIN g \union {j}
        /\ \A i : GradsAt(h, i) = GradsAt(g, i) + OneAt(x, i) - old(i)
    <2>1. IsFiniteSet(DOMAIN g)
      BY <1>1 DEF IsPass
    <2>2. DOMAIN h = DOMAIN g \union {j}
      OBVIOUS
    <2>3. h[j] = x /\ \A k \in DOMAIN g \ {j} : h[k] = g[k]
      OBVIOUS
    <2> HIDE DEF h, g
    <2>4. ASSUME NEW i
          PROVE  /\ IsFiniteSet(DOMAIN h)
                 /\ GradsAt(h, i) = GradsAt(g, i) + OneAt(x, i) - (IF j \in DOMAIN g THEN OneAt(g[j], i) ELSE 0)
      BY <2>1, <2>2, <2>3, GradsAtSet
    <2> QED BY <2>2, <2>4
  <1>6. \A k \in DOMAIN h : h[k] \in Ids(p.s)
    BY <1>1 DEF IsPass
  <1>7. \A i : old(i) \in Int
    BY DEF OneAt
  <1> HIDE DEF t, h, g, old
  <1>8. Ids(t) = Ids(p.s)
    BY <1>4 DEF Ids
  <1>9. IsPass(q)
    BY <1>1, <1>3, <1>4, <1>5, <1>6, <1>8 DEF IsPass
  <1>10. ASSUME NEW i \in Nat PROVE Owned(q, i) >= b[i]
    <2>1. Owned(p, i) >= b[i] + OneAt(x, i) /\ b[i] \in Int
      BY DEF Pass, Plus
    <2>2. Spare(p.s, i) \in Int /\ GradsAt(g, i) \in Nat /\ Occ(p.kept, i) \in Nat /\ Owned(p, i) \in Int
      BY <1>1, PassFacts DEF g
    <2>3. OneAt(x, i) \in Int /\ old(i) \in Int
      BY <1>7 DEF OneAt
    <2>4. CASE i \in Ids(p.s)
      <3>1. Spare(t, i) = Spare(p.s, i) - old(i) /\ GradsAt(h, i) = GradsAt(g, i) + OneAt(x, i) - old(i)
        BY <1>4, <1>5, <2>4
      <3>2. Owned(q, i) = Spare(t, i) - GradsAt(h, i) - Occ(p.kept, i)
        BY <1>3 DEF Owned
      <3>3. Owned(p, i) = Spare(p.s, i) - GradsAt(g, i) - Occ(p.kept, i)
        BY DEF Owned, g
      <3> QED BY <2>1, <2>2, <2>3, <3>1, <3>2, <3>3
    <2>5. CASE i \notin Ids(p.s)
      <3>1. Owned(q, i) = 0 /\ Owned(p, i) = 0
        BY <1>1, <1>3, <1>8, <1>9, <2>5, PassFacts
      <3>2. OneAt(x, i) = 0
        BY <2>5 DEF OneAt
      <3> QED BY <2>1, <3>1, <3>2
    <2> QED BY <2>4, <2>5
  <1>11. Len(q.s.frames) = n /\ m <= Len(q.s.heap)
    BY <1>3, <1>4 DEF Pass
  <1> QED BY <1>3, <1>5, <1>8, <1>9, <1>10, <1>11 DEF Pass, q

\* A step has made the newest tensor of q.
Makes(b, n, m, p, step, q) ==
    /\ Pass(IF step.name \in Unkept THEN Plus(b, Newest(q.s)) ELSE b, n, m, q)
    /\ Ids(p.s) \subseteq Ids(q.s) /\ Newest(q.s) \in Ids(q.s) /\ q.ok = p.ok
    /\ q.names = [x \in DOMAIN p.names \union {step.name} |-> IF x = step.name THEN Newest(q.s) ELSE p.names[x]]

\* What a step makes is kept for the rule, or is a share.
LEMMA NamedByIs ==
    ASSUME NEW b \in [Nat -> Int], NEW n, NEW m \in Nat, NEW p, Pass(b, n, m, p),
           NEW t, Grown(p.s, t), NEW step
    PROVE  Makes(b, n, m, p, step, NamedBy(p, t, step))
  <1> DEFINE names == [x \in DOMAIN p.names \union {step.name} |-> IF x = step.name THEN Newest(t) ELSE p.names[x]]
             kept == IF step.name \in Unkept THEN p.kept ELSE Append(p.kept, Newest(t))
             q == NamedBy(p, t, step)
             u == [p EXCEPT !.s = t]
  <1>1. IsPass(p) /\ Len(p.s.heap) \in Nat /\ IsEngine(p.s)
    BY PassFacts DEF Pass
  <1>2. q = [s |-> t, g |-> p.g, ok |-> p.ok, names |-> names, kept |-> kept]
    <2>1. q = [p EXCEPT !.s = t, !.names = names, !.kept = kept]
      BY DEF NamedBy
    <2> HIDE DEF names, kept, q
    <2> QED BY <1>1, <2>1 DEF IsPass
  <1>3. q.s = t /\ q.g = p.g /\ q.ok = p.ok /\ q.names = names /\ q.kept = kept
        /\ q = [s |-> q.s, g |-> q.g, ok |-> q.ok, names |-> q.names, kept |-> q.kept]
    <2> HIDE DEF names, kept, q
    <2> QED BY <1>2
  <1> HIDE DEF q
  <1>4. SameMap(p, u) /\ u.s = t
    <2> DEFINE v == u
    <2>1. v = [p EXCEPT !.s = t]
      OBVIOUS
    <2> HIDE DEF v
    <2>2. SameMap(p, v) /\ v.s = t
      BY <1>1, <2>1, WithEngine
    <2> QED BY <2>2 DEF v
  <1> HIDE DEF u
  <1>5. Pass(Plus(b, Newest(t)), n, m, u) /\ Newest(t) \in Ids(t)
    BY <1>4, PassGrown
  <1>6. IsPass(u) /\ u.g = p.g /\ u.names = p.names /\ u.kept = p.kept
    BY <1>4, <1>5 DEF Pass, SameMap
  <1>7. /\ kept \in Seq(Ids(t))
        /\ \A i : Occ(kept, i) = Occ(p.kept, i) + IF step.name \in Unkept THEN 0 ELSE OneAt(Newest(t), i)
    <2>1. p.kept \in Seq(Ids(t)) /\ \A i : Occ(p.kept, i) \in Nat
      BY <1>1, <1>4, <1>6, PassFacts DEF IsPass
    <2> DEFINE x == Newest(t)
    <2>2. x \in Ids(t)
      BY <1>5
    <2> HIDE DEF x
    <2>3. /\ Append(p.kept, x) \in Seq(Ids(t))
          /\ \A i : Occ(Append(p.kept, x), i) = Occ(p.kept, i) + OneAt(x, i)
      BY <2>1, <2>2, OccAppend, AppendProperties
    <2> QED BY <2>1, <2>3 DEF x
  <1>8. \A x \in DOMAIN names : names[x] \in Ids(t)
    BY <1>4, <1>5, <1>6 DEF IsPass
  <1> HIDE DEF names, kept
  <1>9. IsPass(q)
    <2>1. IsFiniteSet(DOMAIN p.g) /\ p.ok \in BOOLEAN
      BY <1>1 DEF IsPass
    <2>2. IsEngine(t) /\ \A j \in DOMAIN p.g : p.g[j] \in Ids(t)
      BY <1>4, <1>6 DEF IsPass
    <2> QED BY <1>3, <1>7, <1>8, <2>1, <2>2 DEF IsPass
  <1>10. ASSUME NEW i \in Nat
         PROVE  Owned(q, i) >= b[i] + IF step.name \in Unkept THEN OneAt(Newest(t), i) ELSE 0
    <2>1. Owned(u, i) >= b[i] + OneAt(Newest(t), i) /\ b[i] \in Int
      BY <1>5 DEF Pass, Plus
    <2>2. Spare(t, i) \in Int /\ GradsAt(p.g, i) \in Nat /\ Occ(p.kept, i) \in Nat
      BY <1>4, <1>6, PassFacts
    <2>3. OneAt(Newest(t), i) \in Int
      BY DEF OneAt
    <2>4. Owned(u, i) = Spare(t, i) - GradsAt(p.g, i) - Occ(p.kept, i)
      BY <1>4, <1>6 DEF Owned
    <2>5. Owned(q, i) = Spare(t, i) - GradsAt(p.g, i) - Occ(kept, i)
      BY <1>3 DEF Owned
    <2> DEFINE y == OneAt(Newest(t), i)
    <2>6. Occ(kept, i) = Occ(p.kept, i) + IF step.name \in Unkept THEN 0 ELSE y
      BY <1>7
    <2> HIDE DEF y
    <2>7. Owned(q, i) >= b[i] + IF step.name \in Unkept THEN y ELSE 0
      BY <2>1, <2>2, <2>3, <2>4, <2>5, <2>6 DEF y
    <2> QED BY <2>7 DEF y
  <1>11. Len(q.s.frames) = n /\ m <= Len(q.s.heap)
    BY <1>3, <1>4, <1>5 DEF Pass
  <1>15. Ids(p.s) \subseteq Ids(t)
    BY <1>1, GrownNoLess
  <1>14. Pass(IF step.name \in Unkept THEN Plus(b, Newest(t)) ELSE b, n, m, q) => Makes(b, n, m, p, step, q)
    BY <1>3, <1>5, <1>15 DEF Makes, names
  <1>12. CASE step.name \in Unkept
    <2>1. \A i \in Nat : Owned(q, i) >= Plus(b, Newest(t))[i]
      BY <1>10, <1>12 DEF Plus
    <2>2. Pass(Plus(b, Newest(t)), n, m, q)
      BY <1>9, <1>11, <2>1 DEF Pass
    <2> QED BY <1>14, <1>12, <2>2 DEF q
  <1>13. CASE step.name \notin Unkept
    <2>1. ASSUME NEW i \in Nat PROVE Owned(q, i) >= b[i]
      <3>1. Owned(q, i) >= b[i] + 0 /\ b[i] \in Int
        BY <1>10, <1>13
      <3> QED BY <3>1
    <2>2. Pass(b, n, m, q)
      BY <1>9, <1>11, <2>1 DEF Pass
    <2> QED BY <1>14, <1>13, <2>2 DEF q
  <1> QED BY <1>12, <1>13

\* q is a later moment of the rule under way in p.
Onward(b, n, m, p, q) ==
    Pass(b, n, m, q) /\ Ids(p.s) \subseteq Ids(q.s) /\ q.ok = p.ok /\ q.names = p.names

LEMMA PlusPlus ==
    ASSUME NEW b \in [Nat -> Int], NEW x, NEW y
    PROVE  /\ Plus(b, x) \in [Nat -> Int] /\ Plus(Plus(b, x), y) \in [Nat -> Int]
           /\ Plus(Plus(b, x), y) = Plus(Plus(b, y), x)
           /\ \A i \in Nat : Plus(Plus(b, x), y)[i] = b[i] + OneAt(x, i) + OneAt(y, i)
  <1>1. ASSUME NEW i \in Nat PROVE b[i] \in Int /\ OneAt(x, i) \in Int /\ OneAt(y, i) \in Int
    BY DEF OneAt
  <1>2. Plus(b, x) \in [Nat -> Int] /\ Plus(b, y) \in [Nat -> Int]
    BY <1>1 DEF Plus
  <1>3. ASSUME NEW i \in Nat
        PROVE  /\ Plus(Plus(b, x), y)[i] = b[i] + OneAt(x, i) + OneAt(y, i)
               /\ Plus(Plus(b, x), y)[i] \in Int
               /\ Plus(b, x)[i] + OneAt(y, i) = Plus(b, y)[i] + OneAt(x, i)
    <2>1. Plus(Plus(b, x), y)[i] = Plus(b, x)[i] + OneAt(y, i)
      BY DEF Plus
    <2>2. Plus(b, x)[i] = b[i] + OneAt(x, i) /\ Plus(b, y)[i] = b[i] + OneAt(y, i)
      BY DEF Plus
    <2> QED BY <1>1, <2>1, <2>2
  <1>4. Plus(Plus(b, x), y) = [i \in Nat |-> Plus(b, x)[i] + OneAt(y, i)]
    BY DEF Plus
  <1>5. Plus(Plus(b, y), x) = [i \in Nat |-> Plus(b, y)[i] + OneAt(x, i)]
    BY DEF Plus
  <1>6. Plus(Plus(b, x), y) = Plus(Plus(b, y), x)
    BY <1>3, <1>4, <1>5
  <1>7. Plus(Plus(b, x), y) \in [Nat -> Int]
    BY <1>3, <1>4
  <1> QED BY <1>2, <1>3, <1>6, <1>7

LEMMA PassChanged ==
    ASSUME NEW a \in [Nat -> Int], NEW b \in [Nat -> Int], NEW n, NEW m \in Nat, NEW p, Pass(a, n, m, p),
           NEW q, SameMap(p, q), IsEngine(q.s), Len(q.s.heap) = Len(p.s.heap),
           Len(q.s.frames) = Len(p.s.frames), \A i \in Nat : a[i] >= b[i],
           \A i \in Ids(p.s) : Spare(q.s, i) - b[i] >= Spare(p.s, i) - a[i]
    PROVE  Pass(b, n, m, q)
  <1>1. IsPass(p) /\ Len(p.s.heap) \in Nat
    BY PassFacts DEF Pass
  <1>2. Len(q.s.heap) >= Len(p.s.heap) /\ Ids(q.s) = Ids(p.s) /\ Ids(p.s) \subseteq Nat
    BY <1>1 DEF Ids
  <1>3. IsPass(q) /\ \A i : Owned(q, i) = Owned(p, i) + Spare(q.s, i) - Spare(p.s, i)
    BY <1>1, <1>2, PassEngine
  <1>4. ASSUME NEW i \in Nat PROVE Owned(q, i) >= b[i]
    <2>1. Owned(p, i) >= a[i] /\ a[i] \in Int /\ b[i] \in Int /\ a[i] >= b[i]
      BY DEF Pass
    <2>2. Owned(q, i) \in Int /\ Owned(p, i) \in Int /\ Spare(p.s, i) \in Int /\ Spare(q.s, i) \in Int
      BY <1>1, <1>3, PassFacts
    <2>3. CASE i \in Ids(p.s)
      <3>1. Spare(q.s, i) - b[i] >= Spare(p.s, i) - a[i]
        BY <2>3
      <3>2. Owned(q, i) = Owned(p, i) + Spare(q.s, i) - Spare(p.s, i)
        BY <1>3
      <3> QED BY <2>1, <2>2, <3>1, <3>2
    <2>4. CASE i \notin Ids(p.s)
      <3>1. Owned(q, i) = 0 /\ Owned(p, i) = 0
        BY <1>1, <1>2, <1>3, <2>4, PassFacts
      <3> QED BY <2>1, <3>1
    <2> QED BY <2>3, <2>4
  <1>5. Len(q.s.frames) = n /\ m <= Len(q.s.heap)
    BY DEF Pass
  <1> QED BY <1>3, <1>4, <1>5 DEF Pass

LEMMA ReleasedTwo ==
    ASSUME NEW e, IsEngine(e), NEW x \in Ids(e), NEW y \in Ids(e)
    PROVE  /\ SameNodes(e, Released(e, <<x, y>>))
           /\ \A i \in Ids(e) : Spare(Released(e, <<x, y>>), i) = Spare(e, i) - OneAt(x, i) - OneAt(y, i)
  <1> DEFINE ids == <<x, y>>
             one == <<x>>
  <1>1. ids = Append(one, y) /\ one \in Seq(Ids(e)) /\ ids \in Seq(Ids(e)) /\ \A i : Occ(one, i) = OneAt(x, i)
    BY OccSingle, AppendPair
  <1> HIDE DEF ids, one
  <1>2. /\ SameNodes(e, Released(e, ids))
        /\ \A i \in Ids(e) : Spare(Released(e, ids), i) = Spare(e, i) - Occ(ids, i)
    BY <1>1, ReleasedIs
  <1>3. ASSUME NEW i \in Ids(e) PROVE Spare(Released(e, ids), i) = Spare(e, i) - OneAt(x, i) - OneAt(y, i)
    <2>1. Occ(Append(one, y), i) = Occ(one, i) + OneAt(y, i)
      BY <1>1, OccAppend
    <2>2. Spare(e, i) \in Int /\ OneAt(x, i) \in Int /\ OneAt(y, i) \in Int
      BY EngineFacts DEF OneAt
    <2>3. Occ(ids, i) = OneAt(x, i) + OneAt(y, i)
      BY <1>1, <2>1
    <2>4. Spare(Released(e, ids), i) = Spare(e, i) - Occ(ids, i)
      BY <1>2
    <2> QED BY <2>2, <2>3, <2>4
  <1> QED BY <1>2, <1>3 DEF ids

\* a2_acc without a gradient yet.
LEMMA WithGradientIs ==
    ASSUME NEW b \in [Nat -> Int], NEW n, NEW m \in Nat, NEW j, NEW p, Pass(b, n, m, p)
    PROVE  LET q == WithGradient(p, j)
           IN /\ Pass(b, n, m, q) /\ Ids(p.s) \subseteq Ids(q.s) /\ j \in DOMAIN q.g
              /\ q.ok = p.ok /\ q.names = p.names
  <1> DEFINE zeros == Made(p.s, Filled(Val(p.s, j).shape, Zero), FALSE)
             u == [p EXCEPT !.s = zeros]
             x == Newest(zeros)
             r == MapSet(u, j, x)
  <1>1. IsPass(p) /\ IsEngine(p.s)
    BY PassFacts DEF Pass
  <1>2. CASE j \in DOMAIN p.g
    BY <1>2 DEF WithGradient
  <1>3. CASE j \notin DOMAIN p.g
    <2>1. WithGradient(p, j) = r
      BY <1>3 DEF WithGradient
    <2>2. Grown(p.s, zeros)
      BY <1>1, MadeGrown
    <2> HIDE DEF zeros
    <2>3. SameMap(p, u) /\ u.s = zeros
      <3> DEFINE v == u
      <3>1. v = [p EXCEPT !.s = zeros]
        OBVIOUS
      <3> HIDE DEF v
      <3>2. SameMap(p, v) /\ v.s = zeros
        BY <1>1, <3>1, WithEngine
      <3> QED BY <3>2 DEF v
    <2> HIDE DEF u
    <2>4. Pass(Plus(b, x), n, m, u) /\ x \in Ids(u.s)
      BY <2>2, <2>3, PassGrown
    <2>5. Ids(p.s) \subseteq Ids(u.s) /\ u.ok = p.ok /\ u.names = p.names
      BY <1>1, <2>2, <2>3, GrownNoLess DEF SameMap
    <2> HIDE DEF x
    <2>7. Pass(Plus(b, x), n, m, u) /\ x \in Ids(u.s)
      BY <2>4
    <2>6. Pass(b, n, m, r)
      BY <2>7, MapSetIs
    <2>8. Ids(r.s) = Ids(u.s) /\ j \in DOMAIN r.g /\ r.ok = u.ok /\ r.names = u.names
      BY <2>7, <2>6, MapSetIs
    <2> HIDE DEF r
    <2> QED BY <2>1, <2>5, <2>6, <2>8
  <1> QED BY <1>2, <1>3

\* The sum takes the place of the old gradient, and the share is given back.
LEMMA SumKeptIs ==
    ASSUME NEW b \in [Nat -> Int], NEW n, NEW m \in Nat, NEW j, NEW x, NEW p,
           Pass(Plus(b, x), n, m, p), x \in Ids(p.s), NEW sum, Grown(p.s, sum)
    PROVE  Onward(b, n, m, p, SumKept(p, j, x, sum))
  <1> DEFINE y == Newest(sum)
             u == [p EXCEPT !.s = sum]
             one == [p EXCEPT !.s = Released(sum, <<x>>)]
             two == [p EXCEPT !.s = Released(sum, <<x, y>>)]
             r == MapSet(one, j, y)
             q == SumKept(p, j, x, sum)
  <1>1. IsPass(p) /\ IsEngine(p.s) /\ IsEngine(sum)
    BY PassFacts DEF Pass, Grown
  <1>2. q = two \/ q = r
    BY DEF SumKept
  <1> HIDE DEF q
  <1>3. SameMap(p, u) /\ u.s = sum
    <2> DEFINE v == u
    <2>1. v = [p EXCEPT !.s = sum]
      OBVIOUS
    <2> HIDE DEF v
    <2>2. SameMap(p, v) /\ v.s = sum
      BY <1>1, <2>1, WithEngine
    <2> QED BY <2>2 DEF v
  <1> HIDE DEF y
  <1>4. /\ Plus(b, x) \in [Nat -> Int] /\ Plus(b, y) \in [Nat -> Int]
        /\ Plus(Plus(b, x), y) \in [Nat -> Int] /\ Plus(Plus(b, x), y) = Plus(Plus(b, y), x)
        /\ \A i \in Nat : Plus(Plus(b, x), y)[i] = b[i] + OneAt(x, i) + OneAt(y, i)
    BY PlusPlus
  <1> DEFINE bx == Plus(b, x)
             bxy == Plus(Plus(b, x), y)
  <1>5. Pass(bxy, n, m, u) /\ y \in Ids(sum)
    <2> HIDE DEF u
    <2>1. bx \in [Nat -> Int] /\ Pass(bx, n, m, p)
      BY <1>4
    <2> HIDE DEF bx
    <2>2. Pass(Plus(bx, Newest(u.s)), n, m, u) /\ Newest(u.s) \in Ids(u.s)
      BY <1>3, <2>1, PassGrown
    <2> QED BY <1>3, <2>2 DEF bx, y
  <1>6. Ids(p.s) \subseteq Ids(sum)
    BY <1>1, GrownNoLess
  <1>7. \A f : [u EXCEPT !.s = f] = [p EXCEPT !.s = f]
    BY <1>1 DEF IsPass
  <1>8. u.s = sum /\ u.ok = p.ok /\ u.names = p.names
    BY <1>3 DEF SameMap
  <1> HIDE DEF u
  <1>9. CASE q = two
    <2> DEFINE t == Released(sum, <<x, y>>)
    <2>1. /\ SameNodes(sum, t)
          /\ \A i \in Ids(sum) : Spare(t, i) = Spare(sum, i) - OneAt(x, i) - OneAt(y, i)
      BY <1>1, <1>5, <1>6, ReleasedTwo
    <2>2. two = [u EXCEPT !.s = t]
      BY <1>7
    <2> HIDE DEF t, two
    <2>3. SameMap(u, two) /\ two.s = t
      <3>1. IsPass(u)
        BY <1>5 DEF Pass
      <3> QED BY <2>2, <3>1, WithEngine
    <2>4. IsEngine(two.s) /\ Len(two.s.heap) = Len(u.s.heap) /\ Len(two.s.frames) = Len(u.s.frames)
      BY <1>8, <2>1, <2>3 DEF SameNodes
    <2>5. ASSUME NEW i \in Nat PROVE bxy[i] >= b[i]
      <3>1. b[i] \in Int /\ OneAt(x, i) \in {0, 1} /\ OneAt(y, i) \in {0, 1}
        BY DEF OneAt
      <3>2. bxy[i] = b[i] + OneAt(x, i) + OneAt(y, i)
        BY <1>4
      <3> HIDE DEF bxy
      <3> QED BY <3>1, <3>2
    <2>6. ASSUME NEW i \in Ids(u.s) PROVE Spare(two.s, i) - b[i] >= Spare(u.s, i) - bxy[i]
      <3>1. i \in Nat
        BY <1>1, <1>8, EngineFacts DEF Ids
      <3>2. bxy[i] = b[i] + OneAt(x, i) + OneAt(y, i) /\ b[i] \in Int
        BY <1>4, <3>1
      <3>3. OneAt(x, i) \in Int /\ OneAt(y, i) \in Int
        BY DEF OneAt
      <3>4. Spare(sum, i) \in Int
        BY <1>1, EngineFacts
      <3>5. Spare(t, i) = Spare(sum, i) - OneAt(x, i) - OneAt(y, i)
        BY <1>8, <2>1
      <3> HIDE DEF bxy
      <3> QED BY <1>8, <2>3, <3>2, <3>3, <3>4, <3>5
    <2>7. Pass(b, n, m, two)
      <3>1. bxy \in [Nat -> Int]
        BY <1>4
      <3> HIDE DEF bxy
      <3> QED BY <1>5, <2>3, <2>4, <2>5, <2>6, <3>1, PassChanged
    <2>8. Ids(two.s) = Ids(sum) /\ two.ok = p.ok /\ two.names = p.names
      BY <1>8, <2>3, <2>4 DEF Ids, SameMap
    <2> QED BY <1>6, <1>9, <2>7, <2>8 DEF q, Onward
  <1>10. CASE q = r
    <2> DEFINE by == Plus(b, y)
    <2>1. Pass(Plus(by, x), n, m, u) /\ by \in [Nat -> Int]
      BY <1>4, <1>5
    <2> HIDE DEF by
    <2>2. SameMap(u, one) /\ one.s = Released(u.s, <<x>>)
      <3> DEFINE t == Released(sum, <<x>>)
      <3>1. one = [u EXCEPT !.s = t] /\ IsPass(u)
        BY <1>5, <1>7 DEF Pass
      <3> HIDE DEF t, one
      <3>2. SameMap(u, one) /\ one.s = t
        BY <3>1, WithEngine
      <3> QED BY <1>8, <3>2 DEF t
    <2> HIDE DEF one
    <2>9. x \in Ids(u.s)
      BY <1>6, <1>8
    <2>3. Pass(by, n, m, one) /\ Ids(one.s) = Ids(u.s)
      BY <2>9, <2>1, <2>2, PassReleased
    <2>4. /\ Pass(b, n, m, r) /\ Ids(r.s) = Ids(one.s)
          /\ r.ok = one.ok /\ r.names = one.names
      <3>1. Pass(Plus(b, y), n, m, one) /\ y \in Ids(one.s)
        BY <1>5, <1>8, <2>3 DEF by
      <3> QED BY <3>1, MapSetIs
    <2>5. one.ok = p.ok /\ one.names = p.names
      BY <1>8, <2>2 DEF SameMap
    <2> HIDE DEF r
    <2> QED BY <1>6, <1>8, <1>10, <2>3, <2>4, <2>5 DEF q, Onward
  <1> QED BY <1>2, <1>9, <1>10

LEMMA KeptGrown ==
    ASSUME NEW e, IsEngine(e), NEW t, Kept(e, t), NEW u, Grown(t, u)
    PROVE  Grown(e, u)
  <1>1. /\ IsEngine(t) /\ IsEngine(u) /\ Ids(t) = Ids(e) /\ Len(u.heap) = Len(e.heap) + 1
        /\ Len(u.frames) = Len(e.frames)
    BY DEF Kept, Grown, Ids
  <1>2. ASSUME NEW i \in Ids(u) PROVE Spare(u, i) >= Spare(e, i) + OneAt(Newest(u), i)
    <2>1. Spare(u, i) >= Spare(t, i) + OneAt(Newest(u), i)
      BY DEF Grown
    <2>2. Spare(t, i) >= Spare(e, i)
      <3>1. CASE i \in Ids(e)
        BY <3>1 DEF Kept
      <3>2. CASE i \notin Ids(e)
        <4>1. Spare(t, i) = 0 /\ Spare(e, i) = 0
          BY <1>1, <3>2 DEF Spare
        <4> QED BY <4>1
      <3> QED BY <3>1, <3>2
    <2>3. Spare(u, i) \in Int /\ Spare(t, i) \in Int /\ Spare(e, i) \in Int
      BY <1>1, EngineFacts
    <2>4. OneAt(Newest(u), i) \in Int
      BY DEF OneAt
    <2> QED BY <2>1, <2>2, <2>3, <2>4
  <1> QED BY <1>1, <1>2 DEF Grown

LEMMA AddedIs ==
    ASSUME NEW b \in [Nat -> Int], NEW n, NEW m \in Nat, NEW j, NEW x, NEW p,
           Pass(Plus(b, x), n, m, p), x \in Ids(p.s), j \in DOMAIN p.g
    PROVE  Onward(b, n, m, p, AddedOnTape(p, j, x))
  <1> DEFINE g == p.g[j]
             tracked == [p.s EXCEPT !.heap[g].req = TRUE]
             ins == <<g, x>>
             sum == Operated(tracked, "add", ins, Zero)
             q == AddedOnTape(p, j, x)
  <1>1. IsPass(p) /\ IsEngine(p.s) /\ g \in Ids(p.s)
    BY PassFacts DEF Pass, IsPass
  <1>2. q = SumKept(p, j, x, sum)
    BY DEF AddedOnTape
  <1>3. ins \in Seq(Ids(p.s))
    BY <1>1
  <1> HIDE DEF g, q
  <1>4. Kept(p.s, tracked)
    <2> DEFINE t == tracked
    <2>1. t = [p.s EXCEPT !.heap[g].req = TRUE]
      OBVIOUS
    <2> HIDE DEF t
    <2>2. SameNodes(p.s, t) /\ \A i \in Ids(p.s) : Spare(t, i) = Spare(p.s, i)
      BY <1>1, <2>1, TrackedIs
    <2>3. \A i \in Ids(p.s) : Spare(t, i) >= Spare(p.s, i)
      BY <1>1, <2>2, EngineFacts
    <2>4. Kept(p.s, t)
      BY <2>2, <2>3 DEF SameNodes, Kept
    <2> QED BY <2>4 DEF t
  <1> HIDE DEF tracked, ins
  <1>5. IsEngine(tracked) /\ Ids(tracked) = Ids(p.s) /\ "add" \in Operations
    BY <1>4 DEF Kept, Ids, Operations, BinaryOps
  <1>6. Grown(tracked, sum)
    BY <1>3, <1>5, OperatedIs
  <1> HIDE DEF sum
  <1>7. Grown(p.s, sum)
    BY <1>1, <1>4, <1>6, KeptGrown
  <1>8. Onward(b, n, m, p, SumKept(p, j, x, sum))
    BY <1>7, SumKeptIs
  <1> QED BY <1>2, <1>8 DEF q

\* a2_acc consumes the share.
LEMMA AccumulatedIs ==
    ASSUME NEW b \in [Nat -> Int], NEW n, NEW m \in Nat, NEW j, NEW x, NEW p,
           Pass(Plus(b, x), n, m, p), x \in Ids(p.s)
    PROVE  Onward(b, n, m, p, AccumulatedOnTape(p, j, x))
  <1> DEFINE u == WithGradient(p, j)
             r == AddedOnTape(u, j, x)
             t == Released(p.s, <<x>>)
             lost == [p EXCEPT !.s = t]
             q == AccumulatedOnTape(p, j, x)
  <1>1. q = lost \/ q = r
    BY DEF AccumulatedOnTape
  <1> HIDE DEF q
  <1>2. IsPass(p)
    BY DEF Pass
  <1>3. CASE q = lost
    <2> DEFINE v == lost
    <2>1. v = [p EXCEPT !.s = t]
      OBVIOUS
    <2> HIDE DEF v, t
    <2>2. SameMap(p, v) /\ v.s = t
      BY <1>2, <2>1, WithEngine
    <2>3. SameMap(p, v) /\ v.s = Released(p.s, <<x>>)
      BY <2>2 DEF t
    <2>4. Pass(b, n, m, v) /\ Ids(v.s) = Ids(p.s)
      BY <2>3, PassReleased
    <2>5. v.ok = p.ok /\ v.names = p.names /\ q = v
      BY <1>3, <2>2 DEF SameMap, v
    <2> QED BY <2>4, <2>5 DEF q, Onward
  <1>4. CASE q = r
    <2> DEFINE bx == Plus(b, x)
    <2>1. bx \in [Nat -> Int] /\ Pass(bx, n, m, p)
      BY PlusPlus
    <2> HIDE DEF bx
    <2>2. Pass(bx, n, m, u)
      BY <2>1, WithGradientIs
    <2>3. Ids(p.s) \subseteq Ids(u.s) /\ j \in DOMAIN u.g /\ u.ok = p.ok /\ u.names = p.names
      BY <2>1, <2>2, WithGradientIs
    <2> HIDE DEF u
    <2>4. Pass(Plus(b, x), n, m, u) /\ x \in Ids(u.s)
      BY <2>2, <2>3 DEF bx
    <2>5. Onward(b, n, m, u, r)
      BY <2>3, <2>4, AddedIs
    <2> HIDE DEF r
    <2> QED BY <1>4, <2>3, <2>5 DEF q, Onward
  <1> QED BY <1>1, <1>3, <1>4

----------------------------------------------------------------------------
(* The steps of a rule *)

Base == {"a", "b", "d", "y"}
StepFits(step, D) ==
    /\ step.op \in Operations \union Helpers
    /\ step.ins \in Seq(D) /\ step.ins # <<>>
    /\ step.to # 0 => step.name \in Unkept

LEMMA MadeByIs ==
    ASSUME NEW e, IsEngine(e), NEW step, step.op \in Operations \union Helpers,
           NEW ids \in Seq(Ids(e)), ids # <<>>
    PROVE  Grown(e, MadeBy(e, step, ids))
  <1> DEFINE v == Helped(step.op, Val(e, ids[1]), Val(e, ids[2]), step.par)
             made == Made(e, v, FALSE)
             one == <<ids[1]>>
             local == Emitted(made, step.op, one, step.par, Newest(made), FALSE)
             t == MadeBy(e, step, ids)
  <1>1. CASE step.op \in Helpers
    <2>1. t = IF step.op \in LocalOps THEN local ELSE made
      BY <1>1 DEF MadeBy, HelpedBy
    <2>2. Grown(e, made)
      BY MadeGrown
    <2> HIDE DEF v, made
    <2>3. ids[1] \in Ids(e)
      BY EmptySeq, ElementOfSeq
    <2>4. IsEngine(made) /\ Ids(e) \subseteq Ids(made) /\ Newest(made) \in Ids(made)
      BY <2>2, GrownNoLess DEF Grown
    <2>5. one \in Seq(Ids(made)) /\ one # <<>>
      BY <2>3, <2>4
    <2> HIDE DEF one, t
    <2>6. CASE step.op \in LocalOps
      <3>1. step.op \in NodeOps
        BY <2>6 DEF NodeOps
      <3>2. Kept(made, local)
        BY <2>4, <2>5, <3>1, EmittedKept
      <3> HIDE DEF local
      <3>3. Grown(e, local)
        BY <2>2, <3>2, GrownKept
      <3> QED BY <2>1, <2>6, <3>3 DEF t
    <2>7. CASE step.op \notin LocalOps
      BY <2>1, <2>2, <2>7 DEF t
    <2> QED BY <2>6, <2>7
  <1>2. CASE step.op \notin Helpers
    <2>1. t = Operated(e, step.op, ids, step.par) /\ step.op \in Operations
      BY <1>2 DEF MadeBy
    <2>2. Grown(e, Operated(e, step.op, ids, step.par))
      BY <2>1, OperatedIs
    <2> QED BY <2>1, <2>2
  <1> QED BY <1>1, <1>2

LEMMA TakenIs ==
    ASSUME NEW b \in [Nat -> Int], NEW n, NEW m \in Nat, NEW p, Pass(b, n, m, p),
           NEW step, StepFits(step, DOMAIN p.names)
    PROVE  Makes(b, n, m, p, step, Taken(p, step))
  <1> DEFINE ids == [k \in DOMAIN step.ins |-> p.names[step.ins[k]]]
             t == MadeBy(p.s, step, ids)
             q == Taken(p, step)
  <1>1. q = NamedBy(p, t, step)
    BY DEF Taken
  <1>2. IsPass(p) /\ IsEngine(p.s)
    BY PassFacts DEF Pass
  <1>3. ids \in Seq(Ids(p.s)) /\ ids # <<>>
    <2>1. /\ Len(step.ins) \in Nat /\ DOMAIN step.ins = 1 .. Len(step.ins) /\ Len(step.ins) # 0
          /\ \A k \in 1 .. Len(step.ins) : step.ins[k] \in DOMAIN p.names
      BY LenProperties, EmptySeq, ElementOfSeq DEF StepFits
    <2>2. \A k \in 1 .. Len(step.ins) : p.names[step.ins[k]] \in Ids(p.s)
      BY <1>2, <2>1 DEF IsPass
    <2>3. ids \in [1 .. Len(step.ins) -> Ids(p.s)]
      BY <2>1, <2>2
    <2> HIDE DEF ids
    <2> DEFINE c == Len(step.ins)
    <2>4. c \in Nat /\ ids \in [1 .. c -> Ids(p.s)] /\ c # 0
      BY <2>1, <2>3
    <2> HIDE DEF c
    <2>5. ids \in Seq(Ids(p.s)) /\ Len(ids) = c
      BY <2>4
    <2> QED BY <2>4, <2>5, EmptySeq
  <1> HIDE DEF ids, q
  <1>4. Grown(p.s, t)
    BY <1>2, <1>3, MadeByIs DEF StepFits
  <1> HIDE DEF t
  <1>5. Makes(b, n, m, p, step, NamedBy(p, t, step))
    BY <1>4, NamedByIs
  <1> QED BY <1>1, <1>5 DEF q

Goes(b, n, m, p, step, q) == Pass(b, n, m, q) /\ DOMAIN q.names = DOMAIN p.names \union {step.name}

LEMMA PerformedIs ==
    ASSUME NEW b \in [Nat -> Int], NEW n, NEW m \in Nat, NEW p, Pass(b, n, m, p),
           NEW node, NEW step, StepFits(step, DOMAIN p.names)
    PROVE  Goes(b, n, m, p, step, Performed(p, node, step))
  <1> DEFINE t == Taken(p, step)
             x == Newest(t.s)
             given == AccumulatedOnTape(t, node.ins[step.to], x)
             q == Performed(p, node, step)
  <1>1. q = IF step.to = 0 THEN t ELSE given
    <2>1. step.op # "pass"
      BY DEF StepFits, Operations, Helpers, LocalOps, BinaryOps, Activations, AxisOps, Norms
    <2> QED BY <2>1 DEF Performed, Handed
  <1>2. Makes(b, n, m, p, step, t)
    BY TakenIs
  <1> HIDE DEF t, q
  <1>3. DOMAIN t.names = DOMAIN p.names \union {step.name} /\ x \in Ids(t.s)
    BY <1>2 DEF Makes
  <1>4. Pass(IF step.name \in Unkept THEN Plus(b, x) ELSE b, n, m, t)
    BY <1>2 DEF Makes
  <1> HIDE DEF x
  <1>5. CASE step.to = 0
    <2>1. Pass(b, n, m, t)
      <3>1. CASE step.name \in Unkept
        <4>1. Pass(Plus(b, x), n, m, t)
          BY <1>4, <3>1
        <4> QED BY <4>1, PassLess
      <3>2. CASE step.name \notin Unkept
        BY <1>4, <3>2
      <3> QED BY <3>1, <3>2
    <2> QED BY <1>1, <1>3, <1>5, <2>1 DEF Goes, q
  <1>6. CASE step.to # 0
    <2>1. step.name \in Unkept
      BY <1>6 DEF StepFits
    <2>2. Pass(Plus(b, x), n, m, t)
      BY <1>4, <2>1
    <2>3. Onward(b, n, m, t, given)
      BY <1>3, <2>2, AccumulatedIs
    <2> HIDE DEF given
    <2> QED BY <1>1, <1>3, <1>6, <2>3 DEF Goes, Onward, q
  <1> QED BY <1>5, <1>6

\* The loop of Followed.
FollowedLoop(start, node, rule, n, f) ==
    f = [k \in 0 .. n |-> IF k = 0 THEN start ELSE Performed(f[k - 1], node, rule[k])]

LEMMA FollowedTurns ==
    ASSUME NEW start, NEW node, NEW rule, Len(rule) \in Nat
    PROVE  \E f : FollowedLoop(start, node, rule, Len(rule), f) /\ Followed(start, node, rule) = f[Len(rule)]
  <1> DEFINE T == {m \in Nat : \E f : FollowedLoop(start, node, rule, m, f)}
  <1>1. 0 \in T
    <2> DEFINE f == [k \in 0 .. 0 |-> start]
    <2>1. \A k \in 0 .. 0 : f[k] = IF k = 0 THEN start ELSE Performed(f[k - 1], node, rule[k])
      OBVIOUS
    <2>2. f = [k \in 0 .. 0 |-> f[k]]
      OBVIOUS
    <2> HIDE DEF f
    <2>3. FollowedLoop(start, node, rule, 0, f)
      BY <2>1, <2>2 DEF FollowedLoop
    <2> QED BY <2>3
  <1>2. ASSUME NEW m \in Nat, m \in T PROVE m + 1 \in T
    <2>1. PICK f : FollowedLoop(start, node, rule, m, f)
      BY <1>2
    <2> DEFINE x == Performed(f[m], node, rule[m + 1])
               g == [k \in 0 .. m + 1 |-> IF k = m + 1 THEN x ELSE f[k]]
    <2>2. \A k \in 0 .. m : f[k] = IF k = 0 THEN start ELSE Performed(f[k - 1], node, rule[k])
      BY <2>1 DEF FollowedLoop
    <2>3. ASSUME NEW k \in 0 .. m + 1
          PROVE  g[k] = IF k = 0 THEN start ELSE Performed(g[k - 1], node, rule[k])
      <3>1. CASE k = m + 1
        <4>1. g[k] = x /\ k # 0 /\ k - 1 = m /\ m \in 0 .. m + 1 /\ m # m + 1
          BY <3>1
        <4>2. g[k - 1] = f[m]
          BY <4>1
        <4> HIDE DEF g
        <4> QED BY <3>1, <4>1, <4>2
      <3>2. CASE k # m + 1
        <4>1. k \in 0 .. m /\ g[k] = f[k]
          BY <3>2
        <4>2. k # 0 => g[k - 1] = f[k - 1]
          BY <4>1
        <4> HIDE DEF g
        <4> QED BY <2>2, <4>1, <4>2
      <3> QED BY <3>1, <3>2
    <2>4. g = [k \in 0 .. m + 1 |-> g[k]]
      OBVIOUS
    <2> HIDE DEF g
    <2>5. FollowedLoop(start, node, rule, m + 1, g)
      BY <2>3, <2>4 DEF FollowedLoop
    <2> QED BY <2>5
  <1>3. Nat \subseteq T
    <2> HIDE DEF T
    <2> QED BY <1>1, <1>2, InductiveSet
  <1>4. \E f : FollowedLoop(start, node, rule, Len(rule), f)
    BY <1>3
  <1> DEFINE C == CHOOSE f : FollowedLoop(start, node, rule, Len(rule), f)
  <1>5. Followed(start, node, rule) = C[Len(rule)]
    BY DEF Followed, FollowedLoop
  <1>6. FollowedLoop(start, node, rule, Len(rule), C)
    BY <1>4
  <1> HIDE DEF C
  <1> QED BY <1>5, <1>6

\* A rule each of whose steps uses what there is by then.
NamesBefore(rule, k) == Base \union {rule[j].name : j \in 1 .. k - 1}
RuleFits(rule) == Len(rule) \in Nat /\ \A k \in 1 .. Len(rule) : StepFits(rule[k], NamesBefore(rule, k))

LEMMA FollowedIs ==
    ASSUME NEW b \in [Nat -> Int], NEW n, NEW m \in Nat, NEW p, Pass(b, n, m, p), DOMAIN p.names = Base,
           NEW node, NEW rule, RuleFits(rule)
    PROVE  Pass(b, n, m, Followed(p, node, rule))
  <1> DEFINE c == Len(rule)
  <1>1. c \in Nat
    BY DEF RuleFits
  <1>2. PICK f : FollowedLoop(p, node, rule, c, f) /\ Followed(p, node, rule) = f[c]
    BY <1>1, FollowedTurns
  <1>3. \A k \in 0 .. c : f[k] = IF k = 0 THEN p ELSE Performed(f[k - 1], node, rule[k])
    BY <1>2 DEF FollowedLoop
  <1> HIDE DEF c
  <1> DEFINE T == {k \in Nat : k <= c => Pass(b, n, m, f[k]) /\ DOMAIN f[k].names = NamesBefore(rule, k + 1)}
  <1>4. 0 \in T
    <2>1. f[0] = p
      BY <1>1, <1>3
    <2>2. NamesBefore(rule, 0 + 1) = Base
      <3>1. 1 .. (0 + 1) - 1 = {}
        OBVIOUS
      <3> QED BY <3>1 DEF NamesBefore
    <2> QED BY <2>1, <2>2
  <1>5. ASSUME NEW k \in Nat, k \in T PROVE k + 1 \in T
    <2> SUFFICES ASSUME k + 1 <= c
                 PROVE  Pass(b, n, m, f[k + 1]) /\ DOMAIN f[k + 1].names = NamesBefore(rule, (k + 1) + 1)
      OBVIOUS
    <2>1. Pass(b, n, m, f[k]) /\ DOMAIN f[k].names = NamesBefore(rule, k + 1)
      BY <1>1, <1>5
    <2>2. k + 1 \in 0 .. c /\ k + 1 \in 1 .. c /\ k + 1 # 0 /\ (k + 1) - 1 = k
      BY <1>1
    <2>3. f[k + 1] = Performed(f[k], node, rule[k + 1])
      BY <1>3, <2>2
    <2>4. StepFits(rule[k + 1], DOMAIN f[k].names)
      BY <2>1, <2>2 DEF RuleFits, c
    <2>5. Goes(b, n, m, f[k], rule[k + 1], f[k + 1])
      BY <2>1, <2>3, <2>4, PerformedIs
    <2>6. NamesBefore(rule, (k + 1) + 1) = NamesBefore(rule, k + 1) \union {rule[k + 1].name}
      <3>1. 1 .. ((k + 1) + 1) - 1 = (1 .. (k + 1) - 1) \union {k + 1}
        OBVIOUS
      <3> QED BY <3>1 DEF NamesBefore
    <2> QED BY <2>1, <2>5, <2>6 DEF Goes
  <1>6. Nat \subseteq T
    <2> HIDE DEF T
    <2> QED BY <1>4, <1>5, InductiveSet
  <1>7. Pass(b, n, m, f[c])
    BY <1>1, <1>6
  <1> QED BY <1>2, <1>7

----------------------------------------------------------------------------
(* The rules fit *)

\* The operations that rules are made of.
RuleOps ==
    {"add", "sub", "mul", "div", "scale", "tanh", "sigmoid", "transpose", "reshape", "matmul",
     "bcast", "axis_sum", "keep_sum", "ones", "mask"}

LEMMA StepOfOne ==
    ASSUME NEW D, NEW x \in D, NEW step, step.op \in RuleOps, step.ins = <<x>>,
           step.to = 0 \/ step.name \in Unkept
    PROVE  StepFits(step, D)
  <1>1. step.op \in Operations \union Helpers
    BY DEF RuleOps, Operations, Helpers, LocalOps, BinaryOps, Activations
  <1>2. <<x>> \in Seq(D) /\ <<x>> # <<>>
    OBVIOUS
  <1> QED BY <1>1, <1>2 DEF StepFits

LEMMA StepOfTwo ==
    ASSUME NEW D, NEW x \in D, NEW y \in D, NEW step, step.op \in RuleOps, step.ins = <<x, y>>,
           step.to = 0 \/ step.name \in Unkept
    PROVE  StepFits(step, D)
  <1>1. step.op \in Operations \union Helpers
    BY DEF RuleOps, Operations, Helpers, LocalOps, BinaryOps, Activations
  <1>2. <<x, y>> \in Seq(D) /\ <<x, y>> # <<>>
    OBVIOUS
  <1> QED BY <1>1, <1>2 DEF StepFits

LEMMA NameThere ==
    ASSUME NEW rule, NEW k \in Nat
    PROVE  /\ "a" \in NamesBefore(rule, k) /\ "b" \in NamesBefore(rule, k)
           /\ "d" \in NamesBefore(rule, k) /\ "y" \in NamesBefore(rule, k)
           /\ \A j \in 1 .. k - 1 : rule[j].name \in NamesBefore(rule, k)
  BY DEF NamesBefore, Base

\* A rule that ends with a product by the slope.
LEMMA SlopeFits ==
    ASSUME NEW make, IsSeq(make), RuleFits(make), "slope" \in NamesBefore(make, Len(make) + 1)
    PROVE  RuleFits(Slope(make))
  <1> DEFINE c == Len(make)
             last == Give(1, "mul", <<"d", "slope">>)
             rule == Append(make, last)
  <1>1. Slope(make) = rule
    <2> DEFINE S == {make[k] : k \in DOMAIN make} \union {last}
    <2>1. make \in Seq(S) /\ last \in S
      <3>1. make \in Seq({make[k] : k \in DOMAIN make})
        BY DEF IsSeq
      <3> HIDE DEF last
      <3> QED BY <3>1
    <2> HIDE DEF S, last
    <2>2. Append(make, last) = make \o <<last>>
      BY <2>1, AppendIsConcat
    <2> QED BY <2>2 DEF Slope, last
  <1>2. /\ c \in Nat /\ Len(rule) = c + 1 /\ rule[c + 1] = last
        /\ \A k \in 1 .. c : rule[k] = make[k]
    <2> HIDE DEF last
    <2> QED BY SeqAppend, SeqFacts
  <1>3. last.op = "mul" /\ last.ins = <<"d", "slope">> /\ last.name = "given"
    BY DEF Give
  <1> HIDE DEF c, last, rule
  <1>4. ASSUME NEW k \in 1 .. c + 1 PROVE NamesBefore(rule, k) = NamesBefore(make, k)
    <2>1. \A j \in 1 .. k - 1 : rule[j] = make[j]
      BY <1>2
    <2> QED BY <2>1 DEF NamesBefore
  <1>5. ASSUME NEW k \in 1 .. c + 1 PROVE StepFits(rule[k], NamesBefore(rule, k))
    <2>1. CASE k = c + 1
      <3> DEFINE D == NamesBefore(rule, c + 1)
      <3>1. "slope" \in D
        BY <1>2, <1>4 DEF c
      <3>2. "d" \in D /\ last.op \in RuleOps /\ last.name \in Unkept
        BY <1>3 DEF NamesBefore, Base, RuleOps, Unkept
      <3> HIDE DEF D
      <3>3. StepFits(last, D)
        BY <1>3, <3>1, <3>2, StepOfTwo
      <3> QED BY <1>2, <2>1, <3>3 DEF D
    <2>2. CASE k # c + 1
      <3>1. k \in 1 .. c
        BY <1>2, <2>2
      <3>2. StepFits(make[k], NamesBefore(make, k))
        BY <3>1 DEF RuleFits, c
      <3> QED BY <1>2, <1>4, <3>1, <3>2
    <2> QED BY <2>1, <2>2
  <1> QED BY <1>1, <1>2, <1>5 DEF RuleFits

LEMMA AddFits ==
    RuleFits(<<Give(1, "axis_sum", <<"d", "a">>), Give(2, "axis_sum", <<"d", "b">>)>>)
  <1> DEFINE r == <<Give(1, "axis_sum", <<"d", "a">>), Give(2, "axis_sum", <<"d", "b">>)>>
  <1>1. Len(r) = 2
    OBVIOUS
  <1>2. r[1].name = "given" /\ r[1].op = "axis_sum" /\ r[1].ins = <<"d", "a">> /\ r[1].to = 1
    BY DEF Step, StepBy, Give, GiveBy
  <1>3. r[2].name = "given" /\ r[2].op = "axis_sum" /\ r[2].ins = <<"d", "b">> /\ r[2].to = 2
    BY DEF Step, StepBy, Give, GiveBy
  <1> HIDE DEF r
  <1>4. StepFits(r[1], NamesBefore(r, 1))
    <2> DEFINE D == NamesBefore(r, 1)
    <2>1. "d" \in D /\ "a" \in D
      <3>1. 1 \in Nat
        OBVIOUS
      <3> QED BY <3>1, NameThere
    <2>2. r[1].op \in RuleOps /\ (r[1].to = 0 \/ r[1].name \in Unkept)
      BY <1>2 DEF RuleOps, Unkept
    <2> HIDE DEF D
    <2>3. StepFits(r[1], D)
      BY <1>2, <2>1, <2>2, StepOfTwo
    <2> QED BY <2>3 DEF D
  <1>5. StepFits(r[2], NamesBefore(r, 2))
    <2> DEFINE D == NamesBefore(r, 2)
    <2>1. "d" \in D /\ "b" \in D
      <3>1. 2 \in Nat
        OBVIOUS
      <3> QED BY <3>1, NameThere
    <2>2. r[2].op \in RuleOps /\ (r[2].to = 0 \/ r[2].name \in Unkept)
      BY <1>3 DEF RuleOps, Unkept
    <2> HIDE DEF D
    <2>3. StepFits(r[2], D)
      BY <1>3, <2>1, <2>2, StepOfTwo
    <2> QED BY <2>3 DEF D
  <1>6. RuleFits(r)
    <2>1. \A k \in 1 .. 2 : k = 1 \/ k = 2
      OBVIOUS
    <2>2. \A k \in 1 .. 2 : StepFits(r[k], NamesBefore(r, k))
      BY <2>1, <1>4, <1>5
    <2> QED BY <1>1, <2>2 DEF RuleFits
  <1> QED BY <1>6 DEF r

LEMMA SubFits ==
    RuleFits(<<StepBy("neg", "scale", <<"d">>, Q(-1)), Give(1, "axis_sum", <<"d", "a">>),
                        Give(2, "axis_sum", <<"neg", "b">>)>>)
  <1> DEFINE r == <<StepBy("neg", "scale", <<"d">>, Q(-1)), Give(1, "axis_sum", <<"d", "a">>),
                       Give(2, "axis_sum", <<"neg", "b">>)>>
  <1>1. Len(r) = 3
    OBVIOUS
  <1>2. r[1].name = "neg" /\ r[1].op = "scale" /\ r[1].ins = <<"d">> /\ r[1].to = 0
    BY DEF Step, StepBy, Give, GiveBy
  <1>3. r[2].name = "given" /\ r[2].op = "axis_sum" /\ r[2].ins = <<"d", "a">> /\ r[2].to = 1
    BY DEF Step, StepBy, Give, GiveBy
  <1>4. r[3].name = "given" /\ r[3].op = "axis_sum" /\ r[3].ins = <<"neg", "b">> /\ r[3].to = 2
    BY DEF Step, StepBy, Give, GiveBy
  <1> HIDE DEF r
  <1>5. StepFits(r[1], NamesBefore(r, 1))
    <2> DEFINE D == NamesBefore(r, 1)
    <2>1. "d" \in D
      <3>1. 1 \in Nat
        OBVIOUS
      <3> QED BY <3>1, NameThere
    <2>2. r[1].op \in RuleOps /\ (r[1].to = 0 \/ r[1].name \in Unkept)
      BY <1>2 DEF RuleOps, Unkept
    <2> HIDE DEF D
    <2>3. StepFits(r[1], D)
      BY <1>2, <2>1, <2>2, StepOfOne
    <2> QED BY <2>3 DEF D
  <1>6. StepFits(r[2], NamesBefore(r, 2))
    <2> DEFINE D == NamesBefore(r, 2)
    <2>1. "d" \in D /\ "a" \in D
      <3>1. 2 \in Nat
        OBVIOUS
      <3> QED BY <3>1, NameThere
    <2>2. r[2].op \in RuleOps /\ (r[2].to = 0 \/ r[2].name \in Unkept)
      BY <1>3 DEF RuleOps, Unkept
    <2> HIDE DEF D
    <2>3. StepFits(r[2], D)
      BY <1>3, <2>1, <2>2, StepOfTwo
    <2> QED BY <2>3 DEF D
  <1>7. StepFits(r[3], NamesBefore(r, 3))
    <2> DEFINE D == NamesBefore(r, 3)
    <2>1. "neg" \in D /\ "b" \in D
      <3>1. 3 \in Nat /\ 1 \in 1 .. 3 - 1
        OBVIOUS
      <3> QED BY <3>1, <1>2, NameThere
    <2>2. r[3].op \in RuleOps /\ (r[3].to = 0 \/ r[3].name \in Unkept)
      BY <1>4 DEF RuleOps, Unkept
    <2> HIDE DEF D
    <2>3. StepFits(r[3], D)
      BY <1>4, <2>1, <2>2, StepOfTwo
    <2> QED BY <2>3 DEF D
  <1>8. RuleFits(r)
    <2>1. \A k \in 1 .. 3 : k = 1 \/ k = 2 \/ k = 3
      OBVIOUS
    <2>2. \A k \in 1 .. 3 : StepFits(r[k], NamesBefore(r, k))
      BY <2>1, <1>5, <1>6, <1>7
    <2> QED BY <1>1, <2>2 DEF RuleFits
  <1> QED BY <1>8 DEF r

LEMMA MulSameFits ==
    RuleFits(MulRule(TRUE))
  <1> DEFINE r == MulRule(TRUE)
  <1>1. Len(r) = 2
    BY DEF MulRule, Step, StepBy, Give, GiveBy
  <1>2. r[1].name = "given" /\ r[1].op = "mul" /\ r[1].ins = <<"d", "b">> /\ r[1].to = 1
    BY DEF MulRule, Step, StepBy, Give, GiveBy
  <1>3. r[2].name = "given" /\ r[2].op = "mul" /\ r[2].ins = <<"d", "a">> /\ r[2].to = 2
    BY DEF MulRule, Step, StepBy, Give, GiveBy
  <1> HIDE DEF r
  <1>4. StepFits(r[1], NamesBefore(r, 1))
    <2> DEFINE D == NamesBefore(r, 1)
    <2>1. "d" \in D /\ "b" \in D
      <3>1. 1 \in Nat
        OBVIOUS
      <3> QED BY <3>1, NameThere
    <2>2. r[1].op \in RuleOps /\ (r[1].to = 0 \/ r[1].name \in Unkept)
      BY <1>2 DEF RuleOps, Unkept
    <2> HIDE DEF D
    <2>3. StepFits(r[1], D)
      BY <1>2, <2>1, <2>2, StepOfTwo
    <2> QED BY <2>3 DEF D
  <1>5. StepFits(r[2], NamesBefore(r, 2))
    <2> DEFINE D == NamesBefore(r, 2)
    <2>1. "d" \in D /\ "a" \in D
      <3>1. 2 \in Nat
        OBVIOUS
      <3> QED BY <3>1, NameThere
    <2>2. r[2].op \in RuleOps /\ (r[2].to = 0 \/ r[2].name \in Unkept)
      BY <1>3 DEF RuleOps, Unkept
    <2> HIDE DEF D
    <2>3. StepFits(r[2], D)
      BY <1>3, <2>1, <2>2, StepOfTwo
    <2> QED BY <2>3 DEF D
  <1>6. RuleFits(r)
    <2>1. \A k \in 1 .. 2 : k = 1 \/ k = 2
      OBVIOUS
    <2>2. \A k \in 1 .. 2 : StepFits(r[k], NamesBefore(r, k))
      BY <2>1, <1>4, <1>5
    <2> QED BY <1>1, <2>2 DEF RuleFits
  <1> QED BY <1>6 DEF r

LEMMA MulOtherFits ==
    RuleFits(MulRule(FALSE))
  <1> DEFINE r == MulRule(FALSE)
  <1>1. Len(r) = 6
    BY DEF MulRule, Step, StepBy, Give, GiveBy
  <1>2. r[1].name = "bb" /\ r[1].op = "bcast" /\ r[1].ins = <<"b", "d">> /\ r[1].to = 0
    BY DEF MulRule, Step, StepBy, Give, GiveBy
  <1>3. r[2].name = "ba" /\ r[2].op = "bcast" /\ r[2].ins = <<"a", "d">> /\ r[2].to = 0
    BY DEF MulRule, Step, StepBy, Give, GiveBy
  <1>4. r[3].name = "da" /\ r[3].op = "mul" /\ r[3].ins = <<"d", "bb">> /\ r[3].to = 0
    BY DEF MulRule, Step, StepBy, Give, GiveBy
  <1>5. r[4].name = "db" /\ r[4].op = "mul" /\ r[4].ins = <<"d", "ba">> /\ r[4].to = 0
    BY DEF MulRule, Step, StepBy, Give, GiveBy
  <1>6. r[5].name = "given" /\ r[5].op = "axis_sum" /\ r[5].ins = <<"da", "a">> /\ r[5].to = 1
    BY DEF MulRule, Step, StepBy, Give, GiveBy
  <1>7. r[6].name = "given" /\ r[6].op = "axis_sum" /\ r[6].ins = <<"db", "b">> /\ r[6].to = 2
    BY DEF MulRule, Step, StepBy, Give, GiveBy
  <1> HIDE DEF r
  <1>8. StepFits(r[1], NamesBefore(r, 1))
    <2> DEFINE D == NamesBefore(r, 1)
    <2>1. "b" \in D /\ "d" \in D
      <3>1. 1 \in Nat
        OBVIOUS
      <3> QED BY <3>1, NameThere
    <2>2. r[1].op \in RuleOps /\ (r[1].to = 0 \/ r[1].name \in Unkept)
      BY <1>2 DEF RuleOps, Unkept
    <2> HIDE DEF D
    <2>3. StepFits(r[1], D)
      BY <1>2, <2>1, <2>2, StepOfTwo
    <2> QED BY <2>3 DEF D
  <1>9. StepFits(r[2], NamesBefore(r, 2))
    <2> DEFINE D == NamesBefore(r, 2)
    <2>1. "a" \in D /\ "d" \in D
      <3>1. 2 \in Nat
        OBVIOUS
      <3> QED BY <3>1, NameThere
    <2>2. r[2].op \in RuleOps /\ (r[2].to = 0 \/ r[2].name \in Unkept)
      BY <1>3 DEF RuleOps, Unkept
    <2> HIDE DEF D
    <2>3. StepFits(r[2], D)
      BY <1>3, <2>1, <2>2, StepOfTwo
    <2> QED BY <2>3 DEF D
  <1>10. StepFits(r[3], NamesBefore(r, 3))
    <2> DEFINE D == NamesBefore(r, 3)
    <2>1. "d" \in D /\ "bb" \in D
      <3>1. 3 \in Nat /\ 1 \in 1 .. 3 - 1
        OBVIOUS
      <3> QED BY <3>1, <1>2, NameThere
    <2>2. r[3].op \in RuleOps /\ (r[3].to = 0 \/ r[3].name \in Unkept)
      BY <1>4 DEF RuleOps, Unkept
    <2> HIDE DEF D
    <2>3. StepFits(r[3], D)
      BY <1>4, <2>1, <2>2, StepOfTwo
    <2> QED BY <2>3 DEF D
  <1>11. StepFits(r[4], NamesBefore(r, 4))
    <2> DEFINE D == NamesBefore(r, 4)
    <2>1. "d" \in D /\ "ba" \in D
      <3>1. 4 \in Nat /\ 2 \in 1 .. 4 - 1
        OBVIOUS
      <3> QED BY <3>1, <1>3, NameThere
    <2>2. r[4].op \in RuleOps /\ (r[4].to = 0 \/ r[4].name \in Unkept)
      BY <1>5 DEF RuleOps, Unkept
    <2> HIDE DEF D
    <2>3. StepFits(r[4], D)
      BY <1>5, <2>1, <2>2, StepOfTwo
    <2> QED BY <2>3 DEF D
  <1>12. StepFits(r[5], NamesBefore(r, 5))
    <2> DEFINE D == NamesBefore(r, 5)
    <2>1. "da" \in D /\ "a" \in D
      <3>1. 5 \in Nat /\ 3 \in 1 .. 5 - 1
        OBVIOUS
      <3> QED BY <3>1, <1>4, NameThere
    <2>2. r[5].op \in RuleOps /\ (r[5].to = 0 \/ r[5].name \in Unkept)
      BY <1>6 DEF RuleOps, Unkept
    <2> HIDE DEF D
    <2>3. StepFits(r[5], D)
      BY <1>6, <2>1, <2>2, StepOfTwo
    <2> QED BY <2>3 DEF D
  <1>13. StepFits(r[6], NamesBefore(r, 6))
    <2> DEFINE D == NamesBefore(r, 6)
    <2>1. "db" \in D /\ "b" \in D
      <3>1. 6 \in Nat /\ 4 \in 1 .. 6 - 1
        OBVIOUS
      <3> QED BY <3>1, <1>5, NameThere
    <2>2. r[6].op \in RuleOps /\ (r[6].to = 0 \/ r[6].name \in Unkept)
      BY <1>7 DEF RuleOps, Unkept
    <2> HIDE DEF D
    <2>3. StepFits(r[6], D)
      BY <1>7, <2>1, <2>2, StepOfTwo
    <2> QED BY <2>3 DEF D
  <1>14. RuleFits(r)
    <2>1. \A k \in 1 .. 6 : k = 1 \/ k = 2 \/ k = 3 \/ k = 4 \/ k = 5 \/ k = 6
      OBVIOUS
    <2>2. \A k \in 1 .. 6 : StepFits(r[k], NamesBefore(r, k))
      BY <2>1, <1>8, <1>9, <1>10, <1>11, <1>12, <1>13
    <2> QED BY <1>1, <2>2 DEF RuleFits
  <1> QED BY <1>14 DEF r

LEMMA DivSameFits ==
    RuleFits(DivRule(TRUE))
  <1> DEFINE r == DivRule(TRUE)
  <1>1. Len(r) = 5
    BY DEF DivRule, Step, StepBy, Give, GiveBy
  <1>2. r[1].name = "given" /\ r[1].op = "div" /\ r[1].ins = <<"d", "b">> /\ r[1].to = 1
    BY DEF DivRule, Step, StepBy, Give, GiveBy
  <1>3. r[2].name = "t1" /\ r[2].op = "mul" /\ r[2].ins = <<"d", "a">> /\ r[2].to = 0
    BY DEF DivRule, Step, StepBy, Give, GiveBy
  <1>4. r[3].name = "t2" /\ r[3].op = "mul" /\ r[3].ins = <<"b", "b">> /\ r[3].to = 0
    BY DEF DivRule, Step, StepBy, Give, GiveBy
  <1>5. r[4].name = "t3" /\ r[4].op = "div" /\ r[4].ins = <<"t1", "t2">> /\ r[4].to = 0
    BY DEF DivRule, Step, StepBy, Give, GiveBy
  <1>6. r[5].name = "given" /\ r[5].op = "scale" /\ r[5].ins = <<"t3">> /\ r[5].to = 2
    BY DEF DivRule, Step, StepBy, Give, GiveBy
  <1> HIDE DEF r
  <1>7. StepFits(r[1], NamesBefore(r, 1))
    <2> DEFINE D == NamesBefore(r, 1)
    <2>1. "d" \in D /\ "b" \in D
      <3>1. 1 \in Nat
        OBVIOUS
      <3> QED BY <3>1, NameThere
    <2>2. r[1].op \in RuleOps /\ (r[1].to = 0 \/ r[1].name \in Unkept)
      BY <1>2 DEF RuleOps, Unkept
    <2> HIDE DEF D
    <2>3. StepFits(r[1], D)
      BY <1>2, <2>1, <2>2, StepOfTwo
    <2> QED BY <2>3 DEF D
  <1>8. StepFits(r[2], NamesBefore(r, 2))
    <2> DEFINE D == NamesBefore(r, 2)
    <2>1. "d" \in D /\ "a" \in D
      <3>1. 2 \in Nat
        OBVIOUS
      <3> QED BY <3>1, NameThere
    <2>2. r[2].op \in RuleOps /\ (r[2].to = 0 \/ r[2].name \in Unkept)
      BY <1>3 DEF RuleOps, Unkept
    <2> HIDE DEF D
    <2>3. StepFits(r[2], D)
      BY <1>3, <2>1, <2>2, StepOfTwo
    <2> QED BY <2>3 DEF D
  <1>9. StepFits(r[3], NamesBefore(r, 3))
    <2> DEFINE D == NamesBefore(r, 3)
    <2>1. "b" \in D
      <3>1. 3 \in Nat
        OBVIOUS
      <3> QED BY <3>1, NameThere
    <2>2. r[3].op \in RuleOps /\ (r[3].to = 0 \/ r[3].name \in Unkept)
      BY <1>4 DEF RuleOps, Unkept
    <2> HIDE DEF D
    <2>3. StepFits(r[3], D)
      BY <1>4, <2>1, <2>2, StepOfTwo
    <2> QED BY <2>3 DEF D
  <1>10. StepFits(r[4], NamesBefore(r, 4))
    <2> DEFINE D == NamesBefore(r, 4)
    <2>1. "t1" \in D /\ "t2" \in D
      <3>1. 4 \in Nat /\ 2 \in 1 .. 4 - 1 /\ 3 \in 1 .. 4 - 1
        OBVIOUS
      <3> QED BY <3>1, <1>3, <1>4, NameThere
    <2>2. r[4].op \in RuleOps /\ (r[4].to = 0 \/ r[4].name \in Unkept)
      BY <1>5 DEF RuleOps, Unkept
    <2> HIDE DEF D
    <2>3. StepFits(r[4], D)
      BY <1>5, <2>1, <2>2, StepOfTwo
    <2> QED BY <2>3 DEF D
  <1>11. StepFits(r[5], NamesBefore(r, 5))
    <2> DEFINE D == NamesBefore(r, 5)
    <2>1. "t3" \in D
      <3>1. 5 \in Nat /\ 4 \in 1 .. 5 - 1
        OBVIOUS
      <3> QED BY <3>1, <1>5, NameThere
    <2>2. r[5].op \in RuleOps /\ (r[5].to = 0 \/ r[5].name \in Unkept)
      BY <1>6 DEF RuleOps, Unkept
    <2> HIDE DEF D
    <2>3. StepFits(r[5], D)
      BY <1>6, <2>1, <2>2, StepOfOne
    <2> QED BY <2>3 DEF D
  <1>12. RuleFits(r)
    <2>1. \A k \in 1 .. 5 : k = 1 \/ k = 2 \/ k = 3 \/ k = 4 \/ k = 5
      OBVIOUS
    <2>2. \A k \in 1 .. 5 : StepFits(r[k], NamesBefore(r, k))
      BY <2>1, <1>7, <1>8, <1>9, <1>10, <1>11
    <2> QED BY <1>1, <2>2 DEF RuleFits
  <1> QED BY <1>12 DEF r

LEMMA DivOtherFits ==
    RuleFits(DivRule(FALSE))
  <1> DEFINE r == DivRule(FALSE)
  <1>1. Len(r) = 9
    BY DEF DivRule, Step, StepBy, Give, GiveBy
  <1>2. r[1].name = "bb" /\ r[1].op = "bcast" /\ r[1].ins = <<"b", "d">> /\ r[1].to = 0
    BY DEF DivRule, Step, StepBy, Give, GiveBy
  <1>3. r[2].name = "ba" /\ r[2].op = "bcast" /\ r[2].ins = <<"a", "d">> /\ r[2].to = 0
    BY DEF DivRule, Step, StepBy, Give, GiveBy
  <1>4. r[3].name = "da" /\ r[3].op = "div" /\ r[3].ins = <<"d", "bb">> /\ r[3].to = 0
    BY DEF DivRule, Step, StepBy, Give, GiveBy
  <1>5. r[4].name = "num" /\ r[4].op = "mul" /\ r[4].ins = <<"d", "ba">> /\ r[4].to = 0
    BY DEF DivRule, Step, StepBy, Give, GiveBy
  <1>6. r[5].name = "bb2" /\ r[5].op = "mul" /\ r[5].ins = <<"bb", "bb">> /\ r[5].to = 0
    BY DEF DivRule, Step, StepBy, Give, GiveBy
  <1>7. r[6].name = "db" /\ r[6].op = "div" /\ r[6].ins = <<"num", "bb2">> /\ r[6].to = 0
    BY DEF DivRule, Step, StepBy, Give, GiveBy
  <1>8. r[7].name = "given" /\ r[7].op = "axis_sum" /\ r[7].ins = <<"da", "a">> /\ r[7].to = 1
    BY DEF DivRule, Step, StepBy, Give, GiveBy
  <1>9. r[8].name = "neg" /\ r[8].op = "scale" /\ r[8].ins = <<"db">> /\ r[8].to = 0
    BY DEF DivRule, Step, StepBy, Give, GiveBy
  <1>10. r[9].name = "given" /\ r[9].op = "axis_sum" /\ r[9].ins = <<"neg", "b">> /\ r[9].to = 2
    BY DEF DivRule, Step, StepBy, Give, GiveBy
  <1> HIDE DEF r
  <1>11. StepFits(r[1], NamesBefore(r, 1))
    <2> DEFINE D == NamesBefore(r, 1)
    <2>1. "b" \in D /\ "d" \in D
      <3>1. 1 \in Nat
        OBVIOUS
      <3> QED BY <3>1, NameThere
    <2>2. r[1].op \in RuleOps /\ (r[1].to = 0 \/ r[1].name \in Unkept)
      BY <1>2 DEF RuleOps, Unkept
    <2> HIDE DEF D
    <2>3. StepFits(r[1], D)
      BY <1>2, <2>1, <2>2, StepOfTwo
    <2> QED BY <2>3 DEF D
  <1>12. StepFits(r[2], NamesBefore(r, 2))
    <2> DEFINE D == NamesBefore(r, 2)
    <2>1. "a" \in D /\ "d" \in D
      <3>1. 2 \in Nat
        OBVIOUS
      <3> QED BY <3>1, NameThere
    <2>2. r[2].op \in RuleOps /\ (r[2].to = 0 \/ r[2].name \in Unkept)
      BY <1>3 DEF RuleOps, Unkept
    <2> HIDE DEF D
    <2>3. StepFits(r[2], D)
      BY <1>3, <2>1, <2>2, StepOfTwo
    <2> QED BY <2>3 DEF D
  <1>13. StepFits(r[3], NamesBefore(r, 3))
    <2> DEFINE D == NamesBefore(r, 3)
    <2>1. "d" \in D /\ "bb" \in D
      <3>1. 3 \in Nat /\ 1 \in 1 .. 3 - 1
        OBVIOUS
      <3> QED BY <3>1, <1>2, NameThere
    <2>2. r[3].op \in RuleOps /\ (r[3].to = 0 \/ r[3].name \in Unkept)
      BY <1>4 DEF RuleOps, Unkept
    <2> HIDE DEF D
    <2>3. StepFits(r[3], D)
      BY <1>4, <2>1, <2>2, StepOfTwo
    <2> QED BY <2>3 DEF D
  <1>14. StepFits(r[4], NamesBefore(r, 4))
    <2> DEFINE D == NamesBefore(r, 4)
    <2>1. "d" \in D /\ "ba" \in D
      <3>1. 4 \in Nat /\ 2 \in 1 .. 4 - 1
        OBVIOUS
      <3> QED BY <3>1, <1>3, NameThere
    <2>2. r[4].op \in RuleOps /\ (r[4].to = 0 \/ r[4].name \in Unkept)
      BY <1>5 DEF RuleOps, Unkept
    <2> HIDE DEF D
    <2>3. StepFits(r[4], D)
      BY <1>5, <2>1, <2>2, StepOfTwo
    <2> QED BY <2>3 DEF D
  <1>15. StepFits(r[5], NamesBefore(r, 5))
    <2> DEFINE D == NamesBefore(r, 5)
    <2>1. "bb" \in D
      <3>1. 5 \in Nat /\ 1 \in 1 .. 5 - 1
        OBVIOUS
      <3> QED BY <3>1, <1>2, NameThere
    <2>2. r[5].op \in RuleOps /\ (r[5].to = 0 \/ r[5].name \in Unkept)
      BY <1>6 DEF RuleOps, Unkept
    <2> HIDE DEF D
    <2>3. StepFits(r[5], D)
      BY <1>6, <2>1, <2>2, StepOfTwo
    <2> QED BY <2>3 DEF D
  <1>16. StepFits(r[6], NamesBefore(r, 6))
    <2> DEFINE D == NamesBefore(r, 6)
    <2>1. "num" \in D /\ "bb2" \in D
      <3>1. 6 \in Nat /\ 4 \in 1 .. 6 - 1 /\ 5 \in 1 .. 6 - 1
        OBVIOUS
      <3> QED BY <3>1, <1>5, <1>6, NameThere
    <2>2. r[6].op \in RuleOps /\ (r[6].to = 0 \/ r[6].name \in Unkept)
      BY <1>7 DEF RuleOps, Unkept
    <2> HIDE DEF D
    <2>3. StepFits(r[6], D)
      BY <1>7, <2>1, <2>2, StepOfTwo
    <2> QED BY <2>3 DEF D
  <1>17. StepFits(r[7], NamesBefore(r, 7))
    <2> DEFINE D == NamesBefore(r, 7)
    <2>1. "da" \in D /\ "a" \in D
      <3>1. 7 \in Nat /\ 3 \in 1 .. 7 - 1
        OBVIOUS
      <3> QED BY <3>1, <1>4, NameThere
    <2>2. r[7].op \in RuleOps /\ (r[7].to = 0 \/ r[7].name \in Unkept)
      BY <1>8 DEF RuleOps, Unkept
    <2> HIDE DEF D
    <2>3. StepFits(r[7], D)
      BY <1>8, <2>1, <2>2, StepOfTwo
    <2> QED BY <2>3 DEF D
  <1>18. StepFits(r[8], NamesBefore(r, 8))
    <2> DEFINE D == NamesBefore(r, 8)
    <2>1. "db" \in D
      <3>1. 8 \in Nat /\ 6 \in 1 .. 8 - 1
        OBVIOUS
      <3> QED BY <3>1, <1>7, NameThere
    <2>2. r[8].op \in RuleOps /\ (r[8].to = 0 \/ r[8].name \in Unkept)
      BY <1>9 DEF RuleOps, Unkept
    <2> HIDE DEF D
    <2>3. StepFits(r[8], D)
      BY <1>9, <2>1, <2>2, StepOfOne
    <2> QED BY <2>3 DEF D
  <1>19. StepFits(r[9], NamesBefore(r, 9))
    <2> DEFINE D == NamesBefore(r, 9)
    <2>1. "neg" \in D /\ "b" \in D
      <3>1. 9 \in Nat /\ 8 \in 1 .. 9 - 1
        OBVIOUS
      <3> QED BY <3>1, <1>9, NameThere
    <2>2. r[9].op \in RuleOps /\ (r[9].to = 0 \/ r[9].name \in Unkept)
      BY <1>10 DEF RuleOps, Unkept
    <2> HIDE DEF D
    <2>3. StepFits(r[9], D)
      BY <1>10, <2>1, <2>2, StepOfTwo
    <2> QED BY <2>3 DEF D
  <1>20. RuleFits(r)
    <2>1. \A k \in 1 .. 9 : k = 1 \/ k = 2 \/ k = 3 \/ k = 4 \/ k = 5 \/ k = 6 \/ k = 7 \/ k = 8 \/ k = 9
      OBVIOUS
    <2>2. \A k \in 1 .. 9 : StepFits(r[k], NamesBefore(r, k))
      BY <2>1, <1>11, <1>12, <1>13, <1>14, <1>15, <1>16, <1>17, <1>18, <1>19
    <2> QED BY <1>1, <2>2 DEF RuleFits
  <1> QED BY <1>20 DEF r

LEMMA ScaleFits ==
    ASSUME NEW par
    PROVE  RuleFits(<<GiveBy(1, "scale", <<"d">>, par)>>)
  <1> DEFINE r == <<GiveBy(1, "scale", <<"d">>, par)>>
  <1>1. Len(r) = 1
    OBVIOUS
  <1>2. r[1].name = "given" /\ r[1].op = "scale" /\ r[1].ins = <<"d">> /\ r[1].to = 1
    BY DEF Step, StepBy, Give, GiveBy
  <1> HIDE DEF r
  <1>3. StepFits(r[1], NamesBefore(r, 1))
    <2> DEFINE D == NamesBefore(r, 1)
    <2>1. "d" \in D
      <3>1. 1 \in Nat
        OBVIOUS
      <3> QED BY <3>1, NameThere
    <2>2. r[1].op \in RuleOps /\ (r[1].to = 0 \/ r[1].name \in Unkept)
      BY <1>2 DEF RuleOps, Unkept
    <2> HIDE DEF D
    <2>3. StepFits(r[1], D)
      BY <1>2, <2>1, <2>2, StepOfOne
    <2> QED BY <2>3 DEF D
  <1>4. RuleFits(r)
    <2>1. \A k \in 1 .. 1 : k = 1
      OBVIOUS
    <2>2. \A k \in 1 .. 1 : StepFits(r[k], NamesBefore(r, k))
      BY <2>1, <1>3
    <2> QED BY <1>1, <2>2 DEF RuleFits
  <1> QED BY <1>4 DEF r

LEMMA SumFits ==
    RuleFits(<<Give(1, "bcast", <<"d", "a">>)>>)
  <1> DEFINE r == <<Give(1, "bcast", <<"d", "a">>)>>
  <1>1. Len(r) = 1
    OBVIOUS
  <1>2. r[1].name = "given" /\ r[1].op = "bcast" /\ r[1].ins = <<"d", "a">> /\ r[1].to = 1
    BY DEF Step, StepBy, Give, GiveBy
  <1> HIDE DEF r
  <1>3. StepFits(r[1], NamesBefore(r, 1))
    <2> DEFINE D == NamesBefore(r, 1)
    <2>1. "d" \in D /\ "a" \in D
      <3>1. 1 \in Nat
        OBVIOUS
      <3> QED BY <3>1, NameThere
    <2>2. r[1].op \in RuleOps /\ (r[1].to = 0 \/ r[1].name \in Unkept)
      BY <1>2 DEF RuleOps, Unkept
    <2> HIDE DEF D
    <2>3. StepFits(r[1], D)
      BY <1>2, <2>1, <2>2, StepOfTwo
    <2> QED BY <2>3 DEF D
  <1>4. RuleFits(r)
    <2>1. \A k \in 1 .. 1 : k = 1
      OBVIOUS
    <2>2. \A k \in 1 .. 1 : StepFits(r[k], NamesBefore(r, k))
      BY <2>1, <1>3
    <2> QED BY <1>1, <2>2 DEF RuleFits
  <1> QED BY <1>4 DEF r

LEMMA BcastFits ==
    RuleFits(<<Give(1, "axis_sum", <<"d", "a">>)>>)
  <1> DEFINE r == <<Give(1, "axis_sum", <<"d", "a">>)>>
  <1>1. Len(r) = 1
    OBVIOUS
  <1>2. r[1].name = "given" /\ r[1].op = "axis_sum" /\ r[1].ins = <<"d", "a">> /\ r[1].to = 1
    BY DEF Step, StepBy, Give, GiveBy
  <1> HIDE DEF r
  <1>3. StepFits(r[1], NamesBefore(r, 1))
    <2> DEFINE D == NamesBefore(r, 1)
    <2>1. "d" \in D /\ "a" \in D
      <3>1. 1 \in Nat
        OBVIOUS
      <3> QED BY <3>1, NameThere
    <2>2. r[1].op \in RuleOps /\ (r[1].to = 0 \/ r[1].name \in Unkept)
      BY <1>2 DEF RuleOps, Unkept
    <2> HIDE DEF D
    <2>3. StepFits(r[1], D)
      BY <1>2, <2>1, <2>2, StepOfTwo
    <2> QED BY <2>3 DEF D
  <1>4. RuleFits(r)
    <2>1. \A k \in 1 .. 1 : k = 1
      OBVIOUS
    <2>2. \A k \in 1 .. 1 : StepFits(r[k], NamesBefore(r, k))
      BY <2>1, <1>3
    <2> QED BY <1>1, <2>2 DEF RuleFits
  <1> QED BY <1>4 DEF r

LEMMA MeanFits ==
    ASSUME NEW par
    PROVE  RuleFits(<<Step("lost", "bcast", <<"d", "a">>), GiveBy(1, "scale", <<"lost">>, par)>>)
  <1> DEFINE r == <<Step("lost", "bcast", <<"d", "a">>), GiveBy(1, "scale", <<"lost">>, par)>>
  <1>1. Len(r) = 2
    OBVIOUS
  <1>2. r[1].name = "lost" /\ r[1].op = "bcast" /\ r[1].ins = <<"d", "a">> /\ r[1].to = 0
    BY DEF Step, StepBy, Give, GiveBy
  <1>3. r[2].name = "given" /\ r[2].op = "scale" /\ r[2].ins = <<"lost">> /\ r[2].to = 1
    BY DEF Step, StepBy, Give, GiveBy
  <1> HIDE DEF r
  <1>4. StepFits(r[1], NamesBefore(r, 1))
    <2> DEFINE D == NamesBefore(r, 1)
    <2>1. "d" \in D /\ "a" \in D
      <3>1. 1 \in Nat
        OBVIOUS
      <3> QED BY <3>1, NameThere
    <2>2. r[1].op \in RuleOps /\ (r[1].to = 0 \/ r[1].name \in Unkept)
      BY <1>2 DEF RuleOps, Unkept
    <2> HIDE DEF D
    <2>3. StepFits(r[1], D)
      BY <1>2, <2>1, <2>2, StepOfTwo
    <2> QED BY <2>3 DEF D
  <1>5. StepFits(r[2], NamesBefore(r, 2))
    <2> DEFINE D == NamesBefore(r, 2)
    <2>1. "lost" \in D
      <3>1. 2 \in Nat /\ 1 \in 1 .. 2 - 1
        OBVIOUS
      <3> QED BY <3>1, <1>2, NameThere
    <2>2. r[2].op \in RuleOps /\ (r[2].to = 0 \/ r[2].name \in Unkept)
      BY <1>3 DEF RuleOps, Unkept
    <2> HIDE DEF D
    <2>3. StepFits(r[2], D)
      BY <1>3, <2>1, <2>2, StepOfOne
    <2> QED BY <2>3 DEF D
  <1>6. RuleFits(r)
    <2>1. \A k \in 1 .. 2 : k = 1 \/ k = 2
      OBVIOUS
    <2>2. \A k \in 1 .. 2 : StepFits(r[k], NamesBefore(r, k))
      BY <2>1, <1>4, <1>5
    <2> QED BY <1>1, <2>2 DEF RuleFits
  <1> QED BY <1>6 DEF r

LEMMA TransposeFits ==
    RuleFits(<<Give(1, "transpose", <<"d">>)>>)
  <1> DEFINE r == <<Give(1, "transpose", <<"d">>)>>
  <1>1. Len(r) = 1
    OBVIOUS
  <1>2. r[1].name = "given" /\ r[1].op = "transpose" /\ r[1].ins = <<"d">> /\ r[1].to = 1
    BY DEF Step, StepBy, Give, GiveBy
  <1> HIDE DEF r
  <1>3. StepFits(r[1], NamesBefore(r, 1))
    <2> DEFINE D == NamesBefore(r, 1)
    <2>1. "d" \in D
      <3>1. 1 \in Nat
        OBVIOUS
      <3> QED BY <3>1, NameThere
    <2>2. r[1].op \in RuleOps /\ (r[1].to = 0 \/ r[1].name \in Unkept)
      BY <1>2 DEF RuleOps, Unkept
    <2> HIDE DEF D
    <2>3. StepFits(r[1], D)
      BY <1>2, <2>1, <2>2, StepOfOne
    <2> QED BY <2>3 DEF D
  <1>4. RuleFits(r)
    <2>1. \A k \in 1 .. 1 : k = 1
      OBVIOUS
    <2>2. \A k \in 1 .. 1 : StepFits(r[k], NamesBefore(r, k))
      BY <2>1, <1>3
    <2> QED BY <1>1, <2>2 DEF RuleFits
  <1> QED BY <1>4 DEF r

LEMMA ReshapeFits ==
    ASSUME NEW par
    PROVE  RuleFits(<<GiveBy(1, "reshape", <<"d">>, par)>>)
  <1> DEFINE r == <<GiveBy(1, "reshape", <<"d">>, par)>>
  <1>1. Len(r) = 1
    OBVIOUS
  <1>2. r[1].name = "given" /\ r[1].op = "reshape" /\ r[1].ins = <<"d">> /\ r[1].to = 1
    BY DEF Step, StepBy, Give, GiveBy
  <1> HIDE DEF r
  <1>3. StepFits(r[1], NamesBefore(r, 1))
    <2> DEFINE D == NamesBefore(r, 1)
    <2>1. "d" \in D
      <3>1. 1 \in Nat
        OBVIOUS
      <3> QED BY <3>1, NameThere
    <2>2. r[1].op \in RuleOps /\ (r[1].to = 0 \/ r[1].name \in Unkept)
      BY <1>2 DEF RuleOps, Unkept
    <2> HIDE DEF D
    <2>3. StepFits(r[1], D)
      BY <1>2, <2>1, <2>2, StepOfOne
    <2> QED BY <2>3 DEF D
  <1>4. RuleFits(r)
    <2>1. \A k \in 1 .. 1 : k = 1
      OBVIOUS
    <2>2. \A k \in 1 .. 1 : StepFits(r[k], NamesBefore(r, k))
      BY <2>1, <1>3
    <2> QED BY <1>1, <2>2 DEF RuleFits
  <1> QED BY <1>4 DEF r

LEMMA ReluFits ==
    RuleFits(Slope(<<Step("slope", "mask", <<"a", "a">>)>>))
  <1> DEFINE r == <<Step("slope", "mask", <<"a", "a">>)>>
  <1>1. Len(r) = 1
    OBVIOUS
  <1>2. r[1].name = "slope" /\ r[1].op = "mask" /\ r[1].ins = <<"a", "a">> /\ r[1].to = 0
    BY DEF Step, StepBy, Give, GiveBy
  <1>3. IsSeq(r)
    <2>1. r = [k \in 1 .. 1 |-> r[k]]
      OBVIOUS
    <2> HIDE DEF r
    <2> QED BY <2>1, FunctionSeq
  <1> HIDE DEF r
  <1>4. StepFits(r[1], NamesBefore(r, 1))
    <2> DEFINE D == NamesBefore(r, 1)
    <2>1. "a" \in D
      <3>1. 1 \in Nat
        OBVIOUS
      <3> QED BY <3>1, NameThere
    <2>2. r[1].op \in RuleOps /\ (r[1].to = 0 \/ r[1].name \in Unkept)
      BY <1>2 DEF RuleOps, Unkept
    <2> HIDE DEF D
    <2>3. StepFits(r[1], D)
      BY <1>2, <2>1, <2>2, StepOfTwo
    <2> QED BY <2>3 DEF D
  <1>5. RuleFits(r)
    <2>1. \A k \in 1 .. 1 : k = 1
      OBVIOUS
    <2>2. \A k \in 1 .. 1 : StepFits(r[k], NamesBefore(r, k))
      BY <2>1, <1>4
    <2> QED BY <1>1, <2>2 DEF RuleFits
  <1>6. "slope" \in NamesBefore(r, Len(r) + 1)
    <2>1. 1 \in 1 .. 2 - 1 /\ 2 \in Nat
      OBVIOUS
    <2>2. Len(r) + 1 = 2
      BY <1>1
    <2> QED BY <1>2, <2>1, <2>2, NameThere
  <1>7. RuleFits(Slope(r))
    BY <1>3, <1>5, <1>6, SlopeFits
  <1> QED BY <1>7 DEF r

LEMMA SigmoidFits ==
    RuleFits(Slope(<<Step("one", "ones", <<"y", "y">>), Step("om", "sub", <<"one", "y">>),
                    Step("slope", "mul", <<"y", "om">>)>>))
  <1> DEFINE r == <<Step("one", "ones", <<"y", "y">>), Step("om", "sub", <<"one", "y">>),
                   Step("slope", "mul", <<"y", "om">>)>>
  <1>1. Len(r) = 3
    OBVIOUS
  <1>2. r[1].name = "one" /\ r[1].op = "ones" /\ r[1].ins = <<"y", "y">> /\ r[1].to = 0
    BY DEF Step, StepBy, Give, GiveBy
  <1>3. r[2].name = "om" /\ r[2].op = "sub" /\ r[2].ins = <<"one", "y">> /\ r[2].to = 0
    BY DEF Step, StepBy, Give, GiveBy
  <1>4. r[3].name = "slope" /\ r[3].op = "mul" /\ r[3].ins = <<"y", "om">> /\ r[3].to = 0
    BY DEF Step, StepBy, Give, GiveBy
  <1>5. IsSeq(r)
    <2>1. r = [k \in 1 .. 3 |-> r[k]]
      OBVIOUS
    <2> HIDE DEF r
    <2> QED BY <2>1, FunctionSeq
  <1> HIDE DEF r
  <1>6. StepFits(r[1], NamesBefore(r, 1))
    <2> DEFINE D == NamesBefore(r, 1)
    <2>1. "y" \in D
      <3>1. 1 \in Nat
        OBVIOUS
      <3> QED BY <3>1, NameThere
    <2>2. r[1].op \in RuleOps /\ (r[1].to = 0 \/ r[1].name \in Unkept)
      BY <1>2 DEF RuleOps, Unkept
    <2> HIDE DEF D
    <2>3. StepFits(r[1], D)
      BY <1>2, <2>1, <2>2, StepOfTwo
    <2> QED BY <2>3 DEF D
  <1>7. StepFits(r[2], NamesBefore(r, 2))
    <2> DEFINE D == NamesBefore(r, 2)
    <2>1. "one" \in D /\ "y" \in D
      <3>1. 2 \in Nat /\ 1 \in 1 .. 2 - 1
        OBVIOUS
      <3> QED BY <3>1, <1>2, NameThere
    <2>2. r[2].op \in RuleOps /\ (r[2].to = 0 \/ r[2].name \in Unkept)
      BY <1>3 DEF RuleOps, Unkept
    <2> HIDE DEF D
    <2>3. StepFits(r[2], D)
      BY <1>3, <2>1, <2>2, StepOfTwo
    <2> QED BY <2>3 DEF D
  <1>8. StepFits(r[3], NamesBefore(r, 3))
    <2> DEFINE D == NamesBefore(r, 3)
    <2>1. "y" \in D /\ "om" \in D
      <3>1. 3 \in Nat /\ 2 \in 1 .. 3 - 1
        OBVIOUS
      <3> QED BY <3>1, <1>3, NameThere
    <2>2. r[3].op \in RuleOps /\ (r[3].to = 0 \/ r[3].name \in Unkept)
      BY <1>4 DEF RuleOps, Unkept
    <2> HIDE DEF D
    <2>3. StepFits(r[3], D)
      BY <1>4, <2>1, <2>2, StepOfTwo
    <2> QED BY <2>3 DEF D
  <1>9. RuleFits(r)
    <2>1. \A k \in 1 .. 3 : k = 1 \/ k = 2 \/ k = 3
      OBVIOUS
    <2>2. \A k \in 1 .. 3 : StepFits(r[k], NamesBefore(r, k))
      BY <2>1, <1>6, <1>7, <1>8
    <2> QED BY <1>1, <2>2 DEF RuleFits
  <1>10. "slope" \in NamesBefore(r, Len(r) + 1)
    <2>1. 3 \in 1 .. 4 - 1 /\ 4 \in Nat
      OBVIOUS
    <2>2. Len(r) + 1 = 4
      BY <1>1
    <2> QED BY <1>4, <2>1, <2>2, NameThere
  <1>11. RuleFits(Slope(r))
    BY <1>5, <1>9, <1>10, SlopeFits
  <1> QED BY <1>11 DEF r

LEMMA TanhFits ==
    RuleFits(Slope(<<Step("one", "ones", <<"y", "y">>), Step("sq", "mul", <<"y", "y">>),
                    Step("slope", "sub", <<"one", "sq">>)>>))
  <1> DEFINE r == <<Step("one", "ones", <<"y", "y">>), Step("sq", "mul", <<"y", "y">>),
                   Step("slope", "sub", <<"one", "sq">>)>>
  <1>1. Len(r) = 3
    OBVIOUS
  <1>2. r[1].name = "one" /\ r[1].op = "ones" /\ r[1].ins = <<"y", "y">> /\ r[1].to = 0
    BY DEF Step, StepBy, Give, GiveBy
  <1>3. r[2].name = "sq" /\ r[2].op = "mul" /\ r[2].ins = <<"y", "y">> /\ r[2].to = 0
    BY DEF Step, StepBy, Give, GiveBy
  <1>4. r[3].name = "slope" /\ r[3].op = "sub" /\ r[3].ins = <<"one", "sq">> /\ r[3].to = 0
    BY DEF Step, StepBy, Give, GiveBy
  <1>5. IsSeq(r)
    <2>1. r = [k \in 1 .. 3 |-> r[k]]
      OBVIOUS
    <2> HIDE DEF r
    <2> QED BY <2>1, FunctionSeq
  <1> HIDE DEF r
  <1>6. StepFits(r[1], NamesBefore(r, 1))
    <2> DEFINE D == NamesBefore(r, 1)
    <2>1. "y" \in D
      <3>1. 1 \in Nat
        OBVIOUS
      <3> QED BY <3>1, NameThere
    <2>2. r[1].op \in RuleOps /\ (r[1].to = 0 \/ r[1].name \in Unkept)
      BY <1>2 DEF RuleOps, Unkept
    <2> HIDE DEF D
    <2>3. StepFits(r[1], D)
      BY <1>2, <2>1, <2>2, StepOfTwo
    <2> QED BY <2>3 DEF D
  <1>7. StepFits(r[2], NamesBefore(r, 2))
    <2> DEFINE D == NamesBefore(r, 2)
    <2>1. "y" \in D
      <3>1. 2 \in Nat
        OBVIOUS
      <3> QED BY <3>1, NameThere
    <2>2. r[2].op \in RuleOps /\ (r[2].to = 0 \/ r[2].name \in Unkept)
      BY <1>3 DEF RuleOps, Unkept
    <2> HIDE DEF D
    <2>3. StepFits(r[2], D)
      BY <1>3, <2>1, <2>2, StepOfTwo
    <2> QED BY <2>3 DEF D
  <1>8. StepFits(r[3], NamesBefore(r, 3))
    <2> DEFINE D == NamesBefore(r, 3)
    <2>1. "one" \in D /\ "sq" \in D
      <3>1. 3 \in Nat /\ 1 \in 1 .. 3 - 1 /\ 2 \in 1 .. 3 - 1
        OBVIOUS
      <3> QED BY <3>1, <1>2, <1>3, NameThere
    <2>2. r[3].op \in RuleOps /\ (r[3].to = 0 \/ r[3].name \in Unkept)
      BY <1>4 DEF RuleOps, Unkept
    <2> HIDE DEF D
    <2>3. StepFits(r[3], D)
      BY <1>4, <2>1, <2>2, StepOfTwo
    <2> QED BY <2>3 DEF D
  <1>9. RuleFits(r)
    <2>1. \A k \in 1 .. 3 : k = 1 \/ k = 2 \/ k = 3
      OBVIOUS
    <2>2. \A k \in 1 .. 3 : StepFits(r[k], NamesBefore(r, k))
      BY <2>1, <1>6, <1>7, <1>8
    <2> QED BY <1>1, <2>2 DEF RuleFits
  <1>10. "slope" \in NamesBefore(r, Len(r) + 1)
    <2>1. 3 \in 1 .. 4 - 1 /\ 4 \in Nat
      OBVIOUS
    <2>2. Len(r) + 1 = 4
      BY <1>1
    <2> QED BY <1>4, <2>1, <2>2, NameThere
  <1>11. RuleFits(Slope(r))
    BY <1>5, <1>9, <1>10, SlopeFits
  <1> QED BY <1>11 DEF r

LEMMA SoftmaxFits ==
    ASSUME NEW axis
    PROVE  RuleFits(SoftmaxRule(axis))
  <1> DEFINE r == SoftmaxRule(axis)
  <1>1. Len(r) = 5
    BY DEF SoftmaxRule, Step, StepBy, Give, GiveBy
  <1>2. r[1].name = "od" /\ r[1].op = "mul" /\ r[1].ins = <<"y", "d">> /\ r[1].to = 0
    BY DEF SoftmaxRule, Step, StepBy, Give, GiveBy
  <1>3. r[2].name = "sod" /\ r[2].op = "keep_sum" /\ r[2].ins = <<"od", "y">> /\ r[2].to = 0
    BY DEF SoftmaxRule, Step, StepBy, Give, GiveBy
  <1>4. r[3].name = "bc" /\ r[3].op = "bcast" /\ r[3].ins = <<"sod", "y">> /\ r[3].to = 0
    BY DEF SoftmaxRule, Step, StepBy, Give, GiveBy
  <1>5. r[4].name = "dm" /\ r[4].op = "sub" /\ r[4].ins = <<"d", "bc">> /\ r[4].to = 0
    BY DEF SoftmaxRule, Step, StepBy, Give, GiveBy
  <1>6. r[5].name = "given" /\ r[5].op = "mul" /\ r[5].ins = <<"y", "dm">> /\ r[5].to = 1
    BY DEF SoftmaxRule, Step, StepBy, Give, GiveBy
  <1> HIDE DEF r
  <1>7. StepFits(r[1], NamesBefore(r, 1))
    <2> DEFINE D == NamesBefore(r, 1)
    <2>1. "y" \in D /\ "d" \in D
      <3>1. 1 \in Nat
        OBVIOUS
      <3> QED BY <3>1, NameThere
    <2>2. r[1].op \in RuleOps /\ (r[1].to = 0 \/ r[1].name \in Unkept)
      BY <1>2 DEF RuleOps, Unkept
    <2> HIDE DEF D
    <2>3. StepFits(r[1], D)
      BY <1>2, <2>1, <2>2, StepOfTwo
    <2> QED BY <2>3 DEF D
  <1>8. StepFits(r[2], NamesBefore(r, 2))
    <2> DEFINE D == NamesBefore(r, 2)
    <2>1. "od" \in D /\ "y" \in D
      <3>1. 2 \in Nat /\ 1 \in 1 .. 2 - 1
        OBVIOUS
      <3> QED BY <3>1, <1>2, NameThere
    <2>2. r[2].op \in RuleOps /\ (r[2].to = 0 \/ r[2].name \in Unkept)
      BY <1>3 DEF RuleOps, Unkept
    <2> HIDE DEF D
    <2>3. StepFits(r[2], D)
      BY <1>3, <2>1, <2>2, StepOfTwo
    <2> QED BY <2>3 DEF D
  <1>9. StepFits(r[3], NamesBefore(r, 3))
    <2> DEFINE D == NamesBefore(r, 3)
    <2>1. "sod" \in D /\ "y" \in D
      <3>1. 3 \in Nat /\ 2 \in 1 .. 3 - 1
        OBVIOUS
      <3> QED BY <3>1, <1>3, NameThere
    <2>2. r[3].op \in RuleOps /\ (r[3].to = 0 \/ r[3].name \in Unkept)
      BY <1>4 DEF RuleOps, Unkept
    <2> HIDE DEF D
    <2>3. StepFits(r[3], D)
      BY <1>4, <2>1, <2>2, StepOfTwo
    <2> QED BY <2>3 DEF D
  <1>10. StepFits(r[4], NamesBefore(r, 4))
    <2> DEFINE D == NamesBefore(r, 4)
    <2>1. "d" \in D /\ "bc" \in D
      <3>1. 4 \in Nat /\ 3 \in 1 .. 4 - 1
        OBVIOUS
      <3> QED BY <3>1, <1>4, NameThere
    <2>2. r[4].op \in RuleOps /\ (r[4].to = 0 \/ r[4].name \in Unkept)
      BY <1>5 DEF RuleOps, Unkept
    <2> HIDE DEF D
    <2>3. StepFits(r[4], D)
      BY <1>5, <2>1, <2>2, StepOfTwo
    <2> QED BY <2>3 DEF D
  <1>11. StepFits(r[5], NamesBefore(r, 5))
    <2> DEFINE D == NamesBefore(r, 5)
    <2>1. "y" \in D /\ "dm" \in D
      <3>1. 5 \in Nat /\ 4 \in 1 .. 5 - 1
        OBVIOUS
      <3> QED BY <3>1, <1>5, NameThere
    <2>2. r[5].op \in RuleOps /\ (r[5].to = 0 \/ r[5].name \in Unkept)
      BY <1>6 DEF RuleOps, Unkept
    <2> HIDE DEF D
    <2>3. StepFits(r[5], D)
      BY <1>6, <2>1, <2>2, StepOfTwo
    <2> QED BY <2>3 DEF D
  <1>12. RuleFits(r)
    <2>1. \A k \in 1 .. 5 : k = 1 \/ k = 2 \/ k = 3 \/ k = 4 \/ k = 5
      OBVIOUS
    <2>2. \A k \in 1 .. 5 : StepFits(r[k], NamesBefore(r, k))
      BY <2>1, <1>7, <1>8, <1>9, <1>10, <1>11
    <2> QED BY <1>1, <2>2 DEF RuleFits
  <1> QED BY <1>12 DEF r

LEMMA SwishFits ==
    RuleFits(Slope(<<Step("sg", "sigmoid", <<"a">>), Step("one", "ones", <<"sg", "sg">>),
                    Step("om", "sub", <<"one", "sg">>), Step("inner", "mul", <<"sg", "om">>),
                    Step("term", "mul", <<"a", "inner">>), Step("slope", "add", <<"sg", "term">>)>>))
  <1> DEFINE r == <<Step("sg", "sigmoid", <<"a">>), Step("one", "ones", <<"sg", "sg">>),
                   Step("om", "sub", <<"one", "sg">>), Step("inner", "mul", <<"sg", "om">>),
                   Step("term", "mul", <<"a", "inner">>), Step("slope", "add", <<"sg", "term">>)>>
  <1>1. Len(r) = 6
    OBVIOUS
  <1>2. r[1].name = "sg" /\ r[1].op = "sigmoid" /\ r[1].ins = <<"a">> /\ r[1].to = 0
    BY DEF Step, StepBy, Give, GiveBy
  <1>3. r[2].name = "one" /\ r[2].op = "ones" /\ r[2].ins = <<"sg", "sg">> /\ r[2].to = 0
    BY DEF Step, StepBy, Give, GiveBy
  <1>4. r[3].name = "om" /\ r[3].op = "sub" /\ r[3].ins = <<"one", "sg">> /\ r[3].to = 0
    BY DEF Step, StepBy, Give, GiveBy
  <1>5. r[4].name = "inner" /\ r[4].op = "mul" /\ r[4].ins = <<"sg", "om">> /\ r[4].to = 0
    BY DEF Step, StepBy, Give, GiveBy
  <1>6. r[5].name = "term" /\ r[5].op = "mul" /\ r[5].ins = <<"a", "inner">> /\ r[5].to = 0
    BY DEF Step, StepBy, Give, GiveBy
  <1>7. r[6].name = "slope" /\ r[6].op = "add" /\ r[6].ins = <<"sg", "term">> /\ r[6].to = 0
    BY DEF Step, StepBy, Give, GiveBy
  <1>8. IsSeq(r)
    <2>1. r = [k \in 1 .. 6 |-> r[k]]
      OBVIOUS
    <2> HIDE DEF r
    <2> QED BY <2>1, FunctionSeq
  <1> HIDE DEF r
  <1>9. StepFits(r[1], NamesBefore(r, 1))
    <2> DEFINE D == NamesBefore(r, 1)
    <2>1. "a" \in D
      <3>1. 1 \in Nat
        OBVIOUS
      <3> QED BY <3>1, NameThere
    <2>2. r[1].op \in RuleOps /\ (r[1].to = 0 \/ r[1].name \in Unkept)
      BY <1>2 DEF RuleOps, Unkept
    <2> HIDE DEF D
    <2>3. StepFits(r[1], D)
      BY <1>2, <2>1, <2>2, StepOfOne
    <2> QED BY <2>3 DEF D
  <1>10. StepFits(r[2], NamesBefore(r, 2))
    <2> DEFINE D == NamesBefore(r, 2)
    <2>1. "sg" \in D
      <3>1. 2 \in Nat /\ 1 \in 1 .. 2 - 1
        OBVIOUS
      <3> QED BY <3>1, <1>2, NameThere
    <2>2. r[2].op \in RuleOps /\ (r[2].to = 0 \/ r[2].name \in Unkept)
      BY <1>3 DEF RuleOps, Unkept
    <2> HIDE DEF D
    <2>3. StepFits(r[2], D)
      BY <1>3, <2>1, <2>2, StepOfTwo
    <2> QED BY <2>3 DEF D
  <1>11. StepFits(r[3], NamesBefore(r, 3))
    <2> DEFINE D == NamesBefore(r, 3)
    <2>1. "one" \in D /\ "sg" \in D
      <3>1. 3 \in Nat /\ 1 \in 1 .. 3 - 1 /\ 2 \in 1 .. 3 - 1
        OBVIOUS
      <3> QED BY <3>1, <1>2, <1>3, NameThere
    <2>2. r[3].op \in RuleOps /\ (r[3].to = 0 \/ r[3].name \in Unkept)
      BY <1>4 DEF RuleOps, Unkept
    <2> HIDE DEF D
    <2>3. StepFits(r[3], D)
      BY <1>4, <2>1, <2>2, StepOfTwo
    <2> QED BY <2>3 DEF D
  <1>12. StepFits(r[4], NamesBefore(r, 4))
    <2> DEFINE D == NamesBefore(r, 4)
    <2>1. "sg" \in D /\ "om" \in D
      <3>1. 4 \in Nat /\ 1 \in 1 .. 4 - 1 /\ 3 \in 1 .. 4 - 1
        OBVIOUS
      <3> QED BY <3>1, <1>2, <1>4, NameThere
    <2>2. r[4].op \in RuleOps /\ (r[4].to = 0 \/ r[4].name \in Unkept)
      BY <1>5 DEF RuleOps, Unkept
    <2> HIDE DEF D
    <2>3. StepFits(r[4], D)
      BY <1>5, <2>1, <2>2, StepOfTwo
    <2> QED BY <2>3 DEF D
  <1>13. StepFits(r[5], NamesBefore(r, 5))
    <2> DEFINE D == NamesBefore(r, 5)
    <2>1. "a" \in D /\ "inner" \in D
      <3>1. 5 \in Nat /\ 4 \in 1 .. 5 - 1
        OBVIOUS
      <3> QED BY <3>1, <1>5, NameThere
    <2>2. r[5].op \in RuleOps /\ (r[5].to = 0 \/ r[5].name \in Unkept)
      BY <1>6 DEF RuleOps, Unkept
    <2> HIDE DEF D
    <2>3. StepFits(r[5], D)
      BY <1>6, <2>1, <2>2, StepOfTwo
    <2> QED BY <2>3 DEF D
  <1>14. StepFits(r[6], NamesBefore(r, 6))
    <2> DEFINE D == NamesBefore(r, 6)
    <2>1. "sg" \in D /\ "term" \in D
      <3>1. 6 \in Nat /\ 1 \in 1 .. 6 - 1 /\ 5 \in 1 .. 6 - 1
        OBVIOUS
      <3> QED BY <3>1, <1>2, <1>6, NameThere
    <2>2. r[6].op \in RuleOps /\ (r[6].to = 0 \/ r[6].name \in Unkept)
      BY <1>7 DEF RuleOps, Unkept
    <2> HIDE DEF D
    <2>3. StepFits(r[6], D)
      BY <1>7, <2>1, <2>2, StepOfTwo
    <2> QED BY <2>3 DEF D
  <1>15. RuleFits(r)
    <2>1. \A k \in 1 .. 6 : k = 1 \/ k = 2 \/ k = 3 \/ k = 4 \/ k = 5 \/ k = 6
      OBVIOUS
    <2>2. \A k \in 1 .. 6 : StepFits(r[k], NamesBefore(r, k))
      BY <2>1, <1>9, <1>10, <1>11, <1>12, <1>13, <1>14
    <2> QED BY <1>1, <2>2 DEF RuleFits
  <1>16. "slope" \in NamesBefore(r, Len(r) + 1)
    <2>1. 6 \in 1 .. 7 - 1 /\ 7 \in Nat
      OBVIOUS
    <2>2. Len(r) + 1 = 7
      BY <1>1
    <2> QED BY <1>7, <2>1, <2>2, NameThere
  <1>17. RuleFits(Slope(r))
    BY <1>8, <1>15, <1>16, SlopeFits
  <1> QED BY <1>17 DEF r

LEMMA GeluFits ==
    RuleFits(Slope(GeluRule))
  <1> DEFINE r == GeluRule
  <1>1. Len(r) = 18
    BY DEF GeluRule, Step, StepBy, Give, GiveBy
  <1>2. r[1].name = "sq" /\ r[1].op = "mul" /\ r[1].ins = <<"a", "a">> /\ r[1].to = 0
    BY DEF GeluRule, Step, StepBy, Give, GiveBy
  <1>3. r[2].name = "cu" /\ r[2].op = "mul" /\ r[2].ins = <<"sq", "a">> /\ r[2].to = 0
    BY DEF GeluRule, Step, StepBy, Give, GiveBy
  <1>4. r[3].name = "sc" /\ r[3].op = "scale" /\ r[3].ins = <<"cu">> /\ r[3].to = 0
    BY DEF GeluRule, Step, StepBy, Give, GiveBy
  <1>5. r[4].name = "ad" /\ r[4].op = "add" /\ r[4].ins = <<"a", "sc">> /\ r[4].to = 0
    BY DEF GeluRule, Step, StepBy, Give, GiveBy
  <1>6. r[5].name = "u" /\ r[5].op = "scale" /\ r[5].ins = <<"ad">> /\ r[5].to = 0
    BY DEF GeluRule, Step, StepBy, Give, GiveBy
  <1>7. r[6].name = "th" /\ r[6].op = "tanh" /\ r[6].ins = <<"u">> /\ r[6].to = 0
    BY DEF GeluRule, Step, StepBy, Give, GiveBy
  <1>8. r[7].name = "one" /\ r[7].op = "ones" /\ r[7].ins = <<"th", "th">> /\ r[7].to = 0
    BY DEF GeluRule, Step, StepBy, Give, GiveBy
  <1>9. r[8].name = "s3" /\ r[8].op = "scale" /\ r[8].ins = <<"sq">> /\ r[8].to = 0
    BY DEF GeluRule, Step, StepBy, Give, GiveBy
  <1>10. r[9].name = "a1" /\ r[9].op = "add" /\ r[9].ins = <<"one", "s3">> /\ r[9].to = 0
    BY DEF GeluRule, Step, StepBy, Give, GiveBy
  <1>11. r[10].name = "du" /\ r[10].op = "scale" /\ r[10].ins = <<"a1">> /\ r[10].to = 0
    BY DEF GeluRule, Step, StepBy, Give, GiveBy
  <1>12. r[11].name = "t1" /\ r[11].op = "add" /\ r[11].ins = <<"one", "th">> /\ r[11].to = 0
    BY DEF GeluRule, Step, StepBy, Give, GiveBy
  <1>13. r[12].name = "h1" /\ r[12].op = "scale" /\ r[12].ins = <<"t1">> /\ r[12].to = 0
    BY DEF GeluRule, Step, StepBy, Give, GiveBy
  <1>14. r[13].name = "th2" /\ r[13].op = "mul" /\ r[13].ins = <<"th", "th">> /\ r[13].to = 0
    BY DEF GeluRule, Step, StepBy, Give, GiveBy
  <1>15. r[14].name = "om" /\ r[14].op = "sub" /\ r[14].ins = <<"one", "th2">> /\ r[14].to = 0
    BY DEF GeluRule, Step, StepBy, Give, GiveBy
  <1>16. r[15].name = "od" /\ r[15].op = "mul" /\ r[15].ins = <<"om", "du">> /\ r[15].to = 0
    BY DEF GeluRule, Step, StepBy, Give, GiveBy
  <1>17. r[16].name = "ha" /\ r[16].op = "scale" /\ r[16].ins = <<"a">> /\ r[16].to = 0
    BY DEF GeluRule, Step, StepBy, Give, GiveBy
  <1>18. r[17].name = "t2" /\ r[17].op = "mul" /\ r[17].ins = <<"ha", "od">> /\ r[17].to = 0
    BY DEF GeluRule, Step, StepBy, Give, GiveBy
  <1>19. r[18].name = "slope" /\ r[18].op = "add" /\ r[18].ins = <<"h1", "t2">> /\ r[18].to = 0
    BY DEF GeluRule, Step, StepBy, Give, GiveBy
  <1>20. IsSeq(r)
    <2>1. r = [k \in 1 .. 18 |-> r[k]]
      BY DEF GeluRule
    <2> HIDE DEF r
    <2> QED BY <2>1, FunctionSeq
  <1> HIDE DEF r
  <1>21. StepFits(r[1], NamesBefore(r, 1))
    <2> DEFINE D == NamesBefore(r, 1)
    <2>1. "a" \in D
      <3>1. 1 \in Nat
        OBVIOUS
      <3> QED BY <3>1, NameThere
    <2>2. r[1].op \in RuleOps /\ (r[1].to = 0 \/ r[1].name \in Unkept)
      BY <1>2 DEF RuleOps, Unkept
    <2> HIDE DEF D
    <2>3. StepFits(r[1], D)
      BY <1>2, <2>1, <2>2, StepOfTwo
    <2> QED BY <2>3 DEF D
  <1>22. StepFits(r[2], NamesBefore(r, 2))
    <2> DEFINE D == NamesBefore(r, 2)
    <2>1. "sq" \in D /\ "a" \in D
      <3>1. 2 \in Nat /\ 1 \in 1 .. 2 - 1
        OBVIOUS
      <3> QED BY <3>1, <1>2, NameThere
    <2>2. r[2].op \in RuleOps /\ (r[2].to = 0 \/ r[2].name \in Unkept)
      BY <1>3 DEF RuleOps, Unkept
    <2> HIDE DEF D
    <2>3. StepFits(r[2], D)
      BY <1>3, <2>1, <2>2, StepOfTwo
    <2> QED BY <2>3 DEF D
  <1>23. StepFits(r[3], NamesBefore(r, 3))
    <2> DEFINE D == NamesBefore(r, 3)
    <2>1. "cu" \in D
      <3>1. 3 \in Nat /\ 2 \in 1 .. 3 - 1
        OBVIOUS
      <3> QED BY <3>1, <1>3, NameThere
    <2>2. r[3].op \in RuleOps /\ (r[3].to = 0 \/ r[3].name \in Unkept)
      BY <1>4 DEF RuleOps, Unkept
    <2> HIDE DEF D
    <2>3. StepFits(r[3], D)
      BY <1>4, <2>1, <2>2, StepOfOne
    <2> QED BY <2>3 DEF D
  <1>24. StepFits(r[4], NamesBefore(r, 4))
    <2> DEFINE D == NamesBefore(r, 4)
    <2>1. "a" \in D /\ "sc" \in D
      <3>1. 4 \in Nat /\ 3 \in 1 .. 4 - 1
        OBVIOUS
      <3> QED BY <3>1, <1>4, NameThere
    <2>2. r[4].op \in RuleOps /\ (r[4].to = 0 \/ r[4].name \in Unkept)
      BY <1>5 DEF RuleOps, Unkept
    <2> HIDE DEF D
    <2>3. StepFits(r[4], D)
      BY <1>5, <2>1, <2>2, StepOfTwo
    <2> QED BY <2>3 DEF D
  <1>25. StepFits(r[5], NamesBefore(r, 5))
    <2> DEFINE D == NamesBefore(r, 5)
    <2>1. "ad" \in D
      <3>1. 5 \in Nat /\ 4 \in 1 .. 5 - 1
        OBVIOUS
      <3> QED BY <3>1, <1>5, NameThere
    <2>2. r[5].op \in RuleOps /\ (r[5].to = 0 \/ r[5].name \in Unkept)
      BY <1>6 DEF RuleOps, Unkept
    <2> HIDE DEF D
    <2>3. StepFits(r[5], D)
      BY <1>6, <2>1, <2>2, StepOfOne
    <2> QED BY <2>3 DEF D
  <1>26. StepFits(r[6], NamesBefore(r, 6))
    <2> DEFINE D == NamesBefore(r, 6)
    <2>1. "u" \in D
      <3>1. 6 \in Nat /\ 5 \in 1 .. 6 - 1
        OBVIOUS
      <3> QED BY <3>1, <1>6, NameThere
    <2>2. r[6].op \in RuleOps /\ (r[6].to = 0 \/ r[6].name \in Unkept)
      BY <1>7 DEF RuleOps, Unkept
    <2> HIDE DEF D
    <2>3. StepFits(r[6], D)
      BY <1>7, <2>1, <2>2, StepOfOne
    <2> QED BY <2>3 DEF D
  <1>27. StepFits(r[7], NamesBefore(r, 7))
    <2> DEFINE D == NamesBefore(r, 7)
    <2>1. "th" \in D
      <3>1. 7 \in Nat /\ 6 \in 1 .. 7 - 1
        OBVIOUS
      <3> QED BY <3>1, <1>7, NameThere
    <2>2. r[7].op \in RuleOps /\ (r[7].to = 0 \/ r[7].name \in Unkept)
      BY <1>8 DEF RuleOps, Unkept
    <2> HIDE DEF D
    <2>3. StepFits(r[7], D)
      BY <1>8, <2>1, <2>2, StepOfTwo
    <2> QED BY <2>3 DEF D
  <1>28. StepFits(r[8], NamesBefore(r, 8))
    <2> DEFINE D == NamesBefore(r, 8)
    <2>1. "sq" \in D
      <3>1. 8 \in Nat /\ 1 \in 1 .. 8 - 1
        OBVIOUS
      <3> QED BY <3>1, <1>2, NameThere
    <2>2. r[8].op \in RuleOps /\ (r[8].to = 0 \/ r[8].name \in Unkept)
      BY <1>9 DEF RuleOps, Unkept
    <2> HIDE DEF D
    <2>3. StepFits(r[8], D)
      BY <1>9, <2>1, <2>2, StepOfOne
    <2> QED BY <2>3 DEF D
  <1>29. StepFits(r[9], NamesBefore(r, 9))
    <2> DEFINE D == NamesBefore(r, 9)
    <2>1. "one" \in D /\ "s3" \in D
      <3>1. 9 \in Nat /\ 7 \in 1 .. 9 - 1 /\ 8 \in 1 .. 9 - 1
        OBVIOUS
      <3> QED BY <3>1, <1>8, <1>9, NameThere
    <2>2. r[9].op \in RuleOps /\ (r[9].to = 0 \/ r[9].name \in Unkept)
      BY <1>10 DEF RuleOps, Unkept
    <2> HIDE DEF D
    <2>3. StepFits(r[9], D)
      BY <1>10, <2>1, <2>2, StepOfTwo
    <2> QED BY <2>3 DEF D
  <1>30. StepFits(r[10], NamesBefore(r, 10))
    <2> DEFINE D == NamesBefore(r, 10)
    <2>1. "a1" \in D
      <3>1. 10 \in Nat /\ 9 \in 1 .. 10 - 1
        OBVIOUS
      <3> QED BY <3>1, <1>10, NameThere
    <2>2. r[10].op \in RuleOps /\ (r[10].to = 0 \/ r[10].name \in Unkept)
      BY <1>11 DEF RuleOps, Unkept
    <2> HIDE DEF D
    <2>3. StepFits(r[10], D)
      BY <1>11, <2>1, <2>2, StepOfOne
    <2> QED BY <2>3 DEF D
  <1>31. StepFits(r[11], NamesBefore(r, 11))
    <2> DEFINE D == NamesBefore(r, 11)
    <2>1. "one" \in D /\ "th" \in D
      <3>1. 11 \in Nat /\ 6 \in 1 .. 11 - 1 /\ 7 \in 1 .. 11 - 1
        OBVIOUS
      <3> QED BY <3>1, <1>7, <1>8, NameThere
    <2>2. r[11].op \in RuleOps /\ (r[11].to = 0 \/ r[11].name \in Unkept)
      BY <1>12 DEF RuleOps, Unkept
    <2> HIDE DEF D
    <2>3. StepFits(r[11], D)
      BY <1>12, <2>1, <2>2, StepOfTwo
    <2> QED BY <2>3 DEF D
  <1>32. StepFits(r[12], NamesBefore(r, 12))
    <2> DEFINE D == NamesBefore(r, 12)
    <2>1. "t1" \in D
      <3>1. 12 \in Nat /\ 11 \in 1 .. 12 - 1
        OBVIOUS
      <3> QED BY <3>1, <1>12, NameThere
    <2>2. r[12].op \in RuleOps /\ (r[12].to = 0 \/ r[12].name \in Unkept)
      BY <1>13 DEF RuleOps, Unkept
    <2> HIDE DEF D
    <2>3. StepFits(r[12], D)
      BY <1>13, <2>1, <2>2, StepOfOne
    <2> QED BY <2>3 DEF D
  <1>33. StepFits(r[13], NamesBefore(r, 13))
    <2> DEFINE D == NamesBefore(r, 13)
    <2>1. "th" \in D
      <3>1. 13 \in Nat /\ 6 \in 1 .. 13 - 1
        OBVIOUS
      <3> QED BY <3>1, <1>7, NameThere
    <2>2. r[13].op \in RuleOps /\ (r[13].to = 0 \/ r[13].name \in Unkept)
      BY <1>14 DEF RuleOps, Unkept
    <2> HIDE DEF D
    <2>3. StepFits(r[13], D)
      BY <1>14, <2>1, <2>2, StepOfTwo
    <2> QED BY <2>3 DEF D
  <1>34. StepFits(r[14], NamesBefore(r, 14))
    <2> DEFINE D == NamesBefore(r, 14)
    <2>1. "one" \in D /\ "th2" \in D
      <3>1. 14 \in Nat /\ 7 \in 1 .. 14 - 1 /\ 13 \in 1 .. 14 - 1
        OBVIOUS
      <3> QED BY <3>1, <1>8, <1>14, NameThere
    <2>2. r[14].op \in RuleOps /\ (r[14].to = 0 \/ r[14].name \in Unkept)
      BY <1>15 DEF RuleOps, Unkept
    <2> HIDE DEF D
    <2>3. StepFits(r[14], D)
      BY <1>15, <2>1, <2>2, StepOfTwo
    <2> QED BY <2>3 DEF D
  <1>35. StepFits(r[15], NamesBefore(r, 15))
    <2> DEFINE D == NamesBefore(r, 15)
    <2>1. "om" \in D /\ "du" \in D
      <3>1. 15 \in Nat /\ 10 \in 1 .. 15 - 1 /\ 14 \in 1 .. 15 - 1
        OBVIOUS
      <3> QED BY <3>1, <1>11, <1>15, NameThere
    <2>2. r[15].op \in RuleOps /\ (r[15].to = 0 \/ r[15].name \in Unkept)
      BY <1>16 DEF RuleOps, Unkept
    <2> HIDE DEF D
    <2>3. StepFits(r[15], D)
      BY <1>16, <2>1, <2>2, StepOfTwo
    <2> QED BY <2>3 DEF D
  <1>36. StepFits(r[16], NamesBefore(r, 16))
    <2> DEFINE D == NamesBefore(r, 16)
    <2>1. "a" \in D
      <3>1. 16 \in Nat
        OBVIOUS
      <3> QED BY <3>1, NameThere
    <2>2. r[16].op \in RuleOps /\ (r[16].to = 0 \/ r[16].name \in Unkept)
      BY <1>17 DEF RuleOps, Unkept
    <2> HIDE DEF D
    <2>3. StepFits(r[16], D)
      BY <1>17, <2>1, <2>2, StepOfOne
    <2> QED BY <2>3 DEF D
  <1>37. StepFits(r[17], NamesBefore(r, 17))
    <2> DEFINE D == NamesBefore(r, 17)
    <2>1. "ha" \in D /\ "od" \in D
      <3>1. 17 \in Nat /\ 15 \in 1 .. 17 - 1 /\ 16 \in 1 .. 17 - 1
        OBVIOUS
      <3> QED BY <3>1, <1>16, <1>17, NameThere
    <2>2. r[17].op \in RuleOps /\ (r[17].to = 0 \/ r[17].name \in Unkept)
      BY <1>18 DEF RuleOps, Unkept
    <2> HIDE DEF D
    <2>3. StepFits(r[17], D)
      BY <1>18, <2>1, <2>2, StepOfTwo
    <2> QED BY <2>3 DEF D
  <1>38. StepFits(r[18], NamesBefore(r, 18))
    <2> DEFINE D == NamesBefore(r, 18)
    <2>1. "h1" \in D /\ "t2" \in D
      <3>1. 18 \in Nat /\ 12 \in 1 .. 18 - 1 /\ 17 \in 1 .. 18 - 1
        OBVIOUS
      <3> QED BY <3>1, <1>13, <1>18, NameThere
    <2>2. r[18].op \in RuleOps /\ (r[18].to = 0 \/ r[18].name \in Unkept)
      BY <1>19 DEF RuleOps, Unkept
    <2> HIDE DEF D
    <2>3. StepFits(r[18], D)
      BY <1>19, <2>1, <2>2, StepOfTwo
    <2> QED BY <2>3 DEF D
  <1>39. RuleFits(r)
    <2>1. \A k \in 1 .. 18 : k = 1 \/ k = 2 \/ k = 3 \/ k = 4 \/ k = 5 \/ k = 6 \/ k = 7 \/ k = 8 \/ k = 9 
              \/ k = 10 \/ k = 11 \/ k = 12 \/ k = 13 \/ k = 14 \/ k = 15 \/ k = 16 \/ k = 17 \/ k = 18
      OBVIOUS
    <2>2. \A k \in 1 .. 18 : StepFits(r[k], NamesBefore(r, k))
      BY <2>1, <1>21, <1>22, <1>23, <1>24, <1>25, <1>26, <1>27, <1>28, <1>29, <1>30, <1>31, <1>32, <1>33, <1>34,
         <1>35, <1>36, <1>37, <1>38
    <2> QED BY <1>1, <2>2 DEF RuleFits
  <1>40. "slope" \in NamesBefore(r, Len(r) + 1)
    <2>1. 18 \in 1 .. 19 - 1 /\ 19 \in Nat
      OBVIOUS
    <2>2. Len(r) + 1 = 19
      BY <1>1
    <2> QED BY <1>19, <2>1, <2>2, NameThere
  <1>41. RuleFits(Slope(r))
    BY <1>20, <1>39, <1>40, SlopeFits
  <1> QED BY <1>41 DEF r

LEMMA MishFits ==
    RuleFits(Slope(MishRule))
  <1> DEFINE r == MishRule
  <1>1. Len(r) = 8
    BY DEF MishRule, Step, StepBy, Give, GiveBy
  <1>2. r[1].name = "t" /\ r[1].op = "div" /\ r[1].ins = <<"y", "a">> /\ r[1].to = 0
    BY DEF MishRule, Step, StepBy, Give, GiveBy
  <1>3. r[2].name = "sg" /\ r[2].op = "sigmoid" /\ r[2].ins = <<"a">> /\ r[2].to = 0
    BY DEF MishRule, Step, StepBy, Give, GiveBy
  <1>4. r[3].name = "t2" /\ r[3].op = "mul" /\ r[3].ins = <<"t", "t">> /\ r[3].to = 0
    BY DEF MishRule, Step, StepBy, Give, GiveBy
  <1>5. r[4].name = "one" /\ r[4].op = "ones" /\ r[4].ins = <<"t", "t">> /\ r[4].to = 0
    BY DEF MishRule, Step, StepBy, Give, GiveBy
  <1>6. r[5].name = "om" /\ r[5].op = "sub" /\ r[5].ins = <<"one", "t2">> /\ r[5].to = 0
    BY DEF MishRule, Step, StepBy, Give, GiveBy
  <1>7. r[6].name = "os" /\ r[6].op = "mul" /\ r[6].ins = <<"om", "sg">> /\ r[6].to = 0
    BY DEF MishRule, Step, StepBy, Give, GiveBy
  <1>8. r[7].name = "term" /\ r[7].op = "mul" /\ r[7].ins = <<"a", "os">> /\ r[7].to = 0
    BY DEF MishRule, Step, StepBy, Give, GiveBy
  <1>9. r[8].name = "slope" /\ r[8].op = "add" /\ r[8].ins = <<"t", "term">> /\ r[8].to = 0
    BY DEF MishRule, Step, StepBy, Give, GiveBy
  <1>10. IsSeq(r)
    <2>1. r = [k \in 1 .. 8 |-> r[k]]
      BY DEF MishRule
    <2> HIDE DEF r
    <2> QED BY <2>1, FunctionSeq
  <1> HIDE DEF r
  <1>11. StepFits(r[1], NamesBefore(r, 1))
    <2> DEFINE D == NamesBefore(r, 1)
    <2>1. "y" \in D /\ "a" \in D
      <3>1. 1 \in Nat
        OBVIOUS
      <3> QED BY <3>1, NameThere
    <2>2. r[1].op \in RuleOps /\ (r[1].to = 0 \/ r[1].name \in Unkept)
      BY <1>2 DEF RuleOps, Unkept
    <2> HIDE DEF D
    <2>3. StepFits(r[1], D)
      BY <1>2, <2>1, <2>2, StepOfTwo
    <2> QED BY <2>3 DEF D
  <1>12. StepFits(r[2], NamesBefore(r, 2))
    <2> DEFINE D == NamesBefore(r, 2)
    <2>1. "a" \in D
      <3>1. 2 \in Nat
        OBVIOUS
      <3> QED BY <3>1, NameThere
    <2>2. r[2].op \in RuleOps /\ (r[2].to = 0 \/ r[2].name \in Unkept)
      BY <1>3 DEF RuleOps, Unkept
    <2> HIDE DEF D
    <2>3. StepFits(r[2], D)
      BY <1>3, <2>1, <2>2, StepOfOne
    <2> QED BY <2>3 DEF D
  <1>13. StepFits(r[3], NamesBefore(r, 3))
    <2> DEFINE D == NamesBefore(r, 3)
    <2>1. "t" \in D
      <3>1. 3 \in Nat /\ 1 \in 1 .. 3 - 1
        OBVIOUS
      <3> QED BY <3>1, <1>2, NameThere
    <2>2. r[3].op \in RuleOps /\ (r[3].to = 0 \/ r[3].name \in Unkept)
      BY <1>4 DEF RuleOps, Unkept
    <2> HIDE DEF D
    <2>3. StepFits(r[3], D)
      BY <1>4, <2>1, <2>2, StepOfTwo
    <2> QED BY <2>3 DEF D
  <1>14. StepFits(r[4], NamesBefore(r, 4))
    <2> DEFINE D == NamesBefore(r, 4)
    <2>1. "t" \in D
      <3>1. 4 \in Nat /\ 1 \in 1 .. 4 - 1
        OBVIOUS
      <3> QED BY <3>1, <1>2, NameThere
    <2>2. r[4].op \in RuleOps /\ (r[4].to = 0 \/ r[4].name \in Unkept)
      BY <1>5 DEF RuleOps, Unkept
    <2> HIDE DEF D
    <2>3. StepFits(r[4], D)
      BY <1>5, <2>1, <2>2, StepOfTwo
    <2> QED BY <2>3 DEF D
  <1>15. StepFits(r[5], NamesBefore(r, 5))
    <2> DEFINE D == NamesBefore(r, 5)
    <2>1. "one" \in D /\ "t2" \in D
      <3>1. 5 \in Nat /\ 3 \in 1 .. 5 - 1 /\ 4 \in 1 .. 5 - 1
        OBVIOUS
      <3> QED BY <3>1, <1>4, <1>5, NameThere
    <2>2. r[5].op \in RuleOps /\ (r[5].to = 0 \/ r[5].name \in Unkept)
      BY <1>6 DEF RuleOps, Unkept
    <2> HIDE DEF D
    <2>3. StepFits(r[5], D)
      BY <1>6, <2>1, <2>2, StepOfTwo
    <2> QED BY <2>3 DEF D
  <1>16. StepFits(r[6], NamesBefore(r, 6))
    <2> DEFINE D == NamesBefore(r, 6)
    <2>1. "om" \in D /\ "sg" \in D
      <3>1. 6 \in Nat /\ 2 \in 1 .. 6 - 1 /\ 5 \in 1 .. 6 - 1
        OBVIOUS
      <3> QED BY <3>1, <1>3, <1>6, NameThere
    <2>2. r[6].op \in RuleOps /\ (r[6].to = 0 \/ r[6].name \in Unkept)
      BY <1>7 DEF RuleOps, Unkept
    <2> HIDE DEF D
    <2>3. StepFits(r[6], D)
      BY <1>7, <2>1, <2>2, StepOfTwo
    <2> QED BY <2>3 DEF D
  <1>17. StepFits(r[7], NamesBefore(r, 7))
    <2> DEFINE D == NamesBefore(r, 7)
    <2>1. "a" \in D /\ "os" \in D
      <3>1. 7 \in Nat /\ 6 \in 1 .. 7 - 1
        OBVIOUS
      <3> QED BY <3>1, <1>7, NameThere
    <2>2. r[7].op \in RuleOps /\ (r[7].to = 0 \/ r[7].name \in Unkept)
      BY <1>8 DEF RuleOps, Unkept
    <2> HIDE DEF D
    <2>3. StepFits(r[7], D)
      BY <1>8, <2>1, <2>2, StepOfTwo
    <2> QED BY <2>3 DEF D
  <1>18. StepFits(r[8], NamesBefore(r, 8))
    <2> DEFINE D == NamesBefore(r, 8)
    <2>1. "t" \in D /\ "term" \in D
      <3>1. 8 \in Nat /\ 1 \in 1 .. 8 - 1 /\ 7 \in 1 .. 8 - 1
        OBVIOUS
      <3> QED BY <3>1, <1>2, <1>8, NameThere
    <2>2. r[8].op \in RuleOps /\ (r[8].to = 0 \/ r[8].name \in Unkept)
      BY <1>9 DEF RuleOps, Unkept
    <2> HIDE DEF D
    <2>3. StepFits(r[8], D)
      BY <1>9, <2>1, <2>2, StepOfTwo
    <2> QED BY <2>3 DEF D
  <1>19. RuleFits(r)
    <2>1. \A k \in 1 .. 8 : k = 1 \/ k = 2 \/ k = 3 \/ k = 4 \/ k = 5 \/ k = 6 \/ k = 7 \/ k = 8
      OBVIOUS
    <2>2. \A k \in 1 .. 8 : StepFits(r[k], NamesBefore(r, k))
      BY <2>1, <1>11, <1>12, <1>13, <1>14, <1>15, <1>16, <1>17, <1>18
    <2> QED BY <1>1, <2>2 DEF RuleFits
  <1>20. "slope" \in NamesBefore(r, Len(r) + 1)
    <2>1. 8 \in 1 .. 9 - 1 /\ 9 \in Nat
      OBVIOUS
    <2>2. Len(r) + 1 = 9
      BY <1>1
    <2> QED BY <1>9, <2>1, <2>2, NameThere
  <1>21. RuleFits(Slope(r))
    BY <1>10, <1>19, <1>20, SlopeFits
  <1> QED BY <1>21 DEF r

\* Every rule but that of a matrix product fits, whatever the node.
LEMMA RuleIs ==
    ASSUME NEW e, NEW node, node.op \in NodeOps, ~Refused(e, node), node.op # "matmul"
    PROVE  RuleFits(Rule(e, node))
  <1> DEFINE same == Len(Val(e, node.ins[1]).data) = Len(Val(e, node.ins[2]).data)
  <1>1. CASE node.op = "add"
    BY <1>1, AddFits DEF Rule
  <1>2. CASE node.op = "sub"
    BY <1>2, SubFits DEF Rule
  <1>3. CASE node.op = "scale"
    BY <1>3, ScaleFits DEF Rule
  <1>4. CASE node.op = "sum"
    BY <1>4, SumFits DEF Rule
  <1>5. CASE node.op = "axis_sum"
    BY <1>5, SumFits DEF Rule
  <1>6. CASE node.op = "keep_sum"
    BY <1>6, SumFits DEF Rule
  <1>7. CASE node.op = "bcast"
    BY <1>7, BcastFits DEF Rule
  <1>8. CASE node.op = "mean"
    BY <1>8, MeanFits DEF Rule
  <1>9. CASE node.op = "transpose"
    BY <1>9, TransposeFits DEF Rule
  <1>10. CASE node.op = "reshape"
    BY <1>10, ReshapeFits DEF Rule
  <1>11. CASE node.op = "relu"
    BY <1>11, ReluFits DEF Rule
  <1>12. CASE node.op = "sigmoid"
    BY <1>12, SigmoidFits DEF Rule
  <1>13. CASE node.op = "tanh"
    BY <1>13, TanhFits DEF Rule
  <1>14. CASE node.op = "softmax"
    BY <1>14, SoftmaxFits DEF Rule
  <1>15. CASE node.op = "swish"
    BY <1>15, SwishFits DEF Rule
  <1>16. CASE node.op = "gelu"
    BY <1>16, GeluFits DEF Rule
  <1>17. CASE node.op = "mish"
    BY <1>17, MishFits DEF Rule
  <1>18. CASE node.op = "mul"
    <2>1. Rule(e, node) = MulRule(same)
      BY <1>18 DEF Rule
    <2>2. MulRule(same) = MulRule(TRUE) \/ MulRule(same) = MulRule(FALSE)
      BY DEF MulRule
    <2> QED BY <2>1, <2>2, MulSameFits, MulOtherFits
  <1>19. CASE node.op = "div"
    <2>1. Rule(e, node) = DivRule(same)
      BY <1>19 DEF Rule
    <2>2. DivRule(same) = DivRule(TRUE) \/ DivRule(same) = DivRule(FALSE)
      BY DEF DivRule
    <2> QED BY <2>1, <2>2, DivSameFits, DivOtherFits
  <1>20. node.op \notin Unsupported
    BY DEF Refused
  <1> QED BY <1>1, <1>2, <1>3, <1>4, <1>5, <1>6, <1>7, <1>8, <1>9, <1>10, <1>11, <1>12, <1>13, <1>14, <1>15, <1>16, <1>17, <1>18, <1>19, <1>20
          DEF NodeOps, Operations, LocalOps, Reductions, BinaryOps, Activations, Unsupported

MatmulRule ==
    <<Step("tb", "transpose", <<"b">>), Step("ta", "transpose", <<"a">>),
      Step("da_c", "matmul", <<"d", "tb">>), Step("db_c", "matmul", <<"ta", "d">>),
      Give(1, "pass", <<"da_c">>), Give(2, "pass", <<"db_c">>)>>

\* The shares of a matrix product are handed on after both are made.
LEMMA MatmulFollowed ==
    ASSUME NEW b \in [Nat -> Int], NEW n, NEW m \in Nat, NEW p, Pass(b, n, m, p), DOMAIN p.names = Base,
           NEW node
    PROVE  Pass(b, n, m, Followed(p, node, MatmulRule))
  <1> DEFINE r == MatmulRule
  <1>1. Len(r) = 6
    BY DEF MatmulRule
  <1>2. /\ r[1].name = "tb" /\ r[1].op = "transpose" /\ r[1].ins = <<"b">> /\ r[1].to = 0
        /\ r[2].name = "ta" /\ r[2].op = "transpose" /\ r[2].ins = <<"a">> /\ r[2].to = 0
    BY DEF MatmulRule, Step
  <1>3. /\ r[3].name = "da_c" /\ r[3].op = "matmul" /\ r[3].ins = <<"d", "tb">> /\ r[3].to = 0
        /\ r[4].name = "db_c" /\ r[4].op = "matmul" /\ r[4].ins = <<"ta", "d">> /\ r[4].to = 0
    BY DEF MatmulRule, Step
  <1>4. /\ r[5].op = "pass" /\ r[5].ins[1] = "da_c" /\ r[5].to = 1
        /\ r[6].op = "pass" /\ r[6].ins[1] = "db_c" /\ r[6].to = 2
    BY DEF MatmulRule, Give
  <1>5. PICK f : FollowedLoop(p, node, r, 6, f) /\ Followed(p, node, r) = f[6]
    <2>1. Len(r) \in Nat
      BY <1>1
    <2> HIDE DEF r
    <2> QED BY <1>1, <2>1, FollowedTurns
  <1> HIDE DEF r
  <1>6. /\ f[1] = Performed(p, node, r[1]) /\ f[2] = Performed(f[1], node, r[2])
        /\ f[3] = Performed(f[2], node, r[3]) /\ f[4] = Performed(f[3], node, r[4])
        /\ f[5] = Performed(f[4], node, r[5]) /\ f[6] = Performed(f[5], node, r[6])
    <2>1. \A k \in 0 .. 6 : f[k] = IF k = 0 THEN p ELSE Performed(f[k - 1], node, r[k])
      BY <1>5 DEF FollowedLoop
    <2>2. \A k \in 1 .. 6 : f[k] = Performed(f[k - 1], node, r[k])
      BY <2>1
    <2>3. f[0] = p
      BY <2>1
    <2> QED BY <2>2, <2>3
  <1>7. Pass(b, n, m, f[1]) /\ DOMAIN f[1].names = Base \union {"tb"}
    <2>1. "b" \in DOMAIN p.names /\ r[1].op \in RuleOps
      BY <1>2 DEF Base, RuleOps
    <2>2. StepFits(r[1], DOMAIN p.names)
      BY <1>2, <2>1, StepOfOne
    <2>3. Goes(b, n, m, p, r[1], f[1])
      BY <1>6, <2>2, PerformedIs
    <2> QED BY <1>2, <2>3 DEF Goes
  <1>8. Pass(b, n, m, f[2]) /\ DOMAIN f[2].names = Base \union {"tb", "ta"}
    <2>1. "a" \in DOMAIN f[1].names /\ r[2].op \in RuleOps
      BY <1>2, <1>7 DEF Base, RuleOps
    <2>2. StepFits(r[2], DOMAIN f[1].names)
      BY <1>2, <2>1, StepOfOne
    <2>3. Goes(b, n, m, f[1], r[2], f[2])
      BY <1>6, <1>7, <2>2, PerformedIs
    <2> QED BY <1>2, <1>7, <2>3 DEF Goes
  <1> DEFINE x == Newest(f[3].s)
             y == Newest(f[4].s)
             bx == Plus(b, x)
             by == Plus(b, y)
  <1>9. /\ Pass(bx, n, m, f[3]) /\ DOMAIN f[3].names = Base \union {"tb", "ta", "da_c"}
        /\ f[3].names["da_c"] = x /\ x \in Ids(f[3].s)
    <2>1. "d" \in DOMAIN f[2].names /\ "tb" \in DOMAIN f[2].names /\ r[3].op \in RuleOps
      BY <1>3, <1>8 DEF Base, RuleOps
    <2>2. StepFits(r[3], DOMAIN f[2].names)
      BY <1>3, <2>1, StepOfTwo
    <2>3. f[3] = Taken(f[2], r[3])
      BY <1>3, <1>6 DEF Performed, Handed
    <2>4. Makes(b, n, m, f[2], r[3], f[3])
      BY <1>8, <2>2, <2>3, TakenIs
    <2>5. r[3].name \in Unkept
      BY <1>3 DEF Unkept
    <2> QED BY <1>3, <1>8, <2>4, <2>5 DEF Makes
  <1>10. bx \in [Nat -> Int] /\ by \in [Nat -> Int] /\ Plus(bx, y) = Plus(by, x)
    BY PlusPlus
  <1> HIDE DEF x, y, bx, by
  <1>11. /\ Pass(Plus(by, x), n, m, f[4]) /\ f[4].names["da_c"] = x /\ f[4].names["db_c"] = y
         /\ x \in Ids(f[4].s) /\ y \in Ids(f[4].s)
    <2>1. "d" \in DOMAIN f[3].names /\ "ta" \in DOMAIN f[3].names /\ r[4].op \in RuleOps
      BY <1>3, <1>9 DEF Base, RuleOps
    <2>2. StepFits(r[4], DOMAIN f[3].names)
      BY <1>3, <2>1, StepOfTwo
    <2>3. f[4] = Taken(f[3], r[4])
      BY <1>3, <1>6 DEF Performed, Handed
    <2>4. Makes(bx, n, m, f[3], r[4], f[4])
      BY <1>9, <1>10, <2>2, <2>3, TakenIs
    <2>5. r[4].name \in Unkept
      BY <1>3 DEF Unkept
    <2>6. Pass(Plus(bx, y), n, m, f[4])
      BY <2>4, <2>5 DEF Makes, y
    <2>7. /\ Ids(f[3].s) \subseteq Ids(f[4].s) /\ y \in Ids(f[4].s)
          /\ f[4].names = [z \in DOMAIN f[3].names \union {"db_c"} |-> IF z = "db_c" THEN y ELSE f[3].names[z]]
      BY <1>3, <2>4 DEF Makes, y
    <2> QED BY <1>9, <1>10, <2>6, <2>7
  <1>12. Onward(by, n, m, f[4], f[5])
    <2>1. f[5] = AccumulatedOnTape(f[4], node.ins[1], x)
      BY <1>4, <1>6, <1>11 DEF Performed, Handed
    <2> QED BY <1>10, <1>11, <2>1, AccumulatedIs
  <1>13. Onward(b, n, m, f[5], f[6])
    <2>1. f[5].names["db_c"] = y /\ y \in Ids(f[5].s) /\ Pass(Plus(b, y), n, m, f[5])
      BY <1>11, <1>12 DEF Onward, by
    <2>2. f[6] = Handed(f[5], node, r[6], f[5].names["db_c"])
      BY <1>4, <1>6 DEF Performed
    <2>3. f[6] = AccumulatedOnTape(f[5], node.ins[2], y)
      BY <1>4, <2>1, <2>2 DEF Handed
    <2> QED BY <2>1, <2>3, AccumulatedIs
  <1> QED BY <1>5, <1>13 DEF Onward, r

LEMMA RuleFollowed ==
    ASSUME NEW b \in [Nat -> Int], NEW n, NEW m \in Nat, NEW p, Pass(b, n, m, p), DOMAIN p.names = Base,
           NEW e, NEW node, node.op \in NodeOps, ~Refused(e, node)
    PROVE  Pass(b, n, m, Followed(p, node, Rule(e, node)))
  <1>1. CASE node.op = "matmul"
    <2>1. Rule(e, node) = MatmulRule
      BY <1>1 DEF Rule, MatmulRule
    <2> QED BY <2>1, MatmulFollowed
  <1>2. CASE node.op # "matmul"
    <2>1. RuleFits(Rule(e, node))
      BY <1>2, RuleIs
    <2> QED BY <2>1, FollowedIs
  <1> QED BY <1>1, <1>2

----------------------------------------------------------------------------
(* A backward pass *)

LEMMA LetGoIs ==
    ASSUME NEW b \in [Nat -> Int], NEW n, NEW m \in Nat, NEW p, Pass(b, n, m, p)
    PROVE  Pass(b, n, m, LetGo(p))
  <1> DEFINE t == Released(p.s, p.kept)
             q == LetGo(p)
  <1>1. IsPass(p) /\ IsEngine(p.s) /\ p.kept \in Seq(Ids(p.s))
    BY PassFacts DEF Pass, IsPass
  <1>2. /\ SameNodes(p.s, t)
        /\ \A i \in Ids(p.s) : Spare(t, i) = Spare(p.s, i) - Occ(p.kept, i)
    BY <1>1, ReleasedIs
  <1>3. q = [p EXCEPT !.s = t, !.kept = <<>>]
    BY DEF LetGo
  <1> HIDE DEF t, q
  <1>4. q = [s |-> t, g |-> p.g, ok |-> p.ok, names |-> p.names, kept |-> <<>>]
    BY <1>1, <1>3 DEF IsPass
  <1>5. q.s = t /\ q.g = p.g /\ q.ok = p.ok /\ q.names = p.names /\ q.kept = <<>>
    BY <1>4
  <1>6. IsEngine(t) /\ Len(t.heap) = Len(p.s.heap) /\ Len(t.frames) = Len(p.s.frames) /\ Ids(t) = Ids(p.s)
    BY <1>2 DEF SameNodes, Ids
  <1>7. IsPass(q)
    <2>1. q.kept \in Seq(Ids(t))
      BY <1>5
    <2> QED BY <1>1, <1>4, <1>5, <1>6, <2>1 DEF IsPass
  <1>8. ASSUME NEW i \in Nat PROVE Owned(q, i) >= b[i]
    <2>1. Owned(p, i) >= b[i]
      BY DEF Pass
    <2>2. /\ Spare(p.s, i) \in Int /\ GradsAt(p.g, i) \in Nat /\ Occ(p.kept, i) \in Nat
          /\ (i \notin Ids(p.s) => Owned(p, i) = 0)
      BY <1>1, PassFacts
    <2>3. Occ(<<>>, i) = 0
      <3>1. <<>> \in Seq({})
        OBVIOUS
      <3> QED BY <3>1, OccType
    <2>4. CASE i \in Ids(p.s)
      <3>1. Spare(t, i) = Spare(p.s, i) - Occ(p.kept, i)
        BY <1>2, <2>4
      <3>2. Owned(q, i) = Spare(t, i) - GradsAt(p.g, i) - 0
        BY <1>5, <2>3 DEF Owned
      <3>3. Owned(p, i) = Spare(p.s, i) - GradsAt(p.g, i) - Occ(p.kept, i)
        BY DEF Owned
      <3>4. Owned(q, i) = Owned(p, i)
        BY <2>2, <3>1, <3>2, <3>3
      <3> QED BY <2>1, <3>4
    <2>5. CASE i \notin Ids(p.s)
      <3>1. Owned(q, i) = 0
        BY <1>5, <1>6, <1>7, <2>5, PassFacts
      <3> QED BY <2>1, <2>2, <2>5, <3>1
    <2> QED BY <2>4, <2>5
  <1>9. Len(q.s.frames) = n /\ m <= Len(q.s.heap)
    BY <1>5, <1>6 DEF Pass
  <1> QED BY <1>7, <1>8, <1>9 DEF Pass, q

LEMMA PassRenamed ==
    ASSUME NEW b \in [Nat -> Int], NEW n, NEW m \in Nat, NEW p, Pass(b, n, m, p),
           NEW names, \A x \in DOMAIN names : names[x] \in Ids(p.s),
           NEW q, q = [p EXCEPT !.names = names]
    PROVE  Pass(b, n, m, q) /\ q.names = names
  <1>1. IsPass(p)
    BY DEF Pass
  <1>2. q = [s |-> p.s, g |-> p.g, ok |-> p.ok, names |-> names, kept |-> p.kept]
    BY <1>1 DEF IsPass
  <1>3. q.s = p.s /\ q.g = p.g /\ q.ok = p.ok /\ q.names = names /\ q.kept = p.kept
    BY <1>2
  <1>4. IsPass(q)
    BY <1>1, <1>2, <1>3 DEF IsPass
  <1>5. \A i : Owned(q, i) = Owned(p, i)
    BY <1>3 DEF Owned
  <1> QED BY <1>3, <1>4, <1>5 DEF Pass

LEMMA PassStopped ==
    ASSUME NEW b \in [Nat -> Int], NEW n, NEW m \in Nat, NEW p, Pass(b, n, m, p),
           NEW q, q = [p EXCEPT !.ok = FALSE]
    PROVE  Pass(b, n, m, q)
  <1>1. IsPass(p)
    BY DEF Pass
  <1>2. q = [s |-> p.s, g |-> p.g, ok |-> FALSE, names |-> p.names, kept |-> p.kept]
    BY <1>1 DEF IsPass
  <1>3. q.s = p.s /\ q.g = p.g /\ q.ok = FALSE /\ q.names = p.names /\ q.kept = p.kept
    BY <1>2
  <1>4. IsPass(q)
    BY <1>1, <1>2, <1>3 DEF IsPass
  <1>5. \A i : Owned(q, i) = Owned(p, i)
    BY <1>3 DEF Owned
  <1> QED BY <1>3, <1>4, <1>5 DEF Pass

\* A node of a frame, over tensors that there already are.
NodeFits(node, m) == node.op \in NodeOps /\ node.ins \in Seq(1 .. m) /\ node.ins # <<>> /\ node.out \in 1 .. m

LEMMA NodeBackIs ==
    ASSUME NEW b \in [Nat -> Int], NEW n, NEW m \in Nat, NEW p, Pass(b, n, m, p),
           NEW node, NodeFits(node, m)
    PROVE  Pass(b, n, m, NodeBack(p, node))
  <1> DEFINE second == IF Len(node.ins) = 2 THEN node.ins[2] ELSE node.ins[1]
             names == [x \in {"a", "b", "d", "y"} |->
                    CASE x = "a" -> node.ins[1] [] x = "b" -> second
                      [] x = "d" -> p.g[node.out] [] x = "y" -> node.out]
             start == [p EXCEPT !.names = names]
             stopped == [p EXCEPT !.ok = FALSE]
             followed == Followed(start, node, Rule(p.s, node))
             q == NodeBack(p, node)
  <1>1. q = IF ~p.ok \/ node.out \notin DOMAIN p.g THEN p
            ELSE IF Refused(p.s, node) THEN stopped ELSE LetGo(followed)
    BY DEF NodeBack
  <1> HIDE DEF q
  <1>2. CASE q = p
    BY <1>2 DEF q
  <1>3. CASE q = stopped
    <2>1. Pass(b, n, m, stopped)
      BY PassStopped
    <2> QED BY <1>3, <2>1 DEF q
  <1>4. CASE /\ node.out \in DOMAIN p.g /\ ~Refused(p.s, node) /\ q = LetGo(followed)
    <2>1. IsPass(p) /\ 1 .. m \subseteq Ids(p.s)
      <3>1. Len(p.s.heap) \in Nat /\ m <= Len(p.s.heap)
        BY PassFacts DEF Pass
      <3> QED BY <3>1 DEF Pass, Ids
    <2>2. p.g[node.out] \in Ids(p.s) /\ node.out \in Ids(p.s)
      BY <1>4, <2>1 DEF IsPass, NodeFits
    <2>3. node.ins[1] \in Ids(p.s) /\ second \in Ids(p.s)
      <3>1. /\ Len(node.ins) \in Nat /\ Len(node.ins) # 0
            /\ \A k \in 1 .. Len(node.ins) : node.ins[k] \in 1 .. m
        BY LenProperties, EmptySeq, ElementOfSeq DEF NodeFits
      <3>2. 1 \in 1 .. Len(node.ins) /\ (Len(node.ins) = 2 => 2 \in 1 .. Len(node.ins))
        <4> DEFINE c == Len(node.ins)
        <4>1. c \in Nat /\ c # 0
          BY <3>1
        <4> HIDE DEF c
        <4>2. 1 \in 1 .. c /\ (c = 2 => 2 \in 1 .. c)
          BY <4>1
        <4> QED BY <4>2 DEF c
      <3> QED BY <2>1, <3>1, <3>2
    <2> HIDE DEF second
    <2>4. DOMAIN names = Base /\ \A x \in DOMAIN names : names[x] \in Ids(p.s)
      <3>1. DOMAIN names = {"a", "b", "d", "y"}
        OBVIOUS
      <3>2. /\ names["a"] = node.ins[1] /\ names["b"] = second
            /\ names["d"] = p.g[node.out] /\ names["y"] = node.out
        OBVIOUS
      <3> HIDE DEF names
      <3> QED BY <2>2, <2>3, <3>1, <3>2 DEF Base
    <2> HIDE DEF names
    <2>5. Pass(b, n, m, start) /\ start.names = names
      BY <2>4, PassRenamed
    <2> HIDE DEF start
    <2>6. Pass(b, n, m, followed)
      BY <1>4, <2>4, <2>5, RuleFollowed DEF NodeFits
    <2> HIDE DEF followed
    <2>7. Pass(b, n, m, LetGo(followed))
      BY <2>6, LetGoIs
    <2> QED BY <1>4, <2>7 DEF q
  <1> QED BY <1>1, <1>2, <1>3, <1>4 DEF q

\* The loop of FrameBack.
BackLoop(p, nodes, n, c, f) ==
    f = [k \in 0 .. c |-> IF k = 0 THEN p ELSE NodeBack(f[k - 1], nodes[n + 1 - k])]
\* What it comes to, from the newest node to the oldest.
NodesBack(p, nodes) ==
    LET n == Len(nodes)
        after[k \in 0 .. n] == IF k = 0 THEN p ELSE NodeBack(after[k - 1], nodes[n + 1 - k])
    IN after[n]

LEMMA BackTurns ==
    ASSUME NEW p, NEW nodes, NEW n \in Nat, n = Len(nodes)
    PROVE  \E f : BackLoop(p, nodes, n, n, f) /\ NodesBack(p, nodes) = f[n]
  <1> DEFINE T == {c \in Nat : \E f : BackLoop(p, nodes, n, c, f)}
  <1>1. 0 \in T
    <2> DEFINE f == [k \in 0 .. 0 |-> p]
    <2>1. \A k \in 0 .. 0 : f[k] = IF k = 0 THEN p ELSE NodeBack(f[k - 1], nodes[n + 1 - k])
      OBVIOUS
    <2>2. f = [k \in 0 .. 0 |-> f[k]]
      OBVIOUS
    <2> HIDE DEF f
    <2>3. BackLoop(p, nodes, n, 0, f)
      BY <2>1, <2>2 DEF BackLoop
    <2> QED BY <2>3
  <1>2. ASSUME NEW c \in Nat, c \in T PROVE c + 1 \in T
    <2>1. PICK f : BackLoop(p, nodes, n, c, f)
      BY <1>2
    <2> DEFINE x == NodeBack(f[c], nodes[n + 1 - (c + 1)])
               g == [k \in 0 .. c + 1 |-> IF k = c + 1 THEN x ELSE f[k]]
    <2>2. \A k \in 0 .. c : f[k] = IF k = 0 THEN p ELSE NodeBack(f[k - 1], nodes[n + 1 - k])
      BY <2>1 DEF BackLoop
    <2>3. ASSUME NEW k \in 0 .. c + 1
          PROVE  g[k] = IF k = 0 THEN p ELSE NodeBack(g[k - 1], nodes[n + 1 - k])
      <3>1. CASE k = c + 1
        <4>1. g[k] = x /\ k # 0 /\ k - 1 = c /\ c \in 0 .. c + 1 /\ c # c + 1
          BY <3>1
        <4>2. g[k - 1] = f[c]
          BY <4>1
        <4> HIDE DEF g
        <4> QED BY <3>1, <4>1, <4>2
      <3>2. CASE k # c + 1
        <4>1. k \in 0 .. c /\ g[k] = f[k]
          BY <3>2
        <4>2. k # 0 => g[k - 1] = f[k - 1]
          BY <4>1
        <4> HIDE DEF g
        <4> QED BY <2>2, <4>1, <4>2
      <3> QED BY <3>1, <3>2
    <2>4. g = [k \in 0 .. c + 1 |-> g[k]]
      OBVIOUS
    <2> HIDE DEF g
    <2>5. BackLoop(p, nodes, n, c + 1, g)
      BY <2>3, <2>4 DEF BackLoop
    <2> QED BY <2>5
  <1>3. Nat \subseteq T
    <2> HIDE DEF T
    <2> QED BY <1>1, <1>2, InductiveSet
  <1>4. \E f : BackLoop(p, nodes, n, n, f)
    BY <1>3
  <1> DEFINE C == CHOOSE f : BackLoop(p, nodes, n, n, f)
  <1>5. NodesBack(p, nodes) = C[n]
    BY DEF NodesBack, BackLoop
  <1>6. BackLoop(p, nodes, n, n, C)
    BY <1>4
  <1> HIDE DEF C
  <1> QED BY <1>5, <1>6

LEMMA NodesBackIs ==
    ASSUME NEW b \in [Nat -> Int], NEW n, NEW m \in Nat, NEW p, Pass(b, n, m, p),
           NEW nodes, Len(nodes) \in Nat, \A k \in 1 .. Len(nodes) : NodeFits(nodes[k], m)
    PROVE  Pass(b, n, m, NodesBack(p, nodes))
  <1> DEFINE c == Len(nodes)
  <1>1. c \in Nat /\ \A k \in 1 .. c : NodeFits(nodes[k], m)
    OBVIOUS
  <1>2. PICK f : BackLoop(p, nodes, c, c, f) /\ NodesBack(p, nodes) = f[c]
    BY <1>1, BackTurns
  <1> HIDE DEF c
  <1>3. \A k \in 0 .. c : f[k] = IF k = 0 THEN p ELSE NodeBack(f[k - 1], nodes[c + 1 - k])
    BY <1>2 DEF BackLoop
  <1> DEFINE T == {k \in Nat : k <= c => Pass(b, n, m, f[k])}
  <1>4. 0 \in T
    <2>1. f[0] = p
      BY <1>1, <1>3
    <2> QED BY <2>1
  <1>5. ASSUME NEW k \in Nat, k \in T PROVE k + 1 \in T
    <2> SUFFICES ASSUME k + 1 <= c PROVE Pass(b, n, m, f[k + 1])
      OBVIOUS
    <2>1. Pass(b, n, m, f[k])
      BY <1>1, <1>5
    <2>2. k + 1 \in 0 .. c /\ k + 1 # 0 /\ (k + 1) - 1 = k /\ c + 1 - (k + 1) \in 1 .. c
      BY <1>1
    <2>3. f[k + 1] = NodeBack(f[k], nodes[c + 1 - (k + 1)])
      BY <1>3, <2>2
    <2> DEFINE node == nodes[c + 1 - (k + 1)]
    <2>4. NodeFits(node, m)
      BY <1>1, <2>2
    <2> HIDE DEF node
    <2>5. Pass(b, n, m, NodeBack(f[k], node))
      BY <2>1, <2>4, NodeBackIs
    <2> QED BY <2>3, <2>5 DEF node
  <1>6. Nat \subseteq T
    <2> HIDE DEF T
    <2> QED BY <1>4, <1>5, InductiveSet
  <1>7. Pass(b, n, m, f[c])
    BY <1>1, <1>6
  <1> QED BY <1>2, <1>7

LEMMA FrozenIs ==
    ASSUME NEW e, IsEngine(e), NEW f \in 1 .. Len(e.frames),
           NEW t, t = [e EXCEPT !.frames[f].frozen = TRUE]
    PROVE  Kept(e, t)
  <1> DEFINE n == Len(e.frames)
             old == e.frames[f]
             g == [old EXCEPT !.frozen = TRUE]
             frames == [e.frames EXCEPT ![f] = g]
  <1>1. IsSeq(e.frames) /\ n \in Nat
    BY SeqFacts DEF IsEngine, FramesOver
  <1>2. IsFrame(old) /\ NodesOver(old.nodes, Ids(e))
    BY DEF IsEngine, FramesOver
  <1>3. t = [e EXCEPT !.frames = frames]
    OBVIOUS
  <1>4. g.nodes = old.nodes /\ IsFrame(g)
    <2> HIDE DEF old
    <2>3. old = [nodes |-> old.nodes, level |-> old.level, frozen |-> old.frozen]
      BY <1>2 DEF IsFrame
    <2>4. g = [old EXCEPT !.frozen = TRUE]
      OBVIOUS
    <2> HIDE DEF g
    <2>1. g = [nodes |-> old.nodes, level |-> old.level, frozen |-> TRUE]
      BY <2>3, <2>4
    <2>2. g.nodes = old.nodes /\ g.level = old.level /\ g.frozen = TRUE
      BY <2>1
    <2> QED BY <1>2, <2>1, <2>2 DEF IsFrame
  <1>5. /\ IsSeq(frames) /\ Len(frames) = n
        /\ \A k \in 1 .. n : frames[k] = IF k = f THEN g ELSE e.frames[k]
    <2> HIDE DEF g
    <2>1. e.frames = [k \in 1 .. n |-> e.frames[k]]
      BY <1>1, SeqFacts
    <2>2. frames = [k \in 1 .. n |-> frames[k]] /\ \A k \in 1 .. n : frames[k] = IF k = f THEN g ELSE e.frames[k]
      BY <2>1
    <2> HIDE DEF frames
    <2>3. IsSeq(frames) /\ Len(frames) = Len(e.frames)
      BY <1>1, <2>2, SeqAlike
    <2> QED BY <2>2, <2>3
  <1> HIDE DEF frames, g
  <1>6. t.heap = e.heap /\ t.tape = e.tape /\ t.pseudo = e.pseudo /\ t.frames = frames /\ IsRecord(t)
    BY <1>3 DEF IsEngine, IsRecord
  <1>7. Ids(t) = Ids(e)
    BY <1>6 DEF Ids
  <1>8. \A k \in 1 .. n : frames[k].nodes = e.frames[k].nodes /\ IsFrame(frames[k])
    <2> SUFFICES ASSUME NEW k \in 1 .. n PROVE frames[k].nodes = e.frames[k].nodes /\ IsFrame(frames[k])
      OBVIOUS
    <2>1. CASE k = f
      BY <1>4, <1>5, <2>1
    <2>2. CASE k # f
      BY <1>5, <2>2 DEF IsEngine
    <2> QED BY <2>1, <2>2
  <1>9. FramesOver(frames, Ids(e))
    BY <1>5, <1>8 DEF IsEngine, FramesOver
  <1>10. IsEngine(t)
    BY <1>5, <1>6, <1>7, <1>8, <1>9 DEF IsEngine
  <1>11. ASSUME NEW i \in Ids(e) PROVE Spare(t, i) = Spare(e, i)
    <2>1. FramesOcc(frames, i) = FramesOcc(e.frames, i)
      <3>1. FramesOver(e.frames, Ids(e))
        BY DEF IsEngine
      <3>2. PICK A : FramesLoop(e.frames, i, A) /\ FramesOcc(e.frames, i) = A[n]
        BY <3>1, FramesTurns
      <3>3. PICK B : FramesLoop(frames, i, B) /\ FramesOcc(frames, i) = B[n]
        BY <1>5, <1>9, FramesTurns
      <3>4. n <= Len(e.frames) /\ n <= Len(frames) /\ \A k \in 1 .. n : e.frames[k].nodes = frames[k].nodes
        BY <1>1, <1>5, <1>8
      <3> HIDE DEF n
      <3>5. A[n] = B[n]
        BY <1>1, <1>5, <3>2, <3>3, <3>4, FramesAgree
      <3> QED BY <3>2, <3>3, <3>5
    <2>2. Accounted(t, i) = Accounted(e, i)
      BY <1>6, <2>1 DEF Accounted
    <2> QED BY <1>6, <1>7, <2>2 DEF Spare
  <1>12. ASSUME NEW i \in Ids(e) PROVE Spare(t, i) >= Spare(e, i)
    <2>1. Spare(e, i) \in Int
      BY EngineFacts
    <2>2. Spare(t, i) = Spare(e, i)
      BY <1>11
    <2> QED BY <2>1, <2>2
  <1> QED BY <1>5, <1>6, <1>10, <1>12 DEF Kept

LEMMA FrameBackIs ==
    ASSUME NEW b \in [Nat -> Int], NEW n \in Nat, NEW m \in Nat, NEW p, Pass(b, n, m, p), NEW f \in 1 .. n
    PROVE  Pass(b, n, m, FrameBack(p, f))
  <1> DEFINE nodes == p.s.frames[f].nodes
             c == Len(p.s.heap)
             r == NodesBack(p, nodes)
             t == [r.s EXCEPT !.frames[f].frozen = TRUE]
             w == [r EXCEPT !.s = t]
             q == FrameBack(p, f)
  <1>1. IsPass(p) /\ IsEngine(p.s) /\ c \in Nat /\ Len(p.s.frames) = n /\ m <= c
    BY PassFacts DEF Pass
  <1>2. q = IF ~p.ok THEN p ELSE w
    BY DEF FrameBack, NodesBack
  <1> HIDE DEF q
  <1>3. Len(nodes) \in Nat /\ \A k \in 1 .. Len(nodes) : NodeFits(nodes[k], c)
    <2>1. IsFrame(p.s.frames[f]) /\ NodesOver(nodes, Ids(p.s))
      BY <1>1 DEF IsEngine, FramesOver
    <2>2. Len(nodes) \in Nat
      BY <2>1, SeqFacts DEF NodesOver
    <2> QED BY <2>1, <2>2 DEF NodeFits, IsFrame, NodesOver, Ids
  <1> HIDE DEF nodes
  <1>4. Pass(b, n, c, p)
    <2>1. c <= c
      BY <1>1
    <2> QED BY <2>1 DEF Pass
  <1> HIDE DEF c
  <1>5. Pass(b, n, c, r)
    BY <1>1, <1>3, <1>4, NodesBackIs
  <1> HIDE DEF r
  <1>6. Pass(b, n, m, r)
    <2>1. m <= Len(r.s.heap)
      <3>1. Len(r.s.heap) \in Nat /\ c <= Len(r.s.heap)
        BY <1>5, PassFacts DEF Pass
      <3> QED BY <1>1, <3>1
    <2> QED BY <1>5, <2>1 DEF Pass
  <1>7. CASE q = w
    <2>1. IsPass(r) /\ IsEngine(r.s) /\ f \in 1 .. Len(r.s.frames)
      BY <1>6, PassFacts DEF Pass
    <2>2. Kept(r.s, t)
      BY <2>1, FrozenIs
    <2> HIDE DEF t
    <2>3. SameMap(r, w) /\ w.s = t
      BY <2>1, WithEngine
    <2> HIDE DEF w
    <2>4. Pass(b, n, m, w)
      BY <1>6, <2>2, <2>3, PassKept
    <2> QED BY <1>7, <2>4 DEF q
  <1> QED BY <1>2, <1>7 DEF q

\* The loop of FramesBack.
DownLoop(p, top, c, f) ==
    f = [k \in 0 .. c |-> IF k = 0 THEN p ELSE FrameBack(f[k - 1], top + 1 - k)]

LEMMA DownTurns ==
    ASSUME NEW p, NEW top \in Nat
    PROVE  \E f : DownLoop(p, top, top, f) /\ FramesBack(p, top) = f[top]
  <1> DEFINE T == {c \in Nat : \E f : DownLoop(p, top, c, f)}
  <1>1. 0 \in T
    <2> DEFINE f == [k \in 0 .. 0 |-> p]
    <2>1. \A k \in 0 .. 0 : f[k] = IF k = 0 THEN p ELSE FrameBack(f[k - 1], top + 1 - k)
      OBVIOUS
    <2>2. f = [k \in 0 .. 0 |-> f[k]]
      OBVIOUS
    <2> HIDE DEF f
    <2>3. DownLoop(p, top, 0, f)
      BY <2>1, <2>2 DEF DownLoop
    <2> QED BY <2>3
  <1>2. ASSUME NEW c \in Nat, c \in T PROVE c + 1 \in T
    <2>1. PICK f : DownLoop(p, top, c, f)
      BY <1>2
    <2> DEFINE x == FrameBack(f[c], top + 1 - (c + 1))
               g == [k \in 0 .. c + 1 |-> IF k = c + 1 THEN x ELSE f[k]]
    <2>2. \A k \in 0 .. c : f[k] = IF k = 0 THEN p ELSE FrameBack(f[k - 1], top + 1 - k)
      BY <2>1 DEF DownLoop
    <2>3. ASSUME NEW k \in 0 .. c + 1
          PROVE  g[k] = IF k = 0 THEN p ELSE FrameBack(g[k - 1], top + 1 - k)
      <3>1. CASE k = c + 1
        <4>1. g[k] = x /\ k # 0 /\ k - 1 = c /\ c \in 0 .. c + 1 /\ c # c + 1
          BY <3>1
        <4>2. g[k - 1] = f[c]
          BY <4>1
        <4> HIDE DEF g
        <4> QED BY <3>1, <4>1, <4>2
      <3>2. CASE k # c + 1
        <4>1. k \in 0 .. c /\ g[k] = f[k]
          BY <3>2
        <4>2. k # 0 => g[k - 1] = f[k - 1]
          BY <4>1
        <4> HIDE DEF g
        <4> QED BY <2>2, <4>1, <4>2
      <3> QED BY <3>1, <3>2
    <2>4. g = [k \in 0 .. c + 1 |-> g[k]]
      OBVIOUS
    <2> HIDE DEF g
    <2>5. DownLoop(p, top, c + 1, g)
      BY <2>3, <2>4 DEF DownLoop
    <2> QED BY <2>5
  <1>3. Nat \subseteq T
    <2> HIDE DEF T
    <2> QED BY <1>1, <1>2, InductiveSet
  <1>4. \E f : DownLoop(p, top, top, f)
    BY <1>3
  <1> DEFINE C == CHOOSE f : DownLoop(p, top, top, f)
  <1>5. FramesBack(p, top) = C[top]
    BY DEF FramesBack, DownLoop
  <1>6. DownLoop(p, top, top, C)
    BY <1>4
  <1> HIDE DEF C
  <1> QED BY <1>5, <1>6

LEMMA FramesBackIs ==
    ASSUME NEW b \in [Nat -> Int], NEW n \in Nat, NEW m \in Nat, NEW p, Pass(b, n, m, p),
           NEW top \in Nat, top <= n
    PROVE  Pass(b, n, m, FramesBack(p, top))
  <1>1. PICK f : DownLoop(p, top, top, f) /\ FramesBack(p, top) = f[top]
    BY DownTurns
  <1>2. \A k \in 0 .. top : f[k] = IF k = 0 THEN p ELSE FrameBack(f[k - 1], top + 1 - k)
    BY <1>1 DEF DownLoop
  <1> DEFINE T == {k \in Nat : k <= top => Pass(b, n, m, f[k])}
  <1>3. 0 \in T
    <2>1. f[0] = p
      BY <1>2
    <2> QED BY <2>1
  <1>4. ASSUME NEW k \in Nat, k \in T PROVE k + 1 \in T
    <2> SUFFICES ASSUME k + 1 <= top PROVE Pass(b, n, m, f[k + 1])
      OBVIOUS
    <2>1. Pass(b, n, m, f[k])
      BY <1>4
    <2>2. k + 1 \in 0 .. top /\ k + 1 # 0 /\ (k + 1) - 1 = k /\ top + 1 - (k + 1) \in 1 .. n
      OBVIOUS
    <2> DEFINE j == top + 1 - (k + 1)
    <2>3. f[k + 1] = FrameBack(f[k], j) /\ j \in 1 .. n
      BY <1>2, <2>2
    <2> HIDE DEF j
    <2> QED BY <2>1, <2>3, FrameBackIs
  <1>5. Nat \subseteq T
    <2> HIDE DEF T
    <2> QED BY <1>3, <1>4, InductiveSet
  <1>6. Pass(b, n, m, f[top])
    BY <1>5
  <1> QED BY <1>1, <1>6

----------------------------------------------------------------------------
(* The answer of a backward pass *)

\* What is left when a pass has let go of everything it owned but b.
Frees(b, m, t) == IsEngine(t) /\ m <= Len(t.heap) /\ \A i \in Nat : Spare(t, i) >= b[i]

LEMMA GradsFreedIs ==
    ASSUME NEW b \in [Nat -> Int], NEW n, NEW m \in Nat, NEW p, Pass(b, n, m, p)
    PROVE  Frees(b, m, GradsFreed(p))
  <1> DEFINE S == {p.g[j] : j \in DOMAIN p.g}
             t == GradsFreed(p)
  <1>1. IsPass(p) /\ IsEngine(p.s) /\ IsFiniteSet(DOMAIN p.g)
    BY PassFacts DEF Pass, IsPass
  <1>2. t = GivenBack(p.s, S)
    BY DEF GradsFreed
  <1>3. \A i : OneIn(i, S) <= GradsAt(p.g, i)
    <2> SUFFICES ASSUME NEW i PROVE OneIn(i, S) <= GradsAt(p.g, i)
      OBVIOUS
    <2>1. GradsAt(p.g, i) \in Nat /\ ((\E j \in DOMAIN p.g : p.g[j] = i) => GradsAt(p.g, i) >= 1)
      BY <1>1, GradsAtType
    <2>2. CASE i \in S
      <3>1. \E j \in DOMAIN p.g : p.g[j] = i
        BY <2>2
      <3> QED BY <2>1, <2>2, <3>1 DEF OneIn
    <2>3. CASE i \notin S
      BY <2>1, <2>3 DEF OneIn
    <2> QED BY <2>2, <2>3
  <1> HIDE DEF S, t
  <1>4. SameNodes(p.s, t) /\ \A i \in Ids(p.s) : Spare(t, i) = Spare(p.s, i) - OneIn(i, S)
    BY <1>1, <1>2, GivenBackIs
  <1>5. IsEngine(t) /\ Len(t.heap) = Len(p.s.heap) /\ Ids(t) = Ids(p.s)
    BY <1>4 DEF SameNodes, Ids
  <1>6. ASSUME NEW i \in Nat PROVE Spare(t, i) >= b[i]
    <2>1. Owned(p, i) >= b[i] /\ b[i] \in Int
      BY DEF Pass
    <2>2. /\ Spare(p.s, i) \in Int /\ GradsAt(p.g, i) \in Nat /\ Occ(p.kept, i) \in Nat
          /\ (i \notin Ids(p.s) => Owned(p, i) = 0)
      BY <1>1, PassFacts
    <2>3. OneIn(i, S) \in Int /\ OneIn(i, S) <= GradsAt(p.g, i)
      BY <1>3 DEF OneIn
    <2>4. CASE i \in Ids(p.s)
      <3>1. Spare(t, i) = Spare(p.s, i) - OneIn(i, S)
        BY <1>4, <2>4
      <3>2. Owned(p, i) = Spare(p.s, i) - GradsAt(p.g, i) - Occ(p.kept, i)
        BY DEF Owned
      <3> QED BY <2>1, <2>2, <2>3, <3>1, <3>2
    <2>5. CASE i \notin Ids(p.s)
      <3>1. Spare(t, i) = 0
        BY <1>5, <2>5 DEF Spare
      <3> QED BY <2>1, <2>2, <2>5, <3>1
    <2> QED BY <2>4, <2>5
  <1>7. m <= Len(t.heap)
    BY <1>5 DEF Pass
  <1> QED BY <1>5, <1>6, <1>7 DEF Frees, t

LEMMA PassRetained ==
    ASSUME NEW b \in [Nat -> Int], NEW n, NEW m \in Nat, NEW x, NEW p, Pass(b, n, m, p), x \in Ids(p.s),
           NEW q, SameMap(p, q), q.s = Retained(p.s, <<x>>)
    PROVE  Pass(Plus(b, x), n, m, q)
  <1> DEFINE ids == <<x>>
             t == Retained(p.s, ids)
  <1>1. IsPass(p) /\ Len(p.s.heap) \in Nat /\ IsEngine(p.s)
    BY PassFacts DEF Pass
  <1>2. ids \in Seq(Ids(p.s)) /\ \A i : Occ(ids, i) = OneAt(x, i)
    BY OccSingle
  <1>4. SameMap(p, q) /\ q.s = t
    OBVIOUS
  <1> HIDE DEF ids
  <1>5. SameNodes(p.s, t) /\ \A i \in Ids(p.s) : Spare(t, i) = Spare(p.s, i) + Occ(ids, i)
    BY <1>1, <1>2, RetainedIs
  <1> HIDE DEF t
  <1>6. IsEngine(t) /\ Len(t.heap) = Len(p.s.heap) /\ t.frames = p.s.frames /\ Ids(t) = Ids(p.s)
    BY <1>5 DEF SameNodes, Ids
  <1>7. Len(t.heap) >= Len(p.s.heap)
    BY <1>1, <1>6
  <1>8. /\ IsPass(q) /\ q.s = t
        /\ \A i : Owned(q, i) = Owned(p, i) + Spare(t, i) - Spare(p.s, i)
    BY <1>1, <1>4, <1>6, <1>7, PassEngine
  <1>9. ASSUME NEW i \in Nat PROVE Owned(q, i) >= Plus(b, x)[i]
    <2>1. Owned(p, i) >= b[i] /\ b[i] \in Int
      BY DEF Pass
    <2>2. Owned(q, i) \in Int /\ Owned(p, i) \in Int /\ Spare(p.s, i) \in Int /\ Spare(t, i) \in Int
      BY <1>1, <1>6, <1>8, PassFacts, EngineFacts
    <2>3. OneAt(x, i) \in Int
      BY DEF OneAt
    <2>4. Spare(t, i) = Spare(p.s, i) + OneAt(x, i)
      <3>1. CASE i \in Ids(p.s)
        BY <1>2, <1>5, <3>1
      <3>2. CASE i \notin Ids(p.s)
        <4>1. Spare(t, i) = 0 /\ Spare(p.s, i) = 0 /\ OneAt(x, i) = 0
          BY <1>6, <3>2 DEF Spare, OneAt
        <4> QED BY <4>1
      <3> QED BY <3>1, <3>2
    <2>5. Owned(q, i) = Owned(p, i) + Spare(t, i) - Spare(p.s, i)
      BY <1>8
    <2>6. Plus(b, x)[i] = b[i] + OneAt(x, i)
      BY DEF Plus
    <2> QED BY <2>1, <2>2, <2>3, <2>4, <2>5, <2>6
  <1>10. Len(q.s.frames) = n /\ m <= Len(q.s.heap)
    BY <1>6, <1>8 DEF Pass
  <1> QED BY <1>8, <1>9, <1>10 DEF Pass

\* The result r of GRAD_HO, when the program has b: it gets the reference of
\* the gradient.
Answers(b, m, r) ==
    /\ r.ok \in BOOLEAN
    /\ r.ok => r.id \in Ids(r.engine) /\ Frees(Plus(b, r.id), m, r.engine)
    /\ ~r.ok => Frees(b, m, r.engine)

LEMMA GrownFrees ==
    ASSUME NEW b \in [Nat -> Int], NEW m \in Nat, NEW t, Frees(b, m, t), NEW u, Grown(t, u)
    PROVE  Frees(Plus(b, Newest(u)), m, u) /\ Newest(u) \in Ids(u)
  <1>1. IsEngine(t) /\ Len(t.heap) \in Nat
    BY EngineFacts DEF Frees
  <1>2. Grown(t, u)
    OBVIOUS
  <1>3. IsEngine(u) /\ Len(u.heap) = Len(t.heap) + 1
    BY <1>2 DEF Grown
  <1>4. Ids(t) \subseteq Ids(u) /\ Newest(u) \in Ids(u)
    BY <1>1, <1>2, GrownNoLess
  <1>5. ASSUME NEW i \in Nat PROVE Spare(u, i) >= Plus(b, Newest(u))[i]
    <2>1. Spare(t, i) >= b[i] /\ b[i] \in Int
      BY DEF Frees
    <2>2. Plus(b, Newest(u))[i] = b[i] + OneAt(Newest(u), i)
      BY DEF Plus
    <2>3. Spare(u, i) \in Int /\ Spare(t, i) \in Int
      BY <1>1, <1>3, EngineFacts
    <2>5. OneAt(Newest(u), i) \in Int
      BY DEF OneAt
    <2>4. Spare(u, i) >= Spare(t, i) + OneAt(Newest(u), i)
      <3>1. CASE i \in Ids(u)
        BY <1>2, <3>1 DEF Grown
      <3>2. CASE i \notin Ids(u)
        <4>1. i \notin Ids(t) /\ Newest(u) # i
          BY <1>4, <3>2
        <4>2. Spare(u, i) = 0 /\ Spare(t, i) = 0 /\ OneAt(Newest(u), i) = 0
          BY <3>2, <4>1 DEF Spare, OneAt
        <4> QED BY <4>2
      <3> QED BY <3>1, <3>2
    <2> QED BY <2>1, <2>2, <2>3, <2>4, <2>5
  <1>6. m <= Len(u.heap)
    <2> DEFINE c == Len(t.heap)
    <2>1. m <= c /\ c \in Nat /\ Len(u.heap) = c + 1
      BY <1>1, <1>3 DEF Frees
    <2> HIDE DEF c
    <2> QED BY <2>1
  <1> QED BY <1>3, <1>4, <1>5, <1>6 DEF Frees

LEMMA AnswerOfIs ==
    ASSUME NEW b \in [Nat -> Int], NEW n, NEW m \in Nat, NEW p, Pass(b, n, m, p), NEW w
    PROVE  Answers(b, m, AnswerOf(p, w))
  <1> DEFINE t == GradsFreed(p)
             zeros == Made(t, Filled(Val(p.s, w).shape, Zero), FALSE)
             asked == [p EXCEPT !.s = Retained(@, <<p.g[w]>>)]
             u == GradsFreed(asked)
             r == AnswerOf(p, w)
  <1>1. \/ r = [engine |-> t, ok |-> FALSE, why |-> "unsupported"]
        \/ r = [engine |-> zeros, ok |-> TRUE, why |-> "", id |-> Newest(zeros)]
        \/ w \in DOMAIN p.g /\ r = [engine |-> u, ok |-> TRUE, why |-> "", id |-> p.g[w]]
    BY DEF AnswerOf, Failed
  <1> HIDE DEF r
  <1>2. Frees(b, m, t)
    BY GradsFreedIs
  <1> HIDE DEF t
  <1>3. Frees(Plus(b, Newest(zeros)), m, zeros) /\ Newest(zeros) \in Ids(zeros)
    <2> DEFINE z == zeros
    <2>1. Grown(t, z)
      <3>1. IsEngine(t)
        BY <1>2 DEF Frees
      <3> QED BY <3>1, MadeGrown
    <2> HIDE DEF z
    <2>2. Frees(Plus(b, Newest(z)), m, z) /\ Newest(z) \in Ids(z)
      BY <1>2, <2>1, GrownFrees
    <2> QED BY <2>2 DEF z
  <1> HIDE DEF zeros
  <1>4. CASE r = [engine |-> t, ok |-> FALSE, why |-> "unsupported"]
    <2>1. r.ok = FALSE /\ r.engine = t
      BY <1>4
    <2> QED BY <1>2, <2>1 DEF Answers, r
  <1>5. CASE r = [engine |-> zeros, ok |-> TRUE, why |-> "", id |-> Newest(zeros)]
    <2>1. r.ok = TRUE /\ r.engine = zeros /\ r.id = Newest(zeros)
      BY <1>5
    <2> QED BY <1>3, <2>1 DEF Answers, r
  <1>6. CASE w \in DOMAIN p.g /\ r = [engine |-> u, ok |-> TRUE, why |-> "", id |-> p.g[w]]
    <2> DEFINE x == p.g[w]
               v == Retained(p.s, <<x>>)
    <2>1. IsPass(p) /\ x \in Ids(p.s)
      BY <1>6 DEF Pass, IsPass
    <2>2. asked = [p EXCEPT !.s = v]
      OBVIOUS
    <2>3. r.ok = TRUE /\ r.engine = u /\ r.id = x
      BY <1>6
    <2> HIDE DEF x, v, asked
    <2>4. SameMap(p, asked) /\ asked.s = v
      BY <2>1, <2>2, WithEngine
    <2> DEFINE bx == Plus(b, x)
    <2>5. Pass(bx, n, m, asked) /\ bx \in [Nat -> Int]
      BY <2>1, <2>4, PassRetained, PlusPlus DEF v
    <2> HIDE DEF bx
    <2>6. Frees(bx, m, u)
      BY <2>5, GradsFreedIs
    <2>7. x \in Ids(u)
      <3>1. SameNodes(asked.s, u)
        <4>1. IsEngine(asked.s)
          BY <2>5, PassFacts DEF Pass
        <4> QED BY <4>1, GivenBackIs DEF GradsFreed
      <3>2. SameNodes(p.s, asked.s)
        <4> DEFINE ids == <<x>>
        <4>1. ids \in Seq(Ids(p.s)) /\ IsEngine(p.s)
          BY <2>1 DEF IsPass
        <4>2. v = Retained(p.s, ids)
          BY DEF v
        <4> HIDE DEF ids
        <4>3. SameNodes(p.s, v)
          BY <4>1, <4>2, RetainedIs
        <4> QED BY <2>4, <4>3
      <3> QED BY <2>1, <3>1, <3>2 DEF SameNodes, Ids
    <2> HIDE DEF u
    <2> QED BY <2>3, <2>6, <2>7 DEF Answers, r, bx
  <1> QED BY <1>1, <1>4, <1>5, <1>6

\* t has one frame more than e.
Above(e, t) ==
    /\ IsEngine(t) /\ Len(t.heap) = Len(e.heap) /\ Len(t.frames) = Len(e.frames) + 1
    /\ \A i \in Ids(e) : Spare(t, i) >= Spare(e, i)

LEMMA FramePushed ==
    ASSUME NEW e, IsEngine(e), NEW level, NEW t, t = [e EXCEPT !.frames = Append(e.frames, Frame(level))]
    PROVE  Above(e, t)
  <1> DEFINE f == Frame(level)
             n == Len(e.frames)
             more == Append(e.frames, f)
  <1>1. f.nodes = <<>> /\ f = [nodes |-> f.nodes, level |-> f.level, frozen |-> f.frozen]
    BY DEF Frame
  <1>2. t = [e EXCEPT !.frames = more]
    OBVIOUS
  <1> HIDE DEF f
  <1>3. NodesOver(f.nodes, Ids(e)) /\ Len(f.nodes) = 0
    <2>1. <<>> \in Seq({}) /\ Len(<<>>) = 0
      OBVIOUS
    <2>2. IsSeq(<<>>)
      BY <2>1, SeqOver
    <2> QED BY <1>1, <2>1, <2>2 DEF NodesOver
  <1>4. IsFrame(f)
    BY <1>1, <1>3 DEF IsFrame
  <1>5. \A i : FramesOver(more, Ids(e)) /\ FramesOcc(more, i) = FramesOcc(e.frames, i) + Occ(NamesOf(f.nodes), i)
    <2>1. FramesOver(e.frames, Ids(e))
      BY DEF IsEngine
    <2> QED BY <1>3, <2>1, FramesPush
  <1>6. \A i : Occ(NamesOf(f.nodes), i) = 0
    <2>1. NamesOf(f.nodes) = <<>> /\ NamesOf(f.nodes) \in Seq(Ids(e))
      BY <1>1, <1>3, NamesType
    <2> QED BY <2>1, OccType
  <1>7. /\ n \in Nat /\ Len(more) = n + 1 /\ more[n + 1] = f
        /\ \A k \in 1 .. n : more[k] = e.frames[k]
    BY SeqAppend, SeqFacts DEF IsEngine, FramesOver
  <1> HIDE DEF more
  <1>8. t.heap = e.heap /\ t.tape = e.tape /\ t.pseudo = e.pseudo /\ t.frames = more /\ IsRecord(t)
    BY <1>2 DEF IsEngine, IsRecord
  <1>9. Ids(t) = Ids(e)
    BY <1>8 DEF Ids
  <1>10. \A k \in 1 .. n + 1 : IsFrame(more[k])
    <2>1. \A k \in 1 .. n : IsFrame(e.frames[k])
      BY DEF IsEngine
    <2> HIDE DEF n
    <2>2. \A k \in 1 .. n + 1 : k = n + 1 \/ k \in 1 .. n
      BY <1>7
    <2> QED BY <1>4, <1>7, <2>1, <2>2
  <1>11. IsEngine(t)
    BY <1>5, <1>7, <1>8, <1>9, <1>10 DEF IsEngine
  <1>12. ASSUME NEW i \in Ids(e) PROVE Spare(t, i) >= Spare(e, i)
    <2>1. FramesOcc(more, i) = FramesOcc(e.frames, i)
      <3>1. FramesOcc(e.frames, i) \in Nat
        BY EngineFacts
      <3> QED BY <1>5, <1>6, <3>1
    <2>2. Accounted(t, i) = Accounted(e, i)
      BY <1>8, <2>1 DEF Accounted
    <2>3. Spare(t, i) = Spare(e, i)
      BY <1>8, <1>9, <2>2 DEF Spare
    <2>4. Spare(e, i) \in Int
      BY EngineFacts
    <2> QED BY <2>3, <2>4
  <1> QED BY <1>7, <1>8, <1>11, <1>12 DEF Above

\* The frames of a pass are frozen under a new one.
LEMMA PushedIs ==
    ASSUME NEW e, IsEngine(e), e.frames # <<>>, NEW level,
           NEW t, t = [e EXCEPT !.frames = Append([@ EXCEPT ![Len(e.frames)].frozen = TRUE], Frame(level))]
    PROVE  Above(e, t)
  <1> DEFINE top == Len(e.frames)
             u == [e EXCEPT !.frames[top].frozen = TRUE]
  <1>1. top \in 1 .. Len(e.frames)
    <2>1. IsSeq(e.frames)
      BY DEF IsEngine, FramesOver
    <2>2. top \in Nat /\ top # 0
      BY <2>1, SeqFacts
    <2> HIDE DEF top
    <2>3. top \in 1 .. top
      BY <2>2
    <2> QED BY <2>3 DEF top
  <1>2. Kept(e, u)
    <2> DEFINE v == u
    <2>1. v = [e EXCEPT !.frames[top].frozen = TRUE]
      OBVIOUS
    <2> HIDE DEF v, top
    <2>2. Kept(e, v)
      BY <1>1, <2>1, FrozenIs
    <2> QED BY <2>2 DEF v
  <1>3. t = [u EXCEPT !.frames = Append(u.frames, Frame(level))]
    <2> DEFINE frames == [e.frames EXCEPT ![top].frozen = TRUE]
    <2>1. u = [e EXCEPT !.frames = frames] /\ t = [e EXCEPT !.frames = Append(frames, Frame(level))]
      OBVIOUS
    <2> HIDE DEF u, frames
    <2>2. e = [heap |-> e.heap, tape |-> e.tape, pseudo |-> e.pseudo, frames |-> e.frames]
      BY DEF IsEngine, IsRecord
    <2>3. u = [heap |-> e.heap, tape |-> e.tape, pseudo |-> e.pseudo, frames |-> frames]
      BY <2>1, <2>2
    <2>4. u.frames = frames
      BY <2>3
    <2> QED BY <2>1, <2>2, <2>3, <2>4
  <1>4. IsEngine(u) /\ Len(u.heap) = Len(e.heap) /\ Len(u.frames) = Len(e.frames) /\ Ids(u) = Ids(e)
    BY <1>2 DEF Kept, Ids
  <1> HIDE DEF u
  <1>5. Above(u, t)
    BY <1>3, <1>4, FramePushed
  <1>6. ASSUME NEW i \in Ids(e) PROVE Spare(t, i) >= Spare(e, i)
    <2>1. Spare(t, i) >= Spare(u, i) /\ Spare(u, i) >= Spare(e, i)
      BY <1>2, <1>4, <1>5 DEF Kept, Above
    <2>2. Spare(t, i) \in Int /\ Spare(u, i) \in Int /\ Spare(e, i) \in Int
      BY <1>4, <1>5, EngineFacts DEF Above
    <2> QED BY <2>1, <2>2
  <1> QED BY <1>4, <1>5, <1>6 DEF Above

LEMMA SeededIs ==
    ASSUME NEW b \in [Nat -> Int], NEW e, IsEngine(e), NEW root,
           \A i \in Nat : Spare(e, i) >= b[i] + OneAt(Newest(e), i), Newest(e) \in Ids(e),
           NEW m \in Nat, m <= Len(e.heap)
    PROVE  Pass(b, Len(e.frames), m, Seeded(e, root))
  <1> DEFINE x == Newest(e)
             g == [i \in {root} |-> x]
             names == [i \in {} |-> 0]
             p == Seeded(e, root)
  <1>1. p = [s |-> e, g |-> g, ok |-> TRUE, names |-> names, kept |-> <<>>]
    BY DEF Seeded
  <1> HIDE DEF p
  <1>2. p.s = e /\ p.g = g /\ p.ok = TRUE /\ p.names = names /\ p.kept = <<>>
    BY <1>1
  <1>3. DOMAIN g = {root} /\ g[root] = x /\ DOMAIN names = {}
    OBVIOUS
  <1> HIDE DEF g, names
  <1>4. IsFiniteSet({root})
    BY FS_Singleton
  <1>5. IsPass(p)
    <2>1. <<>> \in Seq(Ids(e))
      OBVIOUS
    <2>2. \A j \in DOMAIN g : g[j] \in Ids(e)
      BY <1>3
    <2>3. p = [s |-> p.s, g |-> p.g, ok |-> p.ok, names |-> p.names, kept |-> p.kept]
      BY <1>1, <1>2
    <2> QED BY <1>2, <1>3, <1>4, <2>1, <2>2, <2>3 DEF IsPass
  <1>6. ASSUME NEW i \in Nat PROVE Owned(p, i) >= b[i]
    <2>1. GradsAt(g, i) = OneAt(x, i)
      <3>1. {j \in DOMAIN g : g[j] = i} = IF x = i THEN {root} ELSE {}
        BY <1>3
      <3>2. Cardinality({root}) = 1 /\ Cardinality({}) = 0
        BY FS_Singleton, FS_EmptySet
      <3> QED BY <3>1, <3>2 DEF GradsAt, OneAt
    <2>2. Occ(<<>>, i) = 0
      <3>1. <<>> \in Seq({})
        OBVIOUS
      <3> QED BY <3>1, OccType
    <2>3. Owned(p, i) = Spare(e, i) - OneAt(x, i) - 0
      BY <1>2, <2>1, <2>2 DEF Owned
    <2>4. Spare(e, i) >= b[i] + OneAt(x, i) /\ Spare(e, i) \in Int /\ b[i] \in Int
      BY EngineFacts
    <2>5. OneAt(x, i) \in Int
      BY DEF OneAt
    <2> HIDE DEF x
    <2> QED BY <2>3, <2>4, <2>5
  <1> QED BY <1>2, <1>5, <1>6 DEF Pass, p

\* GRAD_HO.
LEMMA HigherDifferentiatedIs ==
    ASSUME NEW e, IsEngine(e), NEW w, NEW b, b = [i \in Nat |-> Spare(e, i)]
    PROVE  Answers(b, Len(e.heap), HigherDifferentiated(e, w))
  <1> DEFINE top == Len(e.frames)
             root == e.frames[top].nodes[Len(e.frames[top].nodes)].out
             level == e.frames[top].level + 1
             pushed == [e EXCEPT !.frames = Append([@ EXCEPT ![top].frozen = TRUE], Frame(level))]
             seed == Filled(Val(e, root).shape, One)
             made == Made(pushed, seed, FALSE)
             m == Len(e.heap)
             r == HigherDifferentiated(e, w)
  <1>1. b \in [Nat -> Int] /\ m \in Nat /\ top \in Nat
    BY EngineFacts
  <1>2. \/ \E why : r = Failed(e, why)
        \/ e.frames # <<>> /\ r = AnswerOf(FramesBack(Seeded(made, root), top), w)
    BY DEF HigherDifferentiated
  <1> HIDE DEF r, root, level, seed
  <1>3. CASE \E why : r = Failed(e, why)
    <2>1. r.ok = FALSE /\ r.engine = e
      BY <1>3 DEF Failed
    <2>2. Frees(b, m, e)
      <3>1. \A i \in Nat : Spare(e, i) >= b[i]
        BY EngineFacts
      <3>2. m <= m
        BY <1>1
      <3> QED BY <3>1, <3>2 DEF Frees
    <2> QED BY <2>1, <2>2 DEF Answers, r
  <1>4. CASE e.frames # <<>> /\ r = AnswerOf(FramesBack(Seeded(made, root), top), w)
    <2>1. /\ IsEngine(pushed) /\ Len(pushed.heap) = m /\ Len(pushed.frames) = top + 1
          /\ \A i \in Ids(e) : Spare(pushed, i) >= Spare(e, i)
      <3> DEFINE t == pushed
      <3>1. t = [e EXCEPT !.frames = Append([@ EXCEPT ![Len(e.frames)].frozen = TRUE], Frame(level))]
        OBVIOUS
      <3> HIDE DEF t
      <3>2. Above(e, t)
        BY <1>4, <3>1, PushedIs
      <3> QED BY <3>2 DEF t, Above
    <2> HIDE DEF pushed
    <2>2. Grown(pushed, made)
      BY <2>1, MadeGrown
    <2> HIDE DEF made
    <2>3. IsEngine(made) /\ Len(made.heap) = m + 1 /\ Len(made.frames) = top + 1 /\ Newest(made) \in Ids(made)
      BY <2>1, <2>2, GrownNoLess DEF Grown
    <2>4. ASSUME NEW i \in Nat PROVE Spare(made, i) >= b[i] + OneAt(Newest(made), i)
      <3>1. Spare(made, i) \in Int /\ Spare(pushed, i) \in Int /\ Spare(e, i) \in Int
        BY <2>1, <2>3, EngineFacts
      <3>5. OneAt(Newest(made), i) \in Int
        BY DEF OneAt
      <3>2. Spare(pushed, i) >= Spare(e, i)
        <4>1. CASE i \in Ids(e)
          BY <2>1, <4>1
        <4>2. CASE i \notin Ids(e)
          <5>1. Ids(pushed) = Ids(e)
            BY <2>1 DEF Ids
          <5>2. Spare(pushed, i) = 0 /\ Spare(e, i) = 0
            BY <4>2, <5>1 DEF Spare
          <5> QED BY <5>2
        <4> QED BY <4>1, <4>2
      <3>3. Spare(made, i) >= Spare(pushed, i) + OneAt(Newest(made), i)
        <4>1. CASE i \in Ids(made)
          BY <2>2, <4>1 DEF Grown
        <4>2. CASE i \notin Ids(made)
          <5>1. Ids(pushed) \subseteq Ids(made)
            BY <2>1, <2>2, GrownNoLess
          <5>2. Spare(made, i) = 0 /\ Spare(pushed, i) = 0 /\ OneAt(Newest(made), i) = 0
            BY <2>3, <4>2, <5>1 DEF Spare, OneAt
          <5> QED BY <5>2
        <4> QED BY <4>1, <4>2
      <3>4. b[i] = Spare(e, i)
        OBVIOUS
      <3> QED BY <3>1, <3>2, <3>3, <3>4, <3>5
    <2> DEFINE p == Seeded(made, root)
               c == Len(made.frames)
    <2>5. Pass(b, c, m, p)
      <3>1. m <= Len(made.heap)
        <4> HIDE DEF m
        <4> QED BY <1>1, <2>3
      <3> HIDE DEF m
      <3> QED BY <1>1, <2>3, <2>4, <3>1, SeededIs
    <2>6. c \in Nat /\ top <= c
      <3> HIDE DEF top
      <3> QED BY <1>1, <2>3
    <2> HIDE DEF p, c, top, m
    <2> DEFINE q == FramesBack(p, top)
    <2>7. Pass(b, c, m, q)
      BY <1>1, <2>5, <2>6, FramesBackIs
    <2>8. r = AnswerOf(q, w)
      BY <1>4 DEF p
    <2> HIDE DEF q
    <2> QED BY <1>1, <2>7, <2>8, AnswerOfIs DEF r, m
  <1> QED BY <1>2, <1>3, <1>4

----------------------------------------------------------------------------
(* The clear of both engines *)

\* The loop of plant_tape_clear_both over the frames of the engine e.
OverLoop(e, t, c, f) ==
    f = [k \in 0 .. c |-> IF k = 0 THEN t ELSE Released(f[k - 1], NamesOf(e.frames[k].nodes))]
\* What it comes to.
FramesReleased(e, t) ==
    LET names(f) == NamesOf(e.frames[f].nodes)
        over[f \in 0 .. Len(e.frames)] == IF f = 0 THEN t ELSE Released(over[f - 1], names(f))
    IN over[Len(e.frames)]

LEMMA OverTurns ==
    ASSUME NEW e, NEW t, NEW n \in Nat, n = Len(e.frames)
    PROVE  \E f : OverLoop(e, t, n, f) /\ FramesReleased(e, t) = f[n]
  <1> DEFINE T == {c \in Nat : \E f : OverLoop(e, t, c, f)}
  <1>1. 0 \in T
    <2> DEFINE f == [k \in 0 .. 0 |-> t]
    <2>1. \A k \in 0 .. 0 : f[k] = IF k = 0 THEN t ELSE Released(f[k - 1], NamesOf(e.frames[k].nodes))
      OBVIOUS
    <2>2. f = [k \in 0 .. 0 |-> f[k]]
      OBVIOUS
    <2> HIDE DEF f
    <2>3. OverLoop(e, t, 0, f)
      BY <2>1, <2>2 DEF OverLoop
    <2> QED BY <2>3
  <1>2. ASSUME NEW c \in Nat, c \in T PROVE c + 1 \in T
    <2>1. PICK f : OverLoop(e, t, c, f)
      BY <1>2
    <2> DEFINE x == Released(f[c], NamesOf(e.frames[c + 1].nodes))
               g == [k \in 0 .. c + 1 |-> IF k = c + 1 THEN x ELSE f[k]]
    <2>2. \A k \in 0 .. c : f[k] = IF k = 0 THEN t ELSE Released(f[k - 1], NamesOf(e.frames[k].nodes))
      BY <2>1 DEF OverLoop
    <2>3. ASSUME NEW k \in 0 .. c + 1
          PROVE  g[k] = IF k = 0 THEN t ELSE Released(g[k - 1], NamesOf(e.frames[k].nodes))
      <3>1. CASE k = c + 1
        <4>1. g[k] = x /\ k # 0 /\ k - 1 = c /\ c \in 0 .. c + 1 /\ c # c + 1
          BY <3>1
        <4>2. g[k - 1] = f[c]
          BY <4>1
        <4> HIDE DEF g
        <4> QED BY <3>1, <4>1, <4>2
      <3>2. CASE k # c + 1
        <4>1. k \in 0 .. c /\ g[k] = f[k]
          BY <3>2
        <4>2. k # 0 => g[k - 1] = f[k - 1]
          BY <4>1
        <4> HIDE DEF g
        <4> QED BY <2>2, <4>1, <4>2
      <3> QED BY <3>1, <3>2
    <2>4. g = [k \in 0 .. c + 1 |-> g[k]]
      OBVIOUS
    <2> HIDE DEF g
    <2>5. OverLoop(e, t, c + 1, g)
      BY <2>3, <2>4 DEF OverLoop
    <2> QED BY <2>5
  <1>3. Nat \subseteq T
    <2> HIDE DEF T
    <2> QED BY <1>1, <1>2, InductiveSet
  <1>4. \E f : OverLoop(e, t, n, f)
    BY <1>3
  <1> DEFINE C == CHOOSE f : OverLoop(e, t, n, f)
  <1>5. FramesReleased(e, t) = C[n]
    BY DEF FramesReleased, OverLoop
  <1>6. OverLoop(e, t, n, C)
    BY <1>4
  <1> HIDE DEF C
  <1> QED BY <1>5, <1>6

LEMMA FramesReleasedIs ==
    ASSUME NEW e, IsEngine(e), NEW t, IsEngine(t), Len(t.heap) = Len(e.heap), t.frames = e.frames
    PROVE  /\ SameNodes(t, FramesReleased(e, t))
           /\ \A i \in Ids(e) : Spare(FramesReleased(e, t), i) = Spare(t, i) - FramesOcc(e.frames, i)
  <1> DEFINE n == Len(e.frames)
             names(k) == NamesOf(e.frames[k].nodes)
  <1>1. n \in Nat /\ FramesOver(e.frames, Ids(e)) /\ Ids(t) = Ids(e)
    BY EngineFacts DEF IsEngine, Ids
  <1>2. PICK f : OverLoop(e, t, n, f) /\ FramesReleased(e, t) = f[n]
    BY <1>1, OverTurns
  <1>3. \A k \in 0 .. n : f[k] = IF k = 0 THEN t ELSE Released(f[k - 1], names(k))
    BY <1>2 DEF OverLoop
  <1>4. \A k \in 1 .. n : names(k) \in Seq(Ids(e))
    BY <1>1, NamesType DEF FramesOver
  <1> HIDE DEF n, names
  <1> DEFINE T == {k \in Nat : k <= n => SameNodes(t, f[k])}
  <1>5. 0 \in T
    <2>1. f[0] = t
      BY <1>1, <1>3
    <2>2. SameNodes(t, t)
      BY DEF SameNodes
    <2> QED BY <2>1, <2>2
  <1>6. ASSUME NEW k \in Nat, k \in T, k + 1 <= n
        PROVE  /\ SameNodes(t, f[k + 1])
               /\ \A i \in Ids(e) : Spare(f[k + 1], i) = Spare(f[k], i) - Occ(names(k + 1), i)
    <2>1. k + 1 \in 1 .. n /\ k + 1 \in 0 .. n /\ k + 1 # 0 /\ (k + 1) - 1 = k /\ k <= n
      BY <1>1, <1>6
    <2>2. f[k + 1] = Released(f[k], names(k + 1))
      BY <1>3, <2>1
    <2>3. SameNodes(t, f[k])
      BY <1>6, <2>1
    <2>4. IsEngine(f[k]) /\ Ids(f[k]) = Ids(e)
      BY <1>1, <2>3 DEF SameNodes, Ids
    <2> DEFINE ids == names(k + 1)
               u == f[k]
    <2>5. ids \in Seq(Ids(u)) /\ IsEngine(u)
      BY <1>4, <2>1, <2>4
    <2> HIDE DEF ids, u
    <2>6. /\ SameNodes(u, Released(u, ids))
          /\ \A i \in Ids(u) : Spare(Released(u, ids), i) = Spare(u, i) - Occ(ids, i)
      BY <2>5, ReleasedIs
    <2>7. f[k + 1] = Released(u, ids)
      BY <2>2 DEF u, ids
    <2>8. SameNodes(t, f[k + 1])
      BY <2>3, <2>6, <2>7 DEF SameNodes, u
    <2>9. \A i \in Ids(e) : Spare(f[k + 1], i) = Spare(u, i) - Occ(ids, i)
      BY <2>4, <2>6, <2>7 DEF u
    <2> QED BY <2>8, <2>9 DEF u, ids
  <1>7. Nat \subseteq T
    <2>1. ASSUME NEW k \in Nat, k \in T PROVE k + 1 \in T
      BY <1>6, <2>1
    <2> HIDE DEF T
    <2> QED BY <1>5, <2>1, InductiveSet
  <1>8. SameNodes(t, f[n])
    BY <1>1, <1>7
  <1>9. ASSUME NEW i \in Ids(e) PROVE Spare(f[n], i) = Spare(t, i) - FramesOcc(e.frames, i)
    <2>1. PICK C : /\ FramesLoop(e.frames, i, C) /\ FramesOcc(e.frames, i) = C[n]
                   /\ \A k \in 0 .. n : C[k] \in Nat
      BY <1>1, FramesTurns DEF n
    <2>2. \A k \in 0 .. n : C[k] = IF k = 0 THEN 0 ELSE C[k - 1] + Occ(names(k), i)
      BY <2>1 DEF FramesLoop, n, names
    <2> DEFINE U == {k \in Nat : k <= n => Spare(f[k], i) = Spare(t, i) - C[k]}
    <2>3. Spare(t, i) \in Int
      BY EngineFacts
    <2>4. 0 \in U
      <3>1. f[0] = t /\ C[0] = 0
        BY <1>1, <1>3, <2>2
      <3> QED BY <2>3, <3>1
    <2>5. ASSUME NEW k \in Nat, k \in U PROVE k + 1 \in U
      <3> SUFFICES ASSUME k + 1 <= n PROVE Spare(f[k + 1], i) = Spare(t, i) - C[k + 1]
        OBVIOUS
      <3>1. k + 1 \in 1 .. n /\ k + 1 \in 0 .. n /\ k + 1 # 0 /\ (k + 1) - 1 = k /\ k \in 0 .. n /\ k <= n
        BY <1>1
      <3>2. Spare(f[k], i) = Spare(t, i) - C[k]
        BY <2>5, <3>1
      <3>3. k \in T
        BY <1>7
      <3> HIDE DEF T, U
      <3>4. Spare(f[k + 1], i) = Spare(f[k], i) - Occ(names(k + 1), i)
        BY <1>6, <3>3
      <3>5. C[k + 1] = C[k] + Occ(names(k + 1), i) /\ C[k] \in Nat
        BY <2>1, <2>2, <3>1
      <3>6. Occ(names(k + 1), i) \in Nat
        BY <1>4, <3>1, OccType
      <3> QED BY <2>3, <3>2, <3>4, <3>5, <3>6
    <2>6. Nat \subseteq U
      <3> HIDE DEF U
      <3> QED BY <2>4, <2>5, InductiveSet
    <2>7. Spare(f[n], i) = Spare(t, i) - C[n]
      BY <1>1, <2>6
    <2> QED BY <2>1, <2>7
  <1> QED BY <1>2, <1>8, <1>9

LEMMA UnframedIs ==
    ASSUME NEW e, IsEngine(e), NEW t, t = [e EXCEPT !.frames = <<>>]
    PROVE  /\ IsEngine(t) /\ Len(t.heap) = Len(e.heap)
           /\ \A i \in Ids(e) : Spare(t, i) = Spare(e, i) + FramesOcc(e.frames, i)
  <1>1. t.heap = e.heap /\ t.tape = e.tape /\ t.pseudo = e.pseudo /\ t.frames = <<>> /\ IsRecord(t)
    BY DEF IsEngine, IsRecord
  <1>2. Ids(t) = Ids(e)
    BY <1>1 DEF Ids
  <1>3. FramesOver(<<>>, Ids(e)) /\ Len(<<>>) = 0
    <2>1. <<>> \in Seq({}) /\ Len(<<>>) = 0
      OBVIOUS
    <2>2. IsSeq(<<>>)
      BY <2>1, SeqOver
    <2> QED BY <2>1, <2>2 DEF FramesOver
  <1>4. IsEngine(t)
    BY <1>1, <1>2, <1>3 DEF IsEngine
  <1>5. ASSUME NEW i \in Ids(e) PROVE Spare(t, i) = Spare(e, i) + FramesOcc(e.frames, i)
    <2> DEFINE a == FramesOcc(e.frames, i)
    <2>1. a \in Int /\ OneIn(i, e.pseudo) \in Int /\ Occ(NamesOf(e.tape), i) \in Int /\ Spare(e, i) \in Int
      BY EngineFacts DEF OneIn
    <2>2. FramesOcc(<<>>, i) = 0
      BY <1>3, FramesOccType
    <2>3. /\ Accounted(t, i) = OneIn(i, e.pseudo) + Occ(NamesOf(e.tape), i)
          /\ Accounted(e, i) = OneIn(i, e.pseudo) + Occ(NamesOf(e.tape), i) + a
      <3>1. FramesOcc(t.frames, i) = 0
        BY <1>1, <2>2
      <3> HIDE DEF a
      <3>2. Accounted(t, i) = OneIn(i, e.pseudo) + Occ(NamesOf(e.tape), i) + 0
        BY <1>1, <3>1 DEF Accounted
      <3> QED BY <2>1, <3>2 DEF Accounted, a
    <2> HIDE DEF a
    <2>4. -a \in Int /\ Accounted(t, i) = Accounted(e, i) + (-a)
      BY <2>1, <2>3
    <2> DEFINE d == -a
    <2>5. d \in Int /\ Accounted(t, i) = Accounted(e, i) + d
      BY <2>4
    <2>6. d = -a
      OBVIOUS
    <2> HIDE DEF d
    <2>7. Spare(t, i) = Spare(e, i) - d
      <3>1. t.heap = e.heap
        BY <1>1
      <3> QED BY <2>5, <3>1, SpareShift
    <2>8. Spare(t, i) = Spare(e, i) + a
      BY <2>1, <2>6, <2>7
    <2> QED BY <2>8 DEF a
  <1> QED BY <1>1, <1>4, <1>5

----------------------------------------------------------------------------
(* What every operation leaves *)

Floor(e) == [i \in Nat |-> Spare(e, i)]

LEMMA FloorFrees ==
    ASSUME NEW e, IsEngine(e)
    PROVE  Floor(e) \in [Nat -> Int] /\ Frees(Floor(e), Len(e.heap), e)
  <1>1. \A i : Spare(e, i) \in Int /\ Len(e.heap) \in Nat
    BY EngineFacts
  <1>2. Floor(e) \in [Nat -> Int] /\ \A i \in Nat : Floor(e)[i] = Spare(e, i)
    BY <1>1 DEF Floor
  <1>3. \A i \in Nat : Spare(e, i) >= Floor(e)[i]
    BY <1>1, <1>2
  <1>4. Len(e.heap) <= Len(e.heap)
    BY <1>1
  <1> QED BY <1>2, <1>3, <1>4 DEF Frees

LEMMA NoLessFrees ==
    ASSUME NEW e, IsEngine(e), NEW t, IsEngine(t), Len(t.heap) >= Len(e.heap),
           \A i \in Ids(t) : Spare(t, i) >= Spare(e, i)
    PROVE  Frees(Floor(e), Len(e.heap), t)
  <1>1. Len(e.heap) \in Nat /\ Len(t.heap) \in Nat
    BY EngineFacts
  <1>2. Len(e.heap) <= Len(t.heap) /\ Ids(e) \subseteq Ids(t)
    <2> DEFINE a == Len(e.heap)
               c == Len(t.heap)
    <2>1. a \in Nat /\ c \in Nat /\ c >= a
      BY <1>1
    <2> HIDE DEF a, c
    <2>2. a <= c /\ 1 .. a \subseteq 1 .. c
      BY <2>1
    <2> QED BY <2>2 DEF Ids, a, c
  <1>3. ASSUME NEW i \in Nat PROVE Spare(t, i) >= Floor(e)[i]
    <2>1. Floor(e)[i] = Spare(e, i)
      BY DEF Floor
    <2>2. CASE i \in Ids(t)
      BY <2>1, <2>2
    <2>3. CASE i \notin Ids(t)
      <3>1. Spare(t, i) = 0 /\ Spare(e, i) = 0
        BY <1>2, <2>3 DEF Spare
      <3> QED BY <2>1, <3>1
    <2> QED BY <2>2, <2>3
  <1> QED BY <1>2, <1>3 DEF Frees

\* TAPE_CLEAR.
LEMMA ClearedBothIs ==
    ASSUME NEW e, IsEngine(e)
    PROVE  Frees(Floor(e), Len(e.heap), ClearedBoth(e))
  <1> DEFINE t == Cleared(e)
             u == FramesReleased(e, t)
             v == [u EXCEPT !.frames = <<>>]
  <1>1. ClearedBoth(e) = v
    BY DEF ClearedBoth, FramesReleased
  <1>2. Kept(e, t) /\ t.frames = e.frames
    BY ClearedIs
  <1> HIDE DEF t
  <1>3. IsEngine(t) /\ Len(t.heap) = Len(e.heap) /\ Ids(t) = Ids(e)
    BY <1>2 DEF Kept, Ids
  <1>4. /\ SameNodes(t, u)
        /\ \A i \in Ids(e) : Spare(u, i) = Spare(t, i) - FramesOcc(e.frames, i)
    BY <1>2, <1>3, FramesReleasedIs
  <1> HIDE DEF u
  <1>5. IsEngine(u) /\ Ids(u) = Ids(e) /\ u.frames = e.frames /\ Len(u.heap) = Len(e.heap)
    BY <1>2, <1>3, <1>4 DEF SameNodes, Ids
  <1>6. v = [u EXCEPT !.frames = <<>>]
    OBVIOUS
  <1> HIDE DEF v
  <1>7. IsEngine(v) /\ Len(v.heap) = Len(u.heap)
    BY <1>5, <1>6, UnframedIs
  <1>8. \A i \in Ids(u) : Spare(v, i) = Spare(u, i) + FramesOcc(u.frames, i)
    BY <1>5, <1>6, UnframedIs
  <1>9. Ids(v) = Ids(e)
    BY <1>5, <1>7 DEF Ids
  <1>10. ASSUME NEW i \in Ids(v) PROVE Spare(v, i) >= Spare(e, i)
    <2>1. Spare(v, i) = Spare(u, i) + FramesOcc(e.frames, i)
      BY <1>5, <1>8, <1>9
    <2>2. Spare(u, i) = Spare(t, i) - FramesOcc(e.frames, i)
      BY <1>4, <1>9
    <2>3. Spare(t, i) >= Spare(e, i)
      BY <1>2, <1>9 DEF Kept
    <2>4. Spare(t, i) \in Int
      BY <1>3, EngineFacts
    <2>5. Spare(e, i) \in Int /\ FramesOcc(e.frames, i) \in Nat
      BY EngineFacts
    <2> QED BY <2>1, <2>2, <2>3, <2>4, <2>5
  <1>11. Len(v.heap) >= Len(e.heap)
    <2>1. Len(e.heap) \in Nat
      BY EngineFacts
    <2> QED BY <1>5, <1>7, <2>1
  <1> QED BY <1>1, <1>7, <1>10, <1>11, NoLessFrees

----------------------------------------------------------------------------
(* The program and the engine *)

\* The references of the program are spare ones.
Holds(e, H) == IsEngine(e) /\ H \subseteq Ids(e) /\ \A i \in Ids(e) : Spare(e, i) >= OneIn(i, H)

LEMMA FreesIds ==
    ASSUME NEW e, IsEngine(e), NEW b, NEW t, Frees(b, Len(e.heap), t)
    PROVE  IsEngine(t) /\ Ids(e) \subseteq Ids(t) /\ Ids(t) \subseteq Nat
  <1> DEFINE a == Len(e.heap)
             c == Len(t.heap)
  <1>1. a \in Nat /\ c \in Nat /\ a <= c
    BY EngineFacts DEF Frees
  <1> HIDE DEF a, c
  <1>2. 1 .. a \subseteq 1 .. c /\ 1 .. c \subseteq Nat
    BY <1>1
  <1> QED BY <1>2 DEF Ids, Frees, a, c

LEMMA HoldsKept ==
    ASSUME NEW e, NEW H, Holds(e, H), NEW t, Frees(Floor(e), Len(e.heap), t)
    PROVE  Holds(t, H)
  <1>1. IsEngine(e) /\ IsEngine(t) /\ Ids(e) \subseteq Ids(t) /\ Ids(t) \subseteq Nat
    BY FreesIds DEF Holds
  <1>2. ASSUME NEW i \in Ids(t) PROVE Spare(t, i) >= OneIn(i, H)
    <2>1. Spare(t, i) >= Floor(e)[i] /\ Floor(e)[i] = Spare(e, i)
      BY <1>1 DEF Frees, Floor
    <2>2. Spare(t, i) \in Int /\ Spare(e, i) \in Int
      BY <1>1, EngineFacts
    <2>3. OneIn(i, H) \in Int
      BY DEF OneIn
    <2>4. Spare(e, i) >= OneIn(i, H)
      <3>1. CASE i \in Ids(e)
        BY <3>1 DEF Holds
      <3>2. CASE i \notin Ids(e)
        <4>1. Spare(e, i) = 0 /\ OneIn(i, H) = 0
          BY <3>2 DEF Spare, OneIn, Holds
        <4> QED BY <4>1
      <3> QED BY <3>1, <3>2
    <2> QED BY <2>1, <2>2, <2>3, <2>4
  <1>3. H \subseteq Ids(t)
    BY <1>1 DEF Holds
  <1> QED BY <1>1, <1>2, <1>3 DEF Holds

LEMMA HoldsMore ==
    ASSUME NEW e, NEW H, Holds(e, H), NEW x, NEW t, Frees(Plus(Floor(e), x), Len(e.heap), t), x \in Ids(t)
    PROVE  Holds(t, H \union {x})
  <1> DEFINE b == Plus(Floor(e), x)
  <1>1. Frees(b, Len(e.heap), t) /\ IsEngine(e)
    BY DEF Holds
  <1>2. \A i \in Nat : b[i] = Spare(e, i) + OneAt(x, i)
    BY DEF Plus, Floor
  <1> HIDE DEF b
  <1>3. IsEngine(t) /\ Ids(e) \subseteq Ids(t) /\ Ids(t) \subseteq Nat
    BY <1>1, FreesIds
  <1>4. ASSUME NEW i \in Ids(t) PROVE Spare(t, i) >= OneIn(i, H \union {x})
    <2>1. Spare(t, i) >= b[i] /\ b[i] = Spare(e, i) + OneAt(x, i)
      BY <1>1, <1>2, <1>3 DEF Frees
    <2>2. Spare(t, i) \in Int /\ Spare(e, i) \in Int
      BY <1>1, <1>3, EngineFacts
    <2>3. OneIn(i, H \union {x}) <= OneIn(i, H) + OneAt(x, i)
      BY DEF OneIn, OneAt
    <2>4. OneIn(i, H) \in Int /\ OneAt(x, i) \in Int /\ OneIn(i, H \union {x}) \in Int
      BY DEF OneIn, OneAt
    <2>5. Spare(e, i) >= OneIn(i, H)
      <3>1. CASE i \in Ids(e)
        BY <3>1 DEF Holds
      <3>2. CASE i \notin Ids(e)
        <4>1. Spare(e, i) = 0 /\ OneIn(i, H) = 0
          BY <3>2 DEF Spare, OneIn, Holds
        <4> QED BY <4>1
      <3> QED BY <3>1, <3>2
    <2> QED BY <2>1, <2>2, <2>3, <2>4, <2>5
  <1>5. H \union {x} \subseteq Ids(t)
    BY <1>3 DEF Holds
  <1> QED BY <1>3, <1>4, <1>5 DEF Holds

LEMMA HoldsLess ==
    ASSUME NEW e, NEW H, Holds(e, H), NEW x \in H, NEW t, t = Released(e, <<x>>)
    PROVE  Holds(t, H \ {x})
  <1>1. IsEngine(e) /\ x \in Ids(e)
    BY DEF Holds
  <1>2. SameNodes(e, t) /\ \A i \in Ids(e) : Spare(t, i) = Spare(e, i) - OneAt(x, i)
    BY <1>1, ReleasedOne
  <1>3. IsEngine(t) /\ Ids(t) = Ids(e)
    BY <1>2 DEF SameNodes, Ids
  <1>4. ASSUME NEW i \in Ids(t) PROVE Spare(t, i) >= OneIn(i, H \ {x})
    <2>1. Spare(t, i) = Spare(e, i) - OneAt(x, i) /\ Spare(e, i) >= OneIn(i, H)
      BY <1>2, <1>3 DEF Holds
    <2>2. Spare(e, i) \in Int
      BY <1>1, EngineFacts
    <2>3. OneIn(i, H \ {x}) = OneIn(i, H) - OneAt(x, i)
      BY DEF OneIn, OneAt
    <2>4. OneIn(i, H) \in Int /\ OneAt(x, i) \in Int
      BY DEF OneIn, OneAt
    <2> QED BY <2>1, <2>2, <2>3, <2>4
  <1>5. H \ {x} \subseteq Ids(t)
    BY <1>3 DEF Holds
  <1> QED BY <1>3, <1>4, <1>5 DEF Holds

----------------------------------------------------------------------------
(* The holders that RefsCoverHolders counts *)

\* The loops of RefsCoverHolders, and what they come to.
TapesLoop(e, c, f) ==
    f = [k \in 0 .. c |-> IF k = 0 THEN NamesOf(e.tape) ELSE f[k - 1] \o NamesOf(e.frames[k].nodes)]
TapesNames(e) ==
    LET inFrames[f \in 0 .. Len(e.frames)] ==
            IF f = 0 THEN NamesOf(e.tape) ELSE inFrames[f - 1] \o NamesOf(e.frames[f].nodes)
    IN inFrames[Len(e.frames)]

UsesLoop(start, names, c, f) ==
    f = [k \in 0 .. c |-> IF k = 0 THEN start ELSE [f[k - 1] EXCEPT ![names[k]] = @ + 1]]
Uses(start, names) ==
    LET uses[k \in 0 .. Len(names)] == IF k = 0 THEN start ELSE [uses[k - 1] EXCEPT ![names[k]] = @ + 1]
    IN uses[Len(names)]

LEMMA TapesTurns ==
    ASSUME NEW e, NEW n \in Nat, n = Len(e.frames)
    PROVE  \E f : TapesLoop(e, n, f) /\ TapesNames(e) = f[n]
  <1> DEFINE T == {c \in Nat : \E f : TapesLoop(e, c, f)}
  <1>1. 0 \in T
    <2> DEFINE f == [k \in 0 .. 0 |-> NamesOf(e.tape)]
    <2>1. \A k \in 0 .. 0 : f[k] = IF k = 0 THEN NamesOf(e.tape) ELSE f[k - 1] \o NamesOf(e.frames[k].nodes)
      OBVIOUS
    <2>2. f = [k \in 0 .. 0 |-> f[k]]
      OBVIOUS
    <2> HIDE DEF f
    <2>3. TapesLoop(e, 0, f)
      BY <2>1, <2>2 DEF TapesLoop
    <2> QED BY <2>3
  <1>2. ASSUME NEW c \in Nat, c \in T PROVE c + 1 \in T
    <2>1. PICK f : TapesLoop(e, c, f)
      BY <1>2
    <2> DEFINE x == f[c] \o NamesOf(e.frames[c + 1].nodes)
               g == [k \in 0 .. c + 1 |-> IF k = c + 1 THEN x ELSE f[k]]
    <2>2. \A k \in 0 .. c : f[k] = IF k = 0 THEN NamesOf(e.tape) ELSE f[k - 1] \o NamesOf(e.frames[k].nodes)
      BY <2>1 DEF TapesLoop
    <2>3. ASSUME NEW k \in 0 .. c + 1
          PROVE  g[k] = IF k = 0 THEN NamesOf(e.tape) ELSE g[k - 1] \o NamesOf(e.frames[k].nodes)
      <3>1. CASE k = c + 1
        <4> HIDE DEF x
        <4>1. g[k] = x /\ k # 0 /\ k - 1 = c /\ c \in 0 .. c + 1 /\ c # c + 1
          BY <3>1
        <4>2. g[k - 1] = f[c]
          BY <4>1
        <4> HIDE DEF g
        <4> QED BY <3>1, <4>1, <4>2 DEF x
      <3>2. CASE k # c + 1
        <4>1. k \in 0 .. c /\ g[k] = f[k]
          BY <3>2
        <4>2. k # 0 => g[k - 1] = f[k - 1]
          BY <4>1
        <4> HIDE DEF g
        <4> QED BY <2>2, <4>1, <4>2
      <3> QED BY <3>1, <3>2
    <2>4. g = [k \in 0 .. c + 1 |-> g[k]]
      OBVIOUS
    <2> HIDE DEF g
    <2>5. TapesLoop(e, c + 1, g)
      BY <2>3, <2>4 DEF TapesLoop
    <2> QED BY <2>5
  <1>3. Nat \subseteq T
    <2> HIDE DEF T
    <2> QED BY <1>1, <1>2, InductiveSet
  <1>4. \E f : TapesLoop(e, n, f)
    BY <1>3
  <1> DEFINE C == CHOOSE f : TapesLoop(e, n, f)
  <1>5. TapesNames(e) = C[n]
    BY DEF TapesNames, TapesLoop
  <1>6. TapesLoop(e, n, C)
    BY <1>4
  <1> HIDE DEF C
  <1> QED BY <1>5, <1>6

LEMMA UsesTurns ==
    ASSUME NEW start, NEW names, NEW n \in Nat, n = Len(names)
    PROVE  \E f : UsesLoop(start, names, n, f) /\ Uses(start, names) = f[n]
  <1> DEFINE T == {c \in Nat : \E f : UsesLoop(start, names, c, f)}
  <1>1. 0 \in T
    <2> DEFINE f == [k \in 0 .. 0 |-> start]
    <2>1. \A k \in 0 .. 0 : f[k] = IF k = 0 THEN start ELSE [f[k - 1] EXCEPT ![names[k]] = @ + 1]
      OBVIOUS
    <2>2. f = [k \in 0 .. 0 |-> f[k]]
      OBVIOUS
    <2> HIDE DEF f
    <2>3. UsesLoop(start, names, 0, f)
      BY <2>1, <2>2 DEF UsesLoop
    <2> QED BY <2>3
  <1>2. ASSUME NEW c \in Nat, c \in T PROVE c + 1 \in T
    <2>1. PICK f : UsesLoop(start, names, c, f)
      BY <1>2
    <2> DEFINE x == [f[c] EXCEPT ![names[c + 1]] = @ + 1]
               g == [k \in 0 .. c + 1 |-> IF k = c + 1 THEN x ELSE f[k]]
    <2>2. \A k \in 0 .. c : f[k] = IF k = 0 THEN start ELSE [f[k - 1] EXCEPT ![names[k]] = @ + 1]
      BY <2>1 DEF UsesLoop
    <2>3. ASSUME NEW k \in 0 .. c + 1
          PROVE  g[k] = IF k = 0 THEN start ELSE [g[k - 1] EXCEPT ![names[k]] = @ + 1]
      <3>1. CASE k = c + 1
        <4>1. g[k] = x /\ k # 0 /\ k - 1 = c /\ c \in 0 .. c + 1 /\ c # c + 1
          BY <3>1
        <4>2. g[k - 1] = f[c]
          BY <4>1
        <4> HIDE DEF g
        <4> QED BY <3>1, <4>1, <4>2
      <3>2. CASE k # c + 1
        <4>1. k \in 0 .. c /\ g[k] = f[k]
          BY <3>2
        <4>2. k # 0 => g[k - 1] = f[k - 1]
          BY <4>1
        <4> HIDE DEF g
        <4> QED BY <2>2, <4>1, <4>2
      <3> QED BY <3>1, <3>2
    <2>4. g = [k \in 0 .. c + 1 |-> g[k]]
      OBVIOUS
    <2> HIDE DEF g
    <2>5. UsesLoop(start, names, c + 1, g)
      BY <2>3, <2>4 DEF UsesLoop
    <2> QED BY <2>5
  <1>3. Nat \subseteq T
    <2> HIDE DEF T
    <2> QED BY <1>1, <1>2, InductiveSet
  <1>4. \E f : UsesLoop(start, names, n, f)
    BY <1>3
  <1> DEFINE C == CHOOSE f : UsesLoop(start, names, n, f)
  <1>5. Uses(start, names) = C[n]
    BY DEF Uses, UsesLoop
  <1>6. UsesLoop(start, names, n, C)
    BY <1>4
  <1> HIDE DEF C
  <1> QED BY <1>5, <1>6

LEMMA TapesNamesIs ==
    ASSUME NEW e, IsEngine(e)
    PROVE  /\ TapesNames(e) \in Seq(Ids(e))
           /\ \A i : Occ(TapesNames(e), i) = Occ(NamesOf(e.tape), i) + FramesOcc(e.frames, i)
  <1> DEFINE n == Len(e.frames)
             S == Ids(e)
             names(k) == NamesOf(e.frames[k].nodes)
             first == NamesOf(e.tape)
  <1>1. n \in Nat /\ FramesOver(e.frames, S) /\ first \in Seq(S)
    BY EngineFacts, NamesType DEF IsEngine
  <1>2. PICK f : TapesLoop(e, n, f) /\ TapesNames(e) = f[n]
    BY <1>1, TapesTurns
  <1>3. \A k \in 0 .. n : f[k] = IF k = 0 THEN first ELSE f[k - 1] \o names(k)
    BY <1>2 DEF TapesLoop
  <1>4. \A k \in 1 .. n : names(k) \in Seq(S)
    BY <1>1, NamesType DEF FramesOver
  <1> HIDE DEF n, names, first, S
  <1> DEFINE T == {k \in Nat : k <= n => f[k] \in Seq(S)}
  <1>5. 0 \in T
    <2>1. f[0] = first
      BY <1>1, <1>3
    <2> QED BY <1>1, <2>1
  <1>6. ASSUME NEW k \in Nat, k \in T, k + 1 <= n
        PROVE  /\ f[k + 1] \in Seq(S)
               /\ \A i : Occ(f[k + 1], i) = Occ(f[k], i) + Occ(names(k + 1), i)
    <2>1. k + 1 \in 1 .. n /\ k + 1 \in 0 .. n /\ k + 1 # 0 /\ (k + 1) - 1 = k /\ k <= n
      BY <1>1, <1>6
    <2> DEFINE old == f[k]
               more == names(k + 1)
    <2>2. f[k + 1] = old \o more
      BY <1>3, <2>1
    <2>3. old \in Seq(S) /\ more \in Seq(S)
      BY <1>4, <1>6, <2>1
    <2> HIDE DEF old, more
    <2>4. old \o more \in Seq(S)
      BY <2>3, ConcatProperties
    <2>5. \A i : Occ(old \o more, i) = Occ(old, i) + Occ(more, i)
      BY <2>3, OccConcat
    <2> QED BY <2>2, <2>4, <2>5 DEF old, more
  <1>7. Nat \subseteq T
    <2>1. ASSUME NEW k \in Nat, k \in T PROVE k + 1 \in T
      BY <1>6, <2>1
    <2> HIDE DEF T
    <2> QED BY <1>5, <2>1, InductiveSet
  <1>8. f[n] \in Seq(S)
    BY <1>1, <1>7
  <1>9. ASSUME NEW i PROVE Occ(f[n], i) = Occ(first, i) + FramesOcc(e.frames, i)
    <2>1. PICK C : /\ FramesLoop(e.frames, i, C) /\ FramesOcc(e.frames, i) = C[n]
                   /\ \A k \in 0 .. n : C[k] \in Nat
      BY <1>1, FramesTurns DEF n
    <2>2. \A k \in 0 .. n : C[k] = IF k = 0 THEN 0 ELSE C[k - 1] + Occ(names(k), i)
      BY <2>1 DEF FramesLoop, n, names
    <2> DEFINE U == {k \in Nat : k <= n => Occ(f[k], i) = Occ(first, i) + C[k]}
    <2>3. Occ(first, i) \in Nat
      BY <1>1, OccType
    <2>4. 0 \in U
      <3>1. f[0] = first /\ C[0] = 0
        BY <1>1, <1>3, <2>2
      <3> QED BY <2>3, <3>1
    <2>5. ASSUME NEW k \in Nat, k \in U PROVE k + 1 \in U
      <3> SUFFICES ASSUME k + 1 <= n PROVE Occ(f[k + 1], i) = Occ(first, i) + C[k + 1]
        OBVIOUS
      <3>1. k + 1 \in 1 .. n /\ k + 1 \in 0 .. n /\ k + 1 # 0 /\ (k + 1) - 1 = k /\ k \in 0 .. n /\ k <= n
        BY <1>1
      <3>2. Occ(f[k], i) = Occ(first, i) + C[k]
        BY <2>5, <3>1
      <3>3. k \in T
        BY <1>7
      <3> HIDE DEF T, U
      <3>4. Occ(f[k + 1], i) = Occ(f[k], i) + Occ(names(k + 1), i)
        BY <1>6, <3>3
      <3>5. C[k + 1] = C[k] + Occ(names(k + 1), i) /\ C[k] \in Nat
        BY <2>1, <2>2, <3>1
      <3>6. Occ(names(k + 1), i) \in Nat
        BY <1>4, <3>1, OccType
      <3> QED BY <2>3, <3>2, <3>4, <3>5, <3>6
    <2>6. Nat \subseteq U
      <3> HIDE DEF U
      <3> QED BY <2>4, <2>5, InductiveSet
    <2>7. Occ(f[n], i) = Occ(first, i) + C[n]
      BY <1>1, <2>6
    <2> QED BY <2>1, <2>7
  <1> QED BY <1>2, <1>8, <1>9 DEF S, first

LEMMA UsesIs ==
    ASSUME NEW S, NEW start \in [S -> Int], NEW names \in Seq(S)
    PROVE  /\ Uses(start, names) \in [S -> Int]
           /\ \A i \in S : Uses(start, names)[i] = start[i] + Occ(names, i)
  <1> DEFINE n == Len(names)
  <1>1. n \in Nat /\ \A k \in 1 .. n : names[k] \in S
    BY LenProperties, ElementOfSeq
  <1>2. PICK f : UsesLoop(start, names, n, f) /\ Uses(start, names) = f[n]
    BY <1>1, UsesTurns
  <1>3. \A k \in 0 .. n : f[k] = IF k = 0 THEN start ELSE [f[k - 1] EXCEPT ![names[k]] = @ + 1]
    BY <1>2 DEF UsesLoop
  <1>4. \A i : /\ UpTo(names, 0, i) = 0 /\ \A k \in Nat : UpTo(names, k, i) \in Nat
               /\ \A k \in Nat \ {0} : UpTo(names, k, i) = UpTo(names, k - 1, i) + OneAt(names[k], i)
    BY UpToNext
  <1>5. \A i : UpTo(names, n, i) = Occ(names, i)
    BY UpToAll
  <1> HIDE DEF n
  <1> DEFINE Fits(k) == f[k] \in [S -> Int] /\ \A i \in S : f[k][i] = start[i] + UpTo(names, k, i)
             T == {k \in Nat : k <= n => Fits(k)}
  <1>6. 0 \in T
    <2>4. 0 \in 0 .. n
      BY <1>1
    <2>1. f[0] = start
      BY <1>3, <2>4
    <2>2. \A i \in S : start[i] = start[i] + UpTo(names, 0, i)
      BY <1>4
    <2>3. Fits(0)
      BY <2>1, <2>2
    <2> HIDE DEF Fits
    <2> QED BY <2>3
  <1>7. ASSUME NEW k \in Nat, k \in T PROVE k + 1 \in T
    <2> SUFFICES ASSUME k + 1 <= n PROVE Fits(k + 1)
      OBVIOUS
    <2>1. k + 1 \in 1 .. n /\ k + 1 \in 0 .. n /\ k + 1 # 0 /\ (k + 1) - 1 = k /\ k <= n /\ k + 1 \in Nat \ {0}
      BY <1>1
    <2> DEFINE old == f[k]
               new == f[k + 1]
               x == names[k + 1]
    <2>2. Fits(k)
      BY <1>7, <2>1
    <2>3. old \in [S -> Int] /\ \A i \in S : old[i] = start[i] + UpTo(names, k, i)
      BY <2>2
    <2>4. new = [old EXCEPT ![x] = @ + 1] /\ x \in S
      BY <1>1, <1>3, <2>1
    <2>5. \A i \in S : UpTo(names, k + 1, i) = UpTo(names, k, i) + OneAt(x, i) /\ UpTo(names, k, i) \in Nat
      BY <1>4, <2>1
    <2> HIDE DEF old, new, x
    <2>6. new \in [S -> Int] /\ \A i \in S : new[i] = old[i] + OneAt(x, i)
      BY <2>3, <2>4 DEF OneAt
    <2>7. ASSUME NEW i \in S PROVE new[i] = start[i] + UpTo(names, k + 1, i)
      <3>1. new[i] = old[i] + OneAt(x, i) /\ old[i] = start[i] + UpTo(names, k, i)
        BY <2>3, <2>6
      <3>2. UpTo(names, k + 1, i) = UpTo(names, k, i) + OneAt(x, i) /\ UpTo(names, k, i) \in Nat
        BY <2>5
      <3>3. start[i] \in Int /\ OneAt(x, i) \in Int
        BY DEF OneAt
      <3> QED BY <3>1, <3>2, <3>3
    <2> QED BY <2>6, <2>7 DEF new
  <1>8. Nat \subseteq T
    <2> HIDE DEF T
    <2> QED BY <1>6, <1>7, InductiveSet
  <1>9. Fits(n)
    <2> HIDE DEF Fits
    <2> QED BY <1>1, <1>8
  <1> QED BY <1>2, <1>5, <1>9

\* The references that a program holds and those accounted for are no more
\* than there are.
LEMMA HoldsCover ==
    ASSUME NEW e, NEW H, Holds(e, H), NEW start,
           start = Listed([i \in DOMAIN e.heap |->
                        (IF i \in H THEN 1 ELSE 0) + (IF i \in e.pseudo THEN 1 ELSE 0)])
    PROVE  \A i \in DOMAIN e.heap : e.heap[i].refs >= Uses(start, TapesNames(e))[i]
  <1> DEFINE S == Ids(e)
             names == TapesNames(e)
             n == Len(e.heap)
             g == [i \in 1 .. n |-> OneIn(i, H) + OneIn(i, e.pseudo)]
  <1>1. IsEngine(e) /\ n \in Nat /\ DOMAIN e.heap = S
    BY EngineFacts DEF Holds
  <1>2. \A i : OneIn(i, H) \in Int /\ OneIn(i, e.pseudo) \in Int
    BY DEF OneIn
  <1>3. start = g
    <2>1. start = Listed(g)
      BY <1>1 DEF OneIn, Ids
    <2>2. g = [i \in 1 .. n |-> g[i]]
      OBVIOUS
    <2> HIDE DEF g, n
    <2> QED BY <1>1, <2>1, <2>2, ListedIs
  <1>4. start \in [S -> Int] /\ \A i \in S : start[i] = OneIn(i, H) + OneIn(i, e.pseudo)
    <2>1. \A i \in S : start[i] = OneIn(i, H) + OneIn(i, e.pseudo)
      BY <1>3 DEF Ids
    <2>2. start = [i \in S |-> start[i]]
      BY <1>3 DEF Ids
    <2>3. \A i \in S : start[i] \in Int
      BY <1>2, <2>1
    <2> QED BY <2>1, <2>2, <2>3
  <1>5. names \in Seq(S) /\ \A i : Occ(names, i) = Occ(NamesOf(e.tape), i) + FramesOcc(e.frames, i)
    BY <1>1, TapesNamesIs
  <1> HIDE DEF S, names, g, n
  <1>6. \A i \in S : Uses(start, names)[i] = start[i] + Occ(names, i)
    BY <1>4, <1>5, UsesIs
  <1>7. ASSUME NEW i \in S PROVE e.heap[i].refs >= Uses(start, names)[i]
    <2> DEFINE a == OneIn(i, H)
               b == OneIn(i, e.pseudo)
               c == Occ(NamesOf(e.tape), i)
               d == FramesOcc(e.frames, i)
               v == e.heap[i].refs
    <2>1. Uses(start, names)[i] = a + b + (c + d)
      BY <1>4, <1>5, <1>6
    <2>2. a \in Int /\ b \in Int /\ c \in Nat /\ d \in Nat
      BY <1>1, <1>2, EngineFacts
    <2>3. v \in Int
      BY <1>1 DEF IsEngine, IsEntry, S
    <2>4. v - (b + c + d) >= a
      BY DEF Holds, Spare, Accounted, S
    <2> HIDE DEF a, b, c, d, v
    <2>5. v >= a + b + (c + d)
      BY <2>2, <2>3, <2>4
    <2> QED BY <2>1, <2>5 DEF v
  <1> QED BY <1>1, <1>7 DEF names

----------------------------------------------------------------------------
(* The invariant *)

\* What the steps of a program keep.
IInv == kit \in Kits /\ Holds(s, held)

LEMMA StartHolds ==
    ASSUME NEW n \in Nat, NEW h, h = [i \in 1 .. n |-> h[i]],
           \A i \in 1 .. n : IsEntry(h[i]) /\ h[i].refs = 1,
           NEW e, e = [heap |-> h, tape |-> <<>>, pseudo |-> {}, frames |-> <<>>]
    PROVE  Holds(e, 1 .. n)
  <1>1. IsSeq(h) /\ Len(h) = n /\ DOMAIN h = 1 .. n
    BY FunctionSeq
  <1>2. e.heap = h /\ e.tape = <<>> /\ e.pseudo = {} /\ e.frames = <<>> /\ IsRecord(e)
    BY DEF IsRecord
  <1>3. Ids(e) = 1 .. n
    BY <1>1, <1>2 DEF Ids
  <1>4. NodesOver(<<>>, Ids(e)) /\ FramesOver(<<>>, Ids(e)) /\ Len(<<>>) = 0
    <2>1. <<>> \in Seq({}) /\ Len(<<>>) = 0
      OBVIOUS
    <2>2. IsSeq(<<>>)
      BY <2>1, SeqOver
    <2> QED BY <2>1, <2>2 DEF NodesOver, FramesOver
  <1>5. IsEngine(e)
    <2>1. IsSeq(e.heap) /\ \A i \in Ids(e) : IsEntry(e.heap[i])
      BY <1>1, <1>2, <1>3
    <2>2. NodesOver(e.tape, Ids(e)) /\ e.pseudo \subseteq Ids(e) /\ FramesOver(e.frames, Ids(e))
      BY <1>2, <1>4
    <2>3. \A f \in 1 .. Len(e.frames) : IsFrame(e.frames[f])
      BY <1>2, <1>4
    <2> QED BY <1>2, <2>1, <2>2, <2>3 DEF IsEngine
  <1>6. ASSUME NEW i \in Ids(e) PROVE Spare(e, i) >= OneIn(i, 1 .. n)
    <2>1. Occ(NamesOf(e.tape), i) = 0
      <3>1. NamesOf(<<>>) = <<>> /\ <<>> \in Seq(Ids(e))
        BY <1>4, NamesType
      <3> QED BY <1>2, <3>1, OccType
    <2>2. FramesOcc(e.frames, i) = 0
      BY <1>2, <1>4, FramesOccType
    <2>3. OneIn(i, e.pseudo) = 0 /\ OneIn(i, 1 .. n) = 1
      BY <1>2, <1>3 DEF OneIn
    <2>4. Accounted(e, i) = 0
      BY <2>1, <2>2, <2>3 DEF Accounted
    <2>5. e.heap[i].refs = 1
      BY <1>2, <1>3
    <2>6. Spare(e, i) = 1 - 0
      BY <2>4, <2>5 DEF Spare
    <2> QED BY <2>3, <2>6
  <1> QED BY <1>3, <1>5, <1>6 DEF Holds

\* A program starts with a reference to every leaf.
LEMMA InitKeeps ==
    ASSUME Init
    PROVE  IInv
  <1> DEFINE n == Len(kit.leaves)
             h == [i \in DOMAIN kit.leaves |-> [t |-> kit.leaves[i], req |-> i = W, refs |-> 1]]
             e == [heap |-> h, tape |-> <<>>, pseudo |-> {}, frames |-> <<>>]
  <1>1. kit \in Kits /\ s = Initialised(e) /\ held = DOMAIN kit.leaves
    BY DEF Init
  <1>2. n \in Nat /\ DOMAIN kit.leaves = 1 .. n
    <2>1. IsSeq(kit.leaves)
      BY <1>1, KitsAssumption DEF IsSeq
    <2> QED BY <2>1, SeqFacts
  <1>3. h = [i \in 1 .. n |-> h[i]]
    BY <1>2
  <1>4. ASSUME NEW i \in 1 .. n PROVE IsEntry(h[i]) /\ h[i].refs = 1
    <2> DEFINE v == (i = W)
    <2>1. h[i] = [t |-> kit.leaves[i], req |-> v, refs |-> 1]
      BY <1>2
    <2> HIDE DEF h, v
    <2> QED BY <2>1 DEF IsEntry
  <1>5. e = [heap |-> h, tape |-> <<>>, pseudo |-> {}, frames |-> <<>>]
    OBVIOUS
  <1> HIDE DEF h, e
  <1>6. Holds(e, 1 .. n)
    BY <1>2, <1>3, <1>4, <1>5, StartHolds
  <1>7. s = [e EXCEPT !.frames = Append(e.frames, Frame(0))]
    <2> DEFINE f == Frame(0)
    <2>1. s = [e EXCEPT !.frames = <<f>>]
      BY <1>1 DEF Initialised
    <2>2. e.frames = <<>>
      BY <1>5
    <2>3. Append(<<>>, f) = <<f>>
      <3> HIDE DEF f
      <3> QED OBVIOUS
    <2> QED BY <2>1, <2>2, <2>3
  <1>8. IsEngine(e)
    BY <1>6 DEF Holds
  <1>9. Above(e, s)
    BY <1>7, <1>8, FramePushed
  <1>10. Frees(Floor(e), Len(e.heap), s)
    <2>1. IsEngine(s) /\ Ids(s) = Ids(e) /\ Len(s.heap) = Len(e.heap) /\ Len(e.heap) \in Nat
      BY <1>8, <1>9, EngineFacts DEF Above, Ids
    <2>2. Len(s.heap) >= Len(e.heap) /\ \A i \in Ids(s) : Spare(s, i) >= Spare(e, i)
      BY <1>9, <2>1 DEF Above
    <2> QED BY <1>8, <2>1, <2>2, NoLessFrees
  <1>11. Holds(s, 1 .. n)
    BY <1>6, <1>10, HoldsKept
  <1> QED BY <1>1, <1>2, <1>11 DEF IInv

LEMMA GrownHolds ==
    ASSUME NEW e, NEW H, Holds(e, H), NEW t, Grown(e, t)
    PROVE  Holds(t, H \union {Newest(t)})
  <1> DEFINE b == Floor(e)
             m == Len(e.heap)
  <1>1. IsEngine(e) /\ m \in Nat
    BY EngineFacts DEF Holds
  <1>2. b \in [Nat -> Int] /\ Frees(b, m, e)
    BY <1>1, FloorFrees
  <1> HIDE DEF b, m
  <1>3. Frees(Plus(b, Newest(t)), m, t) /\ Newest(t) \in Ids(t)
    BY <1>1, <1>2, GrownFrees
  <1> QED BY <1>3, HoldsMore DEF b, m

LEMMA NoLessHolds ==
    ASSUME NEW e, NEW H, Holds(e, H), NEW t, Kept(e, t) \/ NoLess(e, t)
    PROVE  Holds(t, H)
  <1>1. IsEngine(e) /\ Len(e.heap) \in Nat
    BY EngineFacts DEF Holds
  <1>2. NoLess(e, t)
    BY <1>1, GrownNoLess
  <1>3. Frees(Floor(e), Len(e.heap), t)
    BY <1>1, <1>2, NoLessFrees DEF NoLess
  <1> QED BY <1>3, HoldsKept

LEMMA ApplyKeeps ==
    ASSUME IInv, Apply
    PROVE  IInv'
  <1>1. IsEngine(s) /\ held \subseteq Ids(s) /\ Holds(s, held)
    BY DEF IInv, Holds
  <1>2. PICK call \in kit.calls :
            LET ins == [k \in DOMAIN call.ins |-> IF call.ins[k] = 0 THEN latest ELSE call.ins[k]]
            IN /\ \A k \in DOMAIN ins : ins[k] \in held
               /\ s' = Operated(s, call.op, ins, call.par)
               /\ held' = held \union {Newest(s) + 1}
               /\ kit' = kit
    BY DEF Apply
  <1> DEFINE ins == [k \in DOMAIN call.ins |-> IF call.ins[k] = 0 THEN latest ELSE call.ins[k]]
             n == Len(call.ins)
  <1>3. call.op \in Operations /\ n \in Nat /\ DOMAIN call.ins = 1 .. n
    <2>1. call.op \in Operations /\ call.ins \in Seq(Nat)
      BY KitsAssumption DEF IInv
    <2> QED BY <2>1, LenProperties
  <1>4. ins \in Seq(Ids(s))
    <2>1. \A k \in 1 .. n : ins[k] \in Ids(s)
      BY <1>1, <1>2, <1>3
    <2>2. ins \in [1 .. n -> Ids(s)]
      BY <1>3, <2>1
    <2> HIDE DEF ins, n
    <2> QED BY <1>3, <2>2
  <1>5. s' = Operated(s, call.op, ins, call.par)
    BY <1>2
  <1> HIDE DEF ins
  <1>6. Grown(s, Operated(s, call.op, ins, call.par))
    BY <1>1, <1>3, <1>4, OperatedIs
  <1>7. Grown(s, s')
    BY <1>5, <1>6
  <1>8. held' = held \union {Newest(s')}
    BY <1>2, <1>7 DEF Grown, Newest
  <1>9. Holds(s', held \union {Newest(s')})
    BY <1>1, <1>7, GrownHolds
  <1> QED BY <1>2, <1>8, <1>9 DEF IInv

LEMMA ReduceKeeps ==
    ASSUME IInv, NEW op \in Reductions, Reduce(op)
    PROVE  IInv'
  <1>1. IsEngine(s) /\ held \subseteq Ids(s) /\ Holds(s, held)
    BY DEF IInv, Holds
  <1>2. latest \in Ids(s) /\ s' = AfterReduction(s, op, latest) /\ held' = held /\ kit' = kit
    BY <1>1 DEF Reduce
  <1>3. NoLess(s, AfterReduction(s, op, latest))
    BY <1>1, <1>2, AfterReductionIs
  <1>4. NoLess(s, s')
    BY <1>2, <1>3
  <1>5. Holds(s', held)
    BY <1>1, <1>4, NoLessHolds
  <1> QED BY <1>2, <1>5 DEF IInv

LEMMA GradKeeps ==
    ASSUME IInv, NEW retain \in BOOLEAN, Grad(retain)
    PROVE  IInv'
  <1>0. PICK read \in Readings(loss.num.v) : GradTaken(Differentiated(s, read, W, retain), retain)
    BY DEF Grad
  <1> DEFINE r == Differentiated(s, read, W, retain)
  <1>1. IsEngine(s) /\ Holds(s, held)
    BY DEF IInv, Holds
  <1>2. GradTaken(r, retain)
    BY <1>0
  <1>3. r.ok \in BOOLEAN /\ IF r.ok THEN Grown(s, r.engine) ELSE Kept(s, r.engine)
    BY <1>1, DifferentiatedIs
  <1> HIDE DEF r
  <1>4. /\ s' = r.engine /\ kit' = kit
        /\ held' = IF r.ok THEN held \union {Newest(r.engine)} ELSE held
    BY <1>2 DEF GradTaken, Taking
  <1>5. CASE r.ok
    <2>1. Holds(r.engine, held \union {Newest(r.engine)})
      BY <1>1, <1>3, <1>5, GrownHolds
    <2> QED BY <1>4, <1>5, <2>1 DEF IInv
  <1>6. CASE ~r.ok
    <2>1. Holds(r.engine, held)
      BY <1>1, <1>3, <1>6, NoLessHolds
    <2> QED BY <1>4, <1>6, <2>1 DEF IInv
  <1> QED BY <1>5, <1>6

LEMMA GradHoKeeps ==
    ASSUME IInv, GradHo
    PROVE  IInv'
  <1> DEFINE r == HigherDifferentiated(s, W)
             b == Floor(s)
             m == Len(s.heap)
  <1>1. IsEngine(s) /\ Holds(s, held)
    BY DEF IInv, Holds
  <1>2. GradHoTaken(r)
    BY DEF GradHo
  <1>3. Answers(b, m, r)
    <2>1. b = [i \in Nat |-> Spare(s, i)]
      BY DEF Floor
    <2> HIDE DEF b
    <2> QED BY <1>1, <2>1, HigherDifferentiatedIs
  <1> HIDE DEF r
  <1>4. /\ s' = r.engine /\ kit' = kit
        /\ held' = IF r.ok THEN held \union {r.id} ELSE held
    BY <1>2 DEF GradHoTaken, Taking
  <1>5. CASE r.ok
    <2>1. Frees(Plus(b, r.id), m, r.engine) /\ r.id \in Ids(r.engine)
      BY <1>3, <1>5 DEF Answers
    <2>2. Holds(r.engine, held \union {r.id})
      BY <1>1, <2>1, HoldsMore
    <2> QED BY <1>4, <1>5, <2>2 DEF IInv
  <1>6. CASE ~r.ok
    <2>1. Frees(b, m, r.engine)
      BY <1>3, <1>6 DEF Answers
    <2>2. Holds(r.engine, held)
      BY <1>1, <2>1, HoldsKept
    <2> QED BY <1>4, <1>6, <2>2 DEF IInv
  <1> QED BY <1>5, <1>6

LEMMA TapeClearKeeps ==
    ASSUME IInv, TapeClear
    PROVE  IInv'
  <1>1. IsEngine(s) /\ Holds(s, held)
    BY DEF IInv, Holds
  <1>2. s' = ClearedBoth(s) /\ held' = held /\ kit' = kit
    BY DEF TapeClear
  <1>3. Frees(Floor(s), Len(s.heap), ClearedBoth(s))
    BY <1>1, ClearedBothIs
  <1>4. Holds(ClearedBoth(s), held)
    BY <1>1, <1>3, HoldsKept
  <1> QED BY <1>2, <1>4 DEF IInv

LEMMA DropKeeps ==
    ASSUME IInv, Drop
    PROVE  IInv'
  <1>1. Holds(s, held)
    BY DEF IInv
  <1>2. PICK x \in held : s' = Released(s, <<x>>) /\ held' = held \ {x} /\ kit' = kit
    BY DEF Drop
  <1>3. Holds(s', held \ {x})
    BY <1>1, <1>2, HoldsLess
  <1> QED BY <1>2, <1>3 DEF IInv

LEMMA NextKeeps ==
    ASSUME IInv, [Next]_vars
    PROVE  IInv'
  <1>1. CASE Apply
    BY <1>1, ApplyKeeps
  <1>2. CASE \E op \in Reductions : Reduce(op)
    BY <1>2, ReduceKeeps
  <1>3. CASE \E r \in BOOLEAN : Grad(r)
    BY <1>3, GradKeeps
  <1>4. CASE GradHo
    BY <1>4, GradHoKeeps
  <1>5. CASE TapeClear
    BY <1>5, TapeClearKeeps
  <1>6. CASE Drop
    BY <1>6, DropKeeps
  <1>7. CASE UNCHANGED vars
    BY <1>7 DEF IInv, vars
  <1> QED BY <1>1, <1>2, <1>3, <1>4, <1>5, <1>6, <1>7 DEF Next

LEMMA InvariantCovers ==
    ASSUME IInv
    PROVE  RefsCoverHolders
  <1> DEFINE start == Listed([i \in DOMAIN s.heap |->
                        (IF i \in held THEN 1 ELSE 0) + (IF i \in s.pseudo THEN 1 ELSE 0)])
  <1>1. Holds(s, held)
    BY DEF IInv
  <1>2. \A i \in DOMAIN s.heap : s.heap[i].refs >= Uses(start, TapesNames(s))[i]
    BY <1>1, HoldsCover
  <1> QED BY <1>2 DEF RefsCoverHolders, Uses, TapesNames

\* The engine and what the program holds stay as IInv says, whatever the
\* program does: every name in tape, pseudo tensors and frames is of a tensor
\* of the heap, and no tensor lacks a reference.
THEOREM Invariance == Spec => []IInv
  <1>1. Init => IInv
    BY InitKeeps
  <1>2. IInv /\ [Next]_vars => IInv'
    BY NextKeeps
  <1> QED BY <1>1, <1>2, PTL DEF Spec

\* No tensor is freed while it has a holder: whatever a program computes,
\* reduces, differentiates with either engine, clears and lets go, in any
\* order, plant_autograd.c and plant_ad2.c leave every tensor with at least
\* one reference per holder, the program, the tape, its pseudo tensors and
\* the frames, so that no release goes one too far.
THEOREM ReferencesCover == Spec => []RefsCoverHolders
  <1>1. IInv => RefsCoverHolders
    BY InvariantCovers
  <1> QED BY <1>1, Invariance, PTL
=============================================================================
