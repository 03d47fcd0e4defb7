---------------------------- MODULE Weather_proofs ----------------------------
(***************************************************************************)
(* Proofs about Weather, for programs without the constructs of Uses.      *)
(***************************************************************************)
EXTENDS Weather, ProofLemmas

----------------------------------------------------------------------------
(* The control stack *)

Code == {"call", "loop"}
Special == {"handler", "calm", "exit", "return"}
Kinds == Code \cup {"body"} \cup Special
Step == [f : Fid, calm : BOOLEAN]
Regions == [kind : Kinds, f : 0 .. MaxFrames, lex : Seq(Step), chain : Seq(Step), i : Nat,
            to : Nat, gives : BOOLEAN]

\* The bodies around level k of c that belong to the call of that level.
Own(c, k) == {i \in 1 .. k : c[i].kind = "body" /\ \A n \in i .. k : c[n].kind # "call"}

\* Level k of c carries the exit list of those bodies, unless the call is in a
\* handler, a CALM body or an exit.
Threaded(c, k) ==
    (\A i \in 1 .. k : c[i].kind \in Special => \E n \in i .. k : c[n].kind = "call")
        => /\ c[k].lex = <<>> <=> Own(c, k) = {}
           /\ Len(c[k].lex) = 1 =>
                 \E i \in 1 .. k : /\ Own(c, k) = {i}
                                   /\ c[k].lex = <<Finalize(c[i].f, TRUE)>>

\* An exit at level k closes a body of the same call, that of its frame, and no
\* other block.
Closing(c, k) ==
    \E j \in 1 .. k - 1 :
        /\ c[j].kind = "body" /\ c[j].f = c[k].f /\ c[k].to < j
        /\ \A n \in 1 .. k - 1 : c[k].to < n => n = j \/ c[n].kind \in Code
        /\ \A n \in j .. k - 1 : c[n].kind # "call"

\* What holds of level k of a control stack, given the levels below it.
Level(c, k) ==
    /\ k = 1 => c[k].kind = "call"
    /\ c[k].kind \notin Code => c[k].f \in Fid
    /\ c[k].kind \in Blocks => c[k].lex # <<>>
    /\ \A j \in 1 .. k - 1 : c[j].kind \in Special => c[k].kind \in Code /\ c[j].kind # "return"
    /\ \A j \in 1 .. k - 1 : c[j].kind \in Blocks /\ c[k].kind \in Blocks => c[j].f < c[k].f
    /\ c[k].kind \in {"exit", "return"} => Closing(c, k)
    /\ c[k].kind = "exit" => c[k].chain = <<Finalize(c[k].f, TRUE)>> /\ c[k].i = 1
    /\ Threaded(c, k)

Shape(c) == c \in Seq(Regions) /\ \A k \in 1 .. Len(c) : Level(c, k)

\* The frames of the regions of one kind.
Of(c, kind) == {c[k].f : k \in {j \in 1 .. Len(c) : c[j].kind = kind}}

----------------------------------------------------------------------------
(* Frames, storms and handles *)

Frame == [next : 0 .. MaxFrames, raised : BOOLEAN, handled : BOOLEAN,
          type : Storms \cup {AnyStorm}, obj : Objects \cup {NoObject}, list : Seq(Handles),
          mark : Nat, shelters : SUBSET (Storms \cup {AnyStorm}), calms : Nat,
          due : 0 .. MaxFrames]

Machine == [ctl : Seq(Regions), fr : [Fid -> Frame], used : 0 .. MaxFrames,
            head : 0 .. MaxFrames, handling : 0 .. MaxFrames,
            heap : SUBSET (Handles \cup Objects), queue : SUBSET Handles, twice : BOOLEAN,
            end : {"", "abort", "stale"}, abortDue : 0 .. MaxFrames]

Bodies(s) == Of(s.ctl, "body")
Handlers(s) == Of(s.ctl, "handler")
Calms(s) == Of(s.ctl, "calm")
Opened(s) == Bodies(s) \cup Handlers(s) \cup Calms(s)
Gone(s) == Of(s.ctl, "return")

\* The frames that the head leads to: those of blocks not yet left.
Linked(s) == (Bodies(s) \ Gone(s)) \cup {f \in Calms(s) : ~s.fr[f].raised}

\* g is the greatest linked frame below f, or none.
Below(s, g, f) ==
    /\ g \in Linked(s) \cup {Null} /\ g < f
    /\ \A e \in Linked(s) : e < f => e <= g

Chained(s) ==
    /\ Opened(s) \subseteq 1 .. s.used
    /\ Below(s, s.head, MaxFrames + 1)
    /\ \A f \in Linked(s) : Below(s, s.fr[f].next, f)
    /\ \A f \in Fid : s.fr[f].next < f

\* g is the greatest running body with a shelter for the type, or none.
Greatest(s, type, g) ==
    /\ g # Null => g \in Bodies(s) /\ Match(type, s.fr[g].shelters)
    /\ \A e \in Bodies(s) : Match(type, s.fr[e].shelters) => e <= g

Waiting(s, f) == s.fr[f].raised /\ ~s.fr[f].handled

Storming(s) ==
    /\ \A f \in Bodies(s) : ~s.fr[f].raised /\ ~s.fr[f].handled
    /\ \A f \in Handlers(s) : s.fr[f].raised /\ s.fr[f].handled /\ s.fr[f].due = f
    /\ \A f \in Calms(s) : Waiting(s, f) => Greatest(s, s.fr[f].type, s.fr[f].due)
    /\ \A f \in Handlers(s) : s.handling = f
    /\ Handlers(s) = {} => s.handling = Null
    /\ \A f \in Fid : s.used < f => ~s.fr[f].raised
    /\ s.end # "stale" /\ s.abortDue = Null

\* A storm that a closed block did not handle has arrived or is on its way.
Passed(s) ==
    s.end = "" => \A f \in 1 .. s.used : Waiting(s, f) /\ f \notin Opened(s) =>
        \/ s.fr[f].due # Null /\ s.fr[s.fr[f].due].raised
        \/ \E g \in Calms(s) : Waiting(s, g) /\ s.fr[g].due = s.fr[f].due

Listed(s, f) == ToSet(s.fr[f].list)

Kept(s) ==
    /\ ~s.twice /\ s.queue \subseteq s.heap
    /\ \A f \in Fid : s.fr[f].mark = 0 /\ (f \notin Opened(s) \ Gone(s) => s.fr[f].list = <<>>)
    /\ \A f \in Fid : Len(s.fr[f].list) <= ExitMax
    /\ \A f \in Fid : Listed(s, f) \subseteq s.heap \ s.queue
    /\ \A f, g \in Fid : f # g => Listed(s, f) \cap Listed(s, g) = {}
    /\ \A h \in Handles \cap s.heap : h \in s.queue \/ \E f \in Fid : h \in Listed(s, f)

Inv(s) ==
    /\ s \in Machine /\ Shape(s.ctl) /\ Chained(s) /\ Storming(s) /\ Passed(s) /\ Kept(s)

IInv == Inv(st)

USE DEF Fid, Null

LEMMA FidFacts ==
    /\ MaxFrames \in Nat
    /\ \A n \in 0 .. MaxFrames : n # 0 => n \in Fid
    /\ \A n \in 0 .. MaxFrames : \A f \in 1 .. n : f \in Fid
    /\ \A f \in Fid : f \in Nat /\ f # 0 /\ f < MaxFrames + 1 /\ f \in 0 .. MaxFrames
    /\ \A f \in Fid, n \in Fid \cup {0} : n < f => n < MaxFrames + 1
  BY WeatherAssumption

----------------------------------------------------------------------------
(* The control stack grows and shrinks *)

LEMMA CutSeq ==
    ASSUME NEW S, NEW c \in Seq(S), NEW n \in 0 .. Len(c)
    PROVE  /\ SubSeq(c, 1, n) \in Seq(S) /\ Len(SubSeq(c, 1, n)) = n
           /\ \A i \in 1 .. n : SubSeq(c, 1, n)[i] = c[i]
  <1>1. 1 \in Int /\ n \in Int /\ \A i \in 1 .. n : c[i] \in S
    OBVIOUS
  <1> DEFINE q == SubSeq(c, 1, n)
  <1>2. /\ q \in Seq(S) /\ Len(q) = IF 1 <= n THEN n - 1 + 1 ELSE 0
        /\ \A i \in 1 .. n - 1 + 1 : q[i] = c[1 + i - 1]
    BY <1>1, SubSeqProperties
  <1> HIDE DEF q
  <1>3. ASSUME NEW i \in 1 .. n PROVE q[i] = c[i]
    <2>1. i \in 1 .. n - 1 + 1 /\ 1 + i - 1 = i
      OBVIOUS
    <2> QED BY <1>2, <2>1
  <1>4. Len(q) = n
    BY <1>2
  <1> QED BY <1>2, <1>3, <1>4 DEF q

\* What holds of a level is a matter of the levels up to it.
LEMMA LevelLocal ==
    ASSUME NEW c, NEW d, NEW k \in Nat \ {0}, \A i \in 1 .. k : c[i] = d[i], Level(c, k)
    PROVE  Level(d, k)
  <1>1. c[k] = d[k] /\ \A i \in 1 .. k - 1 : i \in 1 .. k /\ c[i] = d[i]
    OBVIOUS
  <1>2. Own(c, k) = Own(d, k)
    <2>1. \A i \in 1 .. k : \A n \in i .. k : n \in 1 .. k
      OBVIOUS
    <2> QED BY <2>1 DEF Own
  <1>3. Threaded(d, k)
    <2>1. SUFFICES ASSUME \A i \in 1 .. k :
                              d[i].kind \in Special => \E n \in i .. k : d[n].kind = "call"
                   PROVE  /\ d[k].lex = <<>> <=> Own(d, k) = {}
                          /\ Len(d[k].lex) = 1 =>
                                \E i \in 1 .. k : /\ Own(d, k) = {i}
                                                  /\ d[k].lex = <<Finalize(d[i].f, TRUE)>>
      BY DEF Threaded
    <2>2. \A i \in 1 .. k : \A n \in i .. k : c[n] = d[n]
      OBVIOUS
    <2>3. \A i \in 1 .. k : c[i].kind \in Special => \E n \in i .. k : c[n].kind = "call"
      BY <2>1, <2>2
    <2> QED BY <1>1, <1>2, <2>3 DEF Level, Threaded
  <1>4. d[k].kind \in {"exit", "return"} => Closing(d, k)
    <2> SUFFICES ASSUME Closing(c, k), d[k].kind \in {"exit", "return"} PROVE Closing(d, k)
      BY <1>1 DEF Level
    <2>1. PICK j \in 1 .. k - 1 :
              /\ c[j].kind = "body" /\ c[j].f = c[k].f /\ c[k].to < j
              /\ \A n \in 1 .. k - 1 : c[k].to < n => n = j \/ c[n].kind \in Code
              /\ \A n \in j .. k - 1 : c[n].kind # "call"
      BY DEF Closing
    <2>2. \A n \in 1 .. k - 1 : d[k].to < n => n = j \/ d[n].kind \in Code
      BY <1>1, <2>1
    <2>3. \A n \in j .. k - 1 : d[n].kind # "call"
      BY <1>1, <2>1
    <2> QED BY <1>1, <2>1, <2>2, <2>3 DEF Closing
  <1>5. /\ \A j \in 1 .. k - 1 : d[j].kind \in Special => d[k].kind \in Code /\ d[j].kind # "return"
        /\ \A j \in 1 .. k - 1 : d[j].kind \in Blocks /\ d[k].kind \in Blocks => d[j].f < d[k].f
    BY <1>1 DEF Level
  <1>6. /\ k = 1 => d[k].kind = "call"
        /\ d[k].kind \notin Code => d[k].f \in Fid
        /\ d[k].kind \in Blocks => d[k].lex # <<>>
        /\ d[k].kind = "exit" => d[k].chain = <<Finalize(d[k].f, TRUE)>> /\ d[k].i = 1
    BY <1>1 DEF Level
  <1> QED BY <1>3, <1>4, <1>5, <1>6 DEF Level

LEMMA ShapeCut ==
    ASSUME NEW c, Shape(c), NEW n \in 0 .. Len(c)
    PROVE  Shape(SubSeq(c, 1, n))
  <1> DEFINE d == SubSeq(c, 1, n)
  <1>1. d \in Seq(Regions) /\ Len(d) = n /\ \A i \in 1 .. n : d[i] = c[i]
    BY CutSeq DEF Shape
  <1> HIDE DEF d
  <1>2. ASSUME NEW k \in 1 .. n PROVE Level(d, k)
    <2>1. Level(c, k) /\ k \in Nat \ {0} /\ \A i \in 1 .. k : c[i] = d[i]
      BY <1>1 DEF Shape
    <2> QED BY <2>1, LevelLocal
  <1>3. Shape(d)
    BY <1>1, <1>2 DEF Shape
  <1> QED BY <1>3 DEF d

LEMMA ShapePush ==
    ASSUME NEW c, Shape(c), NEW x \in Regions, Level(Append(c, x), Len(c) + 1)
    PROVE  Shape(Append(c, x))
  <1> DEFINE d == Append(c, x)
  <1>1. d \in Seq(Regions) /\ Len(d) = Len(c) + 1 /\ \A i \in 1 .. Len(c) : d[i] = c[i]
    BY AppendProperties DEF Shape
  <1>2. Level(d, Len(c) + 1)
    OBVIOUS
  <1> HIDE DEF d
  <1>3. ASSUME NEW k \in 1 .. Len(c) PROVE Level(d, k)
    <2>1. Level(c, k) /\ k \in Nat \ {0} /\ \A i \in 1 .. k : c[i] = d[i]
      BY <1>1 DEF Shape
    <2> QED BY <2>1, LevelLocal
  <1>4. Len(c) \in Nat
    BY DEF Shape
  <1>5. Shape(d)
    BY <1>1, <1>2, <1>3, <1>4 DEF Shape
  <1> QED BY <1>5 DEF d

LEMMA OfPush ==
    ASSUME NEW c \in Seq(Regions), NEW x \in Regions, NEW kind
    PROVE  Of(Append(c, x), kind) = Of(c, kind) \cup (IF x.kind = kind THEN {x.f} ELSE {})
  <1> DEFINE d == Append(c, x)
  <1>1. /\ d \in Seq(Regions) /\ Len(d) = Len(c) + 1 /\ \A i \in 1 .. Len(c) : d[i] = c[i]
        /\ d[Len(c) + 1] = x
    BY AppendProperties
  <1> HIDE DEF d
  <1>2. Len(c) \in Nat
    OBVIOUS
  <1>3. Of(d, kind) = Of(c, kind) \cup (IF x.kind = kind THEN {x.f} ELSE {})
    <2>1. Of(d, kind) \subseteq Of(c, kind) \cup (IF x.kind = kind THEN {x.f} ELSE {})
      <3> SUFFICES ASSUME NEW k \in 1 .. Len(d), d[k].kind = kind
                   PROVE  d[k].f \in Of(c, kind) \cup (IF x.kind = kind THEN {x.f} ELSE {})
        BY DEF Of
      <3>1. CASE k = Len(c) + 1
        BY <1>1, <3>1
      <3>2. CASE k \in 1 .. Len(c)
        BY <1>1, <3>2 DEF Of
      <3> QED BY <1>1, <1>2, <3>1, <3>2
    <2>2. Of(c, kind) \subseteq Of(d, kind)
      <3> SUFFICES ASSUME NEW k \in 1 .. Len(c), c[k].kind = kind PROVE c[k].f \in Of(d, kind)
        BY DEF Of
      <3>1. k \in 1 .. Len(d) /\ d[k] = c[k]
        BY <1>1, <1>2
      <3> QED BY <3>1 DEF Of
    <2>3. x.kind = kind => x.f \in Of(d, kind)
      <3>1. Len(c) + 1 \in 1 .. Len(d)
        BY <1>1, <1>2
      <3> QED BY <1>1, <3>1 DEF Of
    <2> QED BY <2>1, <2>2, <2>3
  <1> QED BY <1>3 DEF d

\* Cutting keeps the frames of the levels that stay.
LEMMA OfCut ==
    ASSUME NEW c \in Seq(Regions), NEW n \in 0 .. Len(c), NEW kind
    PROVE  /\ Of(SubSeq(c, 1, n), kind) = {c[k].f : k \in {j \in 1 .. n : c[j].kind = kind}}
           /\ (\A k \in n + 1 .. Len(c) : c[k].kind # kind) =>
                 Of(SubSeq(c, 1, n), kind) = Of(c, kind)
  <1> DEFINE d == SubSeq(c, 1, n)
  <1>1. d \in Seq(Regions) /\ Len(d) = n /\ \A i \in 1 .. n : d[i] = c[i]
    BY CutSeq
  <1> HIDE DEF d
  <1>2. Of(d, kind) = {c[k].f : k \in {j \in 1 .. n : c[j].kind = kind}}
    BY <1>1 DEF Of
  <1>3. ASSUME \A k \in n + 1 .. Len(c) : c[k].kind # kind
        PROVE  {j \in 1 .. n : c[j].kind = kind} = {j \in 1 .. Len(c) : c[j].kind = kind}
    <2>1. \A j \in 1 .. Len(c) : j \in 1 .. n \/ j \in n + 1 .. Len(c)
      OBVIOUS
    <2>2. \A j \in 1 .. n : j \in 1 .. Len(c)
      OBVIOUS
    <2> QED BY <1>3, <2>1, <2>2
  <1> QED BY <1>2, <1>3 DEF d, Of

\* Cutting off one block, and no other of its kind, takes its frame away.
LEMMA OfCutBlock ==
    ASSUME NEW c, Shape(c), NEW n \in 0 .. Len(c), NEW j \in n + 1 .. Len(c),
           c[j].kind \in Blocks, \A k \in n + 1 .. Len(c) : c[k].kind = c[j].kind => k = j
    PROVE  Of(SubSeq(c, 1, n), c[j].kind) = Of(c, c[j].kind) \ {c[j].f}
  <1> DEFINE kind == c[j].kind
  <1>1. c \in Seq(Regions) /\ \A k \in 1 .. Len(c) : Level(c, k)
    BY DEF Shape
  <1>2. Of(SubSeq(c, 1, n), kind) = {c[k].f : k \in {i \in 1 .. n : c[i].kind = kind}}
    BY <1>1, OfCut
  <1>3. ASSUME NEW k \in 1 .. n, c[k].kind = kind PROVE k \in 1 .. Len(c) /\ c[k].f # c[j].f
    <2>1. j \in 1 .. Len(c) /\ k \in 1 .. j - 1
      OBVIOUS
    <2>2. c[k].f < c[j].f
      BY <1>1, <1>3, <2>1 DEF Level
    <2>3. c[k] \in Regions /\ c[j] \in Regions
      BY <1>1, <2>1
    <2> QED BY <2>1, <2>2, <2>3 DEF Regions
  <1>4. ASSUME NEW k \in 1 .. Len(c), c[k].kind = kind, c[k].f # c[j].f PROVE k \in 1 .. n
    <2>1. k \in 1 .. n \/ k \in n + 1 .. Len(c)
      OBVIOUS
    <2> QED BY <1>4, <2>1
  <1> QED BY <1>2, <1>3, <1>4 DEF Of

----------------------------------------------------------------------------
(* What the operators on the machine change *)

\* The same place on the chain and the same storm.
Like(a, b) ==
    /\ a.next = b.next /\ a.raised = b.raised /\ a.handled = b.handled /\ a.type = b.type
    /\ a.obj = b.obj /\ a.shelters = b.shelters /\ a.due = b.due

Alike(a, b) == Like(a, b) /\ a.list = b.list /\ a.mark = b.mark

\* t differs from s in its control stack and in counts of CALM runs only.
Same(t, s) ==
    /\ t \in Machine
    /\ \A f \in Fid : Alike(t.fr[f], s.fr[f])
    /\ t.used = s.used /\ t.head = s.head /\ t.handling = s.handling
    /\ t.heap = s.heap /\ t.queue = s.queue /\ t.twice = s.twice
    /\ t.end = s.end /\ t.abortDue = s.abortDue

LEMMA CtlSets ==
    ASSUME NEW s \in Machine, NEW c \in Seq(Regions)
    PROVE  Same([s EXCEPT !.ctl = c], s) /\ [s EXCEPT !.ctl = c].ctl = c
  BY DEF Machine, Same, Alike, Like

LEMMA CalmsSets ==
    ASSUME NEW s \in Machine, NEW f \in Fid, NEW n \in Nat
    PROVE  Same([s EXCEPT !.fr[f].calms = n], s) /\ [s EXCEPT !.fr[f].calms = n].ctl = s.ctl
  <1> DEFINE a == [s.fr[f] EXCEPT !.calms = n]
             fr == [s.fr EXCEPT ![f] = a]
             t == [s EXCEPT !.fr = fr]
  <1>1. s.fr[f] \in Frame
    BY DEF Machine
  <1>2. a \in Frame /\ Alike(a, s.fr[f])
    BY <1>1 DEF Frame, Alike, Like
  <1> HIDE DEF a
  <1>3. fr \in [Fid -> Frame] /\ \A g \in Fid : Alike(fr[g], s.fr[g])
    BY <1>2 DEF Machine, Alike, Like
  <1> HIDE DEF fr
  <1>4. Same(t, s) /\ t.ctl = s.ctl
    BY <1>3 DEF Machine, Same
  <1>5. [s EXCEPT !.fr[f].calms = n] = t
    BY DEF t, fr, a
  <1> QED BY <1>4, <1>5

LEMMA SameTransitive ==
    ASSUME NEW s, NEW t, NEW u, Same(t, s), Same(u, t)
    PROVE  Same(u, s)
  BY DEF Same, Alike, Like

LEMMA AgainIsNat == \A n \in Nat : Again(n) \in Nat
  BY DEF Again

LEMMA LeaveSets ==
    ASSUME NEW s \in Machine, NEW f \in Fid
    PROVE  LET t == Leave(s, f)
               left == s.heap \ Listed(s, f)
           IN /\ t \in Machine /\ t.ctl = s.ctl /\ t.used = s.used
              /\ t.head = IF s.head = f THEN s.fr[f].next ELSE s.head
              /\ t.handling = s.handling /\ t.end = s.end /\ t.abortDue = s.abortDue
              /\ \A g \in Fid : Like(t.fr[g], s.fr[g])
              /\ \A g \in Fid \ {f} : Alike(t.fr[g], s.fr[g])
              /\ t.fr[f].list = <<>> /\ t.fr[f].mark = 0
              /\ t.queue = {} /\ t.heap = left \ s.queue
              /\ t.twice = (s.twice \/ ~(Listed(s, f) \subseteq s.heap) \/ ~(s.queue \subseteq left))
  <1> DEFINE head == IF s.head = f THEN s.fr[f].next ELSE s.head
             a == [s.fr[f] EXCEPT !.list = <<>>, !.mark = 0]
             fr == [s.fr EXCEPT ![f] = a]
             hs == Listed(s, f)
             left == s.heap \ hs
             twice1 == s.twice \/ ~(hs \subseteq s.heap)
             twice == twice1 \/ ~(s.queue \subseteq left)
             s1 == [s EXCEPT !.head = head]
             s2 == [s1 EXCEPT !.heap = left, !.twice = twice1]
             s3 == [s2 EXCEPT !.fr = fr]
             s4 == [s3 EXCEPT !.heap = left \ s.queue, !.twice = twice]
             s5 == [s4 EXCEPT !.queue = {}]
  <1>1. s.fr[f] \in Frame
    BY DEF Machine
  <1>2. /\ a \in Frame /\ Like(a, s.fr[f]) /\ a.list = <<>> /\ a.mark = 0
    <2> DEFINE r == s.fr[f]
    <2> HIDE DEF r
    <2>1. <<>> \in Seq(Handles) /\ 0 \in Nat
      OBVIOUS
    <2>2. ASSUME r \in Frame, NEW q \in Seq(Handles)
          PROVE  LET b == [r EXCEPT !.list = q, !.mark = 0]
                 IN b \in Frame /\ Like(b, r) /\ b.list = q /\ b.mark = 0
      BY <2>2 DEF Frame, Like
    <2> QED BY <1>1, <2>1, <2>2 DEF r
  <1>h. head \in 0 .. MaxFrames
    BY <1>1 DEF Frame, Machine
  <1> HIDE DEF a, head
  <1>3. /\ fr \in [Fid -> Frame] /\ fr[f] = a /\ \A g \in Fid \ {f} : fr[g] = s.fr[g]
    BY <1>2 DEF Machine
  <1> HIDE DEF fr
  <1>4. twice1 \in BOOLEAN /\ twice \in BOOLEAN /\ left \subseteq s.heap
    BY DEF Machine
  <1>5. s1 \in Machine /\ s1.fr = s.fr /\ s1.queue = s.queue /\ s1.heap = s.heap /\ s1.twice = s.twice
    BY <1>h DEF Machine
  <1>6. Leave(s, f) = s5
    <2>1. Free(s1, ToSet(s1.fr[f].list)) = s2
      BY <1>5 DEF Free, Listed
    <2>2. s2.fr = s.fr /\ s2 \in Machine
      BY <1>4, <1>5 DEF Machine
    <2>3. ClearList(s2, f) = s3
      <3> HIDE DEF s2
      <3> QED BY <1>1, <2>2 DEF ClearList, fr, a, Machine, Frame
    <2>4. s3.queue = s.queue /\ s3.heap = left /\ s3.twice = twice1
      BY <1>5 DEF Machine
    <2>5. Free(s3, s3.queue) = s4
      BY <2>4 DEF Free
    <2>6. Leave(s, f) = Teardown(s1, f)
      BY DEF Leave, head
    <2> HIDE DEF s1, s2, s3, s4
    <2>7. Teardown(s1, f) = s5
      BY <2>1, <2>3, <2>5 DEF Teardown, DrainQueue
    <2> QED BY <2>6, <2>7
  <1> HIDE DEF twice1, twice, left
  <1>7. /\ s5 \in Machine /\ s5.ctl = s.ctl /\ s5.used = s.used /\ s5.head = head
        /\ s5.handling = s.handling /\ s5.end = s.end /\ s5.abortDue = s.abortDue
        /\ s5.fr = fr /\ s5.queue = {} /\ s5.heap = left \ s.queue /\ s5.twice = twice
    BY <1>h, <1>3, <1>4 DEF Machine
  <1> HIDE DEF s5
  <1>8. /\ \A g \in Fid : Like(fr[g], s.fr[g])
        /\ \A g \in Fid \ {f} : Alike(fr[g], s.fr[g])
        /\ fr[f].list = <<>> /\ fr[f].mark = 0
    BY <1>2, <1>3 DEF Like, Alike
  <1> QED BY <1>6, <1>7, <1>8 DEF twice1, twice, left, head

LEMMA HandlingSets ==
    ASSUME NEW s \in Machine, NEW f \in 0 .. MaxFrames
    PROVE  LET t == [s EXCEPT !.handling = f]
           IN /\ t \in Machine /\ t.handling = f /\ t.ctl = s.ctl /\ t.fr = s.fr
              /\ t.used = s.used /\ t.head = s.head /\ t.heap = s.heap /\ t.queue = s.queue
              /\ t.twice = s.twice /\ t.end = s.end /\ t.abortDue = s.abortDue
  BY DEF Machine

LEMMA LastRegion ==
    ASSUME NEW c \in Seq(Regions), c # <<>>
    PROVE  /\ Len(c) \in Nat \ {0} /\ Last(c) = c[Len(c)] /\ Last(c) \in Regions
           /\ Front(c) = SubSeq(c, 1, Len(c) - 1) /\ Len(c) - 1 \in 0 .. Len(c)
  <1>1. Len(c) \in Nat \ {0}
    BY EmptySeq
  <1> QED BY <1>1 DEF Last, Front

LEMMA StartCalmSets ==
    ASSUME NEW s \in Machine, s.ctl # <<>>, Top(s).f \in Fid, Top(s).lex # <<>>
    PROVE  \E x \in Regions :
              /\ x.kind = "calm" /\ x.f = Top(s).f /\ x.lex # <<>>
              /\ Same(StartCalm(s), s) /\ StartCalm(s).ctl = Append(Front(s.ctl), x)
  <1> DEFINE r == Top(s)
             f == r.f
             lex == Append(Front(r.lex), Finalize(f, FALSE))
             x == [r EXCEPT !.kind = "calm", !.lex = lex]
             n == Again(s.fr[f].calms)
             t == [s EXCEPT !.fr[f].calms = n]
             u == [t EXCEPT !.ctl = Append(Front(s.ctl), x)]
  <1>1. s.ctl \in Seq(Regions) /\ r \in Regions /\ s.fr[f] \in Frame
    BY LastRegion DEF Machine, Top
  <1>2. lex \in Seq(Step) /\ lex # <<>>
    <2>1. r.lex \in Seq(Step) /\ Finalize(f, FALSE) \in Step
      BY <1>1 DEF Regions, Step, Finalize
    <2>2. Front(r.lex) \in Seq(Step)
      BY <2>1, FrontProperties
    <2> QED BY <2>1, <2>2, AppendProperties
  <1>3. n \in Nat
    BY <1>1, AgainIsNat DEF Frame
  <1> HIDE DEF lex, n
  <1>4. x \in Regions /\ x.kind = "calm" /\ x.f = f /\ x.lex # <<>>
    <2> HIDE DEF r
    <2> QED BY <1>1, <1>2 DEF Regions, Kinds, Special
  <1> HIDE DEF x
  <1>5. Same(t, s) /\ t.ctl = s.ctl
    BY <1>3, CalmsSets
  <1>6. Append(Front(s.ctl), x) \in Seq(Regions)
    BY <1>1, <1>4, FrontProperties, AppendProperties
  <1>7. t \in Machine
    BY <1>5 DEF Same
  <1>8. Same(u, t) /\ u.ctl = Append(Front(s.ctl), x)
    <2> HIDE DEF t
    <2> QED BY <1>6, <1>7, CtlSets
  <1>9. StartCalm(s) = u
    BY <1>5 DEF StartCalm, Retop, u, t, x, n, lex
  <1>10. Same(u, s)
    <2> HIDE DEF u, t
    <2> QED BY <1>5, <1>8, SameTransitive
  <1> QED BY <1>4, <1>8, <1>9, <1>10

\* t differs from s in its frames only.
FramesOnly(t, s) ==
    /\ t \in Machine /\ t.ctl = s.ctl /\ t.used = s.used /\ t.head = s.head
    /\ t.handling = s.handling /\ t.heap = s.heap /\ t.queue = s.queue /\ t.twice = s.twice
    /\ t.end = s.end /\ t.abortDue = s.abortDue

LEMMA FrameSets ==
    ASSUME NEW s \in Machine, NEW f \in Fid, NEW a \in Frame
    PROVE  LET t == [s EXCEPT !.fr = [@ EXCEPT ![f] = a]]
           IN FramesOnly(t, s) /\ t.fr[f] = a /\ \A g \in Fid \ {f} : t.fr[g] = s.fr[g]
  BY DEF Machine, FramesOnly

\* The head frame has got a storm.
Armed(s, f, type, obj, due) ==
    [s EXCEPT !.fr[f].raised = TRUE, !.fr[f].type = type, !.fr[f].obj = obj, !.fr[f].due = due]

ArmedIs(t, s, f, type, obj, due) ==
    /\ FramesOnly(t, s) /\ \A g \in Fid \ {f} : t.fr[g] = s.fr[g]
    /\ t.fr[f].raised /\ t.fr[f].type = type /\ t.fr[f].obj = obj /\ t.fr[f].due = due
    /\ t.fr[f].next = s.fr[f].next /\ t.fr[f].handled = s.fr[f].handled
    /\ t.fr[f].shelters = s.fr[f].shelters
    /\ t.fr[f].list = s.fr[f].list /\ t.fr[f].mark = s.fr[f].mark

LEMMA ArmSets ==
    ASSUME NEW s \in Machine, NEW f \in Fid, NEW type \in Storms \cup {AnyStorm},
           NEW obj \in Objects \cup {NoObject}, NEW due \in 0 .. MaxFrames
    PROVE  ArmedIs(Armed(s, f, type, obj, due), s, f, type, obj, due)
  <1> DEFINE b == s.fr[f]
             a == [b EXCEPT !.raised = TRUE, !.type = type, !.obj = obj, !.due = due]
             t == [s EXCEPT !.fr = [@ EXCEPT ![f] = a]]
  <1>1. b \in Frame
    BY DEF Machine
  <1>2. /\ a \in Frame /\ a.raised /\ a.type = type /\ a.obj = obj /\ a.due = due
        /\ a.next = b.next /\ a.handled = b.handled /\ a.shelters = b.shelters
        /\ a.list = b.list /\ a.mark = b.mark
    <2> HIDE DEF b
    <2> QED BY <1>1 DEF Frame
  <1>3. [s EXCEPT !.fr[f].raised = TRUE, !.fr[f].type = type, !.fr[f].obj = obj,
                  !.fr[f].due = due] = t
    <2> DEFINE U(x) == [s EXCEPT !.fr = [@ EXCEPT ![f] = x]]
               b1 == [b EXCEPT !.raised = TRUE]
               b2 == [b1 EXCEPT !.type = type]
               b3 == [b2 EXCEPT !.obj = obj]
               t1 == [s EXCEPT !.fr[f].raised = TRUE]
               t2 == [t1 EXCEPT !.fr[f].type = type]
               t3 == [t2 EXCEPT !.fr[f].obj = obj]
               t4 == [t3 EXCEPT !.fr[f].due = due]
    <2>1. /\ \A x \in Frame : U(x).fr[f] = x
          /\ \A x, y \in Frame : [U(x) EXCEPT !.fr = [@ EXCEPT ![f] = y]] = U(y)
      BY DEF Machine
    <2>2. b1 \in Frame /\ b2 \in Frame /\ b3 \in Frame /\ [b3 EXCEPT !.due = due] = a /\ a \in Frame
      <3> HIDE DEF b
      <3> QED BY <1>1, <1>2 DEF Frame
    <2>3. t1 = U(b1)
      OBVIOUS
    <2>7. [s EXCEPT !.fr[f].raised = TRUE, !.fr[f].type = type, !.fr[f].obj = obj,
                    !.fr[f].due = due] = t4
      OBVIOUS
    <2>8. U(a) = t
      OBVIOUS
    <2> HIDE DEF U, a, b, t, t1
    <2>4. t2 = U(b2)
      <3> HIDE DEF b1
      <3> QED BY <2>1, <2>2, <2>3
    <2> HIDE DEF t2
    <2>5. t3 = U(b3)
      <3> HIDE DEF b2
      <3> QED BY <2>1, <2>2, <2>4
    <2> HIDE DEF t3
    <2>6. t4 = U(a)
      <3> HIDE DEF b3
      <3> QED BY <2>1, <2>2, <2>5
    <2> HIDE DEF t4
    <2> QED BY <2>6, <2>7, <2>8
  <1> HIDE DEF a
  <1>4. FramesOnly(t, s) /\ t.fr[f] = a /\ \A g \in Fid \ {f} : t.fr[g] = s.fr[g]
    BY <1>2, FrameSets
  <1>5. Armed(s, f, type, obj, due) = t
    BY <1>3 DEF Armed
  <1> HIDE DEF t
  <1> QED BY <1>2, <1>4, <1>5 DEF ArmedIs

HandledIs(t, s, f) ==
    /\ FramesOnly(t, s) /\ \A g \in Fid \ {f} : t.fr[g] = s.fr[g]
    /\ t.fr[f].handled /\ t.fr[f].mark = 0 /\ t.fr[f].list = <<>>
    /\ t.fr[f].raised = s.fr[f].raised /\ t.fr[f].type = s.fr[f].type
    /\ t.fr[f].obj = s.fr[f].obj /\ t.fr[f].due = s.fr[f].due
    /\ t.fr[f].next = s.fr[f].next /\ t.fr[f].shelters = s.fr[f].shelters

LEMMA HandledSets ==
    ASSUME NEW s \in Machine, NEW f \in Fid, s.fr[f].list = <<>>
    PROVE  HandledIs([s EXCEPT !.fr[f].handled = TRUE, !.fr[f].mark = Len(s.fr[f].list)], s, f)
  <1> DEFINE b == s.fr[f]
             a == [b EXCEPT !.handled = TRUE, !.mark = 0]
             t == [s EXCEPT !.fr = [@ EXCEPT ![f] = a]]
  <1>1. b \in Frame /\ b.list = <<>>
    BY DEF Machine
  <1>2. /\ a \in Frame /\ a.handled /\ a.mark = 0 /\ a.list = <<>> /\ a.raised = b.raised
        /\ a.type = b.type /\ a.obj = b.obj /\ a.due = b.due /\ a.next = b.next
        /\ a.shelters = b.shelters
    <2> HIDE DEF b
    <2> QED BY <1>1 DEF Frame
  <1>3. [s EXCEPT !.fr[f].handled = TRUE, !.fr[f].mark = Len(s.fr[f].list)] = t
    BY <1>1 DEF Machine, Frame
  <1> HIDE DEF a
  <1>4. FramesOnly(t, s) /\ t.fr[f] = a /\ \A g \in Fid \ {f} : t.fr[g] = s.fr[g]
    BY <1>2, FrameSets
  <1> HIDE DEF t
  <1>5. HandledIs(t, s, f)
    BY <1>2, <1>4 DEF HandledIs, b
  <1> QED BY <1>3, <1>5

\* The region at the top becomes one of another kind, with another exit list.
LEMMA RegionSets ==
    ASSUME NEW r \in Regions, NEW kind \in {"handler", "calm"}, NEW e \in Step, r.lex # <<>>
    PROVE  LET x == [r EXCEPT !.kind = kind, !.lex = Append(Front(@), e)]
           IN x \in Regions /\ x.kind = kind /\ x.f = r.f /\ x.lex # <<>>
  <1> DEFINE lex == Append(Front(r.lex), e)
  <1>1. lex \in Seq(Step) /\ lex # <<>>
    <2>1. r.lex \in Seq(Step)
      BY DEF Regions
    <2>2. Front(r.lex) \in Seq(Step)
      BY <2>1, FrontProperties
    <2> QED BY <2>2, AppendProperties
  <1>2. kind \in Kinds
    BY DEF Kinds, Special
  <1> HIDE DEF lex
  <1>3. LET x == [r EXCEPT !.kind = kind, !.lex = lex]
        IN x \in Regions /\ x.kind = kind /\ x.f = r.f /\ x.lex # <<>>
    BY <1>1, <1>2 DEF Regions
  <1> QED BY <1>3 DEF lex

\* A dispatch pops the frame f and tears it down; a shelter that matches makes
\* it the handling frame, and otherwise its CALM body starts.
Dispatched(s, t, f, x) ==
    /\ t \in Machine /\ t.used = s.used /\ t.end = s.end /\ t.abortDue = s.abortDue
    /\ t.ctl = Append(Front(s.ctl), x) /\ x.f = f /\ x.lex # <<>>
    /\ t.head = IF s.head = f THEN s.fr[f].next ELSE s.head
    /\ t.queue = {} /\ t.heap = (s.heap \ Listed(s, f)) \ s.queue
    /\ t.twice = (s.twice \/ ~(Listed(s, f) \subseteq s.heap)
                          \/ ~(s.queue \subseteq s.heap \ Listed(s, f)))
    /\ \A g \in Fid \ {f} : Alike(t.fr[g], s.fr[g])
    /\ t.fr[f].list = <<>> /\ t.fr[f].mark = 0
    /\ t.fr[f].next = s.fr[f].next /\ t.fr[f].raised = s.fr[f].raised
    /\ t.fr[f].type = s.fr[f].type /\ t.fr[f].shelters = s.fr[f].shelters
    /\ t.fr[f].due = s.fr[f].due
    /\ IF Match(s.fr[f].type, s.fr[f].shelters)
       THEN x.kind = "handler" /\ t.fr[f].handled /\ t.handling = f
       ELSE x.kind = "calm" /\ t.fr[f].handled = s.fr[f].handled /\ t.handling = Null

LEMMA DispatchSets ==
    ASSUME NEW s \in Machine, s.ctl # <<>>, NEW f \in Fid, Top(s).f = f, Top(s).lex # <<>>
    PROVE  \E x \in Regions : Dispatched(s, Dispatch(s, f), f, x)
  <1> DEFINE r == Top(s)
             left == Leave(s, f)
             popped == HandlingBegin(left, f)
             match == Match(s.fr[f].type, s.fr[f].shelters)
  <1>1. s.ctl \in Seq(Regions) /\ r \in Regions /\ f \in 0 .. MaxFrames /\ 0 \in 0 .. MaxFrames
    <2>1. s.ctl \in Seq(Regions)
      BY DEF Machine
    <2>2. r \in Regions
      BY <2>1, LastRegion DEF Top
    <2>3. f \in 0 .. MaxFrames /\ 0 \in 0 .. MaxFrames
      BY WeatherAssumption
    <2> QED BY <2>1, <2>2, <2>3
  <1>2. /\ left \in Machine /\ left.ctl = s.ctl /\ left.used = s.used
        /\ left.head = IF s.head = f THEN s.fr[f].next ELSE s.head
        /\ left.end = s.end /\ left.abortDue = s.abortDue
        /\ \A g \in Fid : Like(left.fr[g], s.fr[g])
        /\ \A g \in Fid \ {f} : Alike(left.fr[g], s.fr[g])
        /\ left.fr[f].list = <<>> /\ left.fr[f].mark = 0
        /\ left.queue = {} /\ left.heap = (s.heap \ Listed(s, f)) \ s.queue
        /\ left.twice = (s.twice \/ ~(Listed(s, f) \subseteq s.heap)
                                 \/ ~(s.queue \subseteq s.heap \ Listed(s, f)))
    BY LeaveSets
  <1> HIDE DEF left
  <1>3. /\ popped \in Machine /\ popped.handling = f /\ popped.ctl = s.ctl /\ popped.fr = left.fr
        /\ popped.used = left.used /\ popped.head = left.head /\ popped.heap = left.heap
        /\ popped.queue = left.queue /\ popped.twice = left.twice /\ popped.end = left.end
        /\ popped.abortDue = left.abortDue
    BY <1>1, <1>2, HandlingSets DEF HandlingBegin
  <1> HIDE DEF popped
  <1>4. CASE match
    <2> DEFINE t == [popped EXCEPT !.fr[f].handled = TRUE, !.fr[f].mark = Len(popped.fr[f].list)]
               e == Finalize(f, TRUE)
               x == [r EXCEPT !.kind = "handler", !.lex = Append(Front(@), e)]
               c == Append(Front(s.ctl), x)
               u == [t EXCEPT !.ctl = c]
    <2>1. /\ FramesOnly(t, popped) /\ \A g \in Fid \ {f} : t.fr[g] = popped.fr[g]
          /\ t.fr[f].handled /\ t.fr[f].mark = 0 /\ t.fr[f].list = <<>>
          /\ t.fr[f].raised = popped.fr[f].raised /\ t.fr[f].type = popped.fr[f].type
          /\ t.fr[f].due = popped.fr[f].due /\ t.fr[f].next = popped.fr[f].next
          /\ t.fr[f].shelters = popped.fr[f].shelters
      <3>1. popped \in Machine /\ popped.fr[f].list = <<>>
        BY <1>2, <1>3
      <3>2. HandledIs(t, popped, f)
        BY <3>1, HandledSets
      <3> HIDE DEF t
      <3> QED BY <3>2 DEF HandledIs
    <2>2. e \in Step
      BY DEF Finalize, Step
    <2>3. x \in Regions /\ x.kind = "handler" /\ x.f = f /\ x.lex # <<>>
      <3> HIDE DEF e, r
      <3> QED BY <1>1, <2>2, RegionSets DEF r
    <2> HIDE DEF t, x
    <2>4. c \in Seq(Regions)
      BY <1>1, <2>3, FrontProperties, AppendProperties
    <2> HIDE DEF c
    <2>5. Same(u, t) /\ u.ctl = c
      BY <2>1, <2>4, CtlSets DEF FramesOnly
    <2>6. t.ctl = s.ctl
      BY <1>3, <2>1 DEF FramesOnly
    <2>7. Dispatch(s, f) = u
      BY <1>4, <2>6 DEF Dispatch, Retop, u, t, c, x, e, r, popped, left, match
    <2> HIDE DEF u
    <2>8. \A g \in Fid \ {f} : Alike(u.fr[g], s.fr[g])
      BY <1>2, <1>3, <2>1, <2>5 DEF Same, Alike, Like
    <2>9. /\ u.fr[f].handled /\ u.fr[f].mark = 0 /\ u.fr[f].list = <<>>
          /\ u.fr[f].next = s.fr[f].next /\ u.fr[f].raised = s.fr[f].raised
          /\ u.fr[f].type = s.fr[f].type /\ u.fr[f].shelters = s.fr[f].shelters
          /\ u.fr[f].due = s.fr[f].due
      <3>1. Alike(u.fr[f], t.fr[f])
        BY <2>5 DEF Same
      <3>2. Like(popped.fr[f], s.fr[f])
        BY <1>2, <1>3
      <3>3. /\ u.fr[f].handled /\ u.fr[f].mark = 0 /\ u.fr[f].list = <<>>
            /\ u.fr[f].next = popped.fr[f].next /\ u.fr[f].raised = popped.fr[f].raised
            /\ u.fr[f].type = popped.fr[f].type /\ u.fr[f].shelters = popped.fr[f].shelters
            /\ u.fr[f].due = popped.fr[f].due
        BY <2>1, <3>1 DEF Alike, Like
      <3> QED BY <3>2, <3>3 DEF Like
    <2>10. /\ u \in Machine /\ u.used = s.used /\ u.end = s.end /\ u.abortDue = s.abortDue
           /\ u.head = left.head /\ u.queue = left.queue /\ u.heap = left.heap
           /\ u.twice = left.twice /\ u.handling = f
      BY <1>2, <1>3, <2>1, <2>5 DEF Same, FramesOnly
    <2>11. Dispatched(s, u, f, x)
      BY <1>2, <1>4, <2>3, <2>5, <2>8, <2>9, <2>10 DEF Dispatched, c, match
    <2> QED BY <2>3, <2>7, <2>11
  <1>5. CASE ~match
    <2> DEFINE t == HandlingEnd(popped, f)
               u == StartCalm(t)
    <2>1. /\ t \in Machine /\ t.handling = 0 /\ t.ctl = s.ctl /\ t.fr = left.fr
          /\ t.used = left.used /\ t.head = left.head /\ t.heap = left.heap
          /\ t.queue = left.queue /\ t.twice = left.twice /\ t.end = left.end
          /\ t.abortDue = left.abortDue
      <3>1. t = [popped EXCEPT !.handling = 0]
        BY <1>3 DEF HandlingEnd
      <3> HIDE DEF t
      <3> QED BY <1>1, <1>3, <3>1, HandlingSets
    <2>2. Dispatch(s, f) = u
      BY <1>5 DEF Dispatch, popped, left, match
    <2> HIDE DEF t
    <2>3. Top(t) = Top(s)
      BY <2>1 DEF Top
    <2>4. PICK x \in Regions : /\ x.kind = "calm" /\ x.f = f /\ x.lex # <<>>
                               /\ Same(u, t) /\ u.ctl = Append(Front(s.ctl), x)
      BY <2>1, <2>3, StartCalmSets
    <2> HIDE DEF u
    <2>5. \A g \in Fid \ {f} : Alike(u.fr[g], s.fr[g])
      BY <1>2, <2>1, <2>4 DEF Same, Alike, Like
    <2>6. /\ u.fr[f].mark = 0 /\ u.fr[f].list = <<>> /\ u.fr[f].handled = s.fr[f].handled
          /\ u.fr[f].next = s.fr[f].next /\ u.fr[f].raised = s.fr[f].raised
          /\ u.fr[f].type = s.fr[f].type /\ u.fr[f].shelters = s.fr[f].shelters
          /\ u.fr[f].due = s.fr[f].due
      BY <1>2, <2>1, <2>4 DEF Same, Alike, Like
    <2>7. /\ u \in Machine /\ u.used = s.used /\ u.end = s.end /\ u.abortDue = s.abortDue
          /\ u.head = left.head /\ u.queue = left.queue /\ u.heap = left.heap
          /\ u.twice = left.twice /\ u.handling = 0
      BY <1>2, <2>1, <2>4 DEF Same
    <2>8. Dispatched(s, u, f, x)
      BY <1>2, <1>5, <2>4, <2>5, <2>6, <2>7 DEF Dispatched, match
    <2> QED BY <2>2, <2>8
  <1> QED BY <1>4, <1>5

----------------------------------------------------------------------------
(* The control stack at its top *)

\* A region that is not plain code has plain code and bodies below it only.
LEMMA TopRegion ==
    ASSUME NEW c, Shape(c), c # <<>>, Last(c).kind \notin Code
    PROVE  /\ Last(c) \in Regions /\ Last(c).f \in Fid /\ Len(c) > 1
           /\ Last(c).kind \in Blocks => Last(c).lex # <<>>
           /\ \A j \in 1 .. Len(c) - 1 : c[j].kind \notin Special
           /\ \A kind \in Special :
                 Of(c, kind) = IF Last(c).kind = kind THEN {Last(c).f} ELSE {}
  <1> DEFINE n == Len(c)
  <1>1. c \in Seq(Regions) /\ n \in Nat \ {0} /\ Last(c) = c[n] /\ Last(c) \in Regions
    BY LastRegion DEF Shape
  <1>2. Level(c, n)
    BY <1>1 DEF Shape
  <1> HIDE DEF n
  <1>3. n # 1 /\ Last(c).f \in Fid /\ (Last(c).kind \in Blocks => Last(c).lex # <<>>)
    BY <1>1, <1>2 DEF Level, Code
  <1>4. \A j \in 1 .. n - 1 : c[j].kind \notin Special
    BY <1>1, <1>2 DEF Level
  <1>5. ASSUME NEW kind \in Special
        PROVE  Of(c, kind) = IF Last(c).kind = kind THEN {Last(c).f} ELSE {}
    <2>1. \A j \in 1 .. n : j = n \/ j \in 1 .. n - 1
      BY <1>1
    <2>2. {j \in 1 .. n : c[j].kind = kind} = IF Last(c).kind = kind THEN {n} ELSE {}
      BY <1>1, <1>4, <2>1
    <2> QED BY <1>1, <2>2 DEF Of, n
  <1>6. n > 1
    BY <1>1, <1>3
  <1> QED BY <1>1, <1>3, <1>4, <1>5, <1>6 DEF n

\* A body turns into a handler or a CALM body, and a handler into a CALM body.
LEMMA RetopShape ==
    ASSUME NEW c, Shape(c), c # <<>>, Last(c).kind \in {"body", "handler"},
           NEW x \in Regions, x.kind \in {"handler", "calm"}, x.f = Last(c).f, x.lex # <<>>
    PROVE  LET d == Append(Front(c), x)
           IN /\ Shape(d)
              /\ \A kind \in Blocks \cup {"return"} :
                    Of(d, kind) = (Of(c, kind) \ (IF Last(c).kind = kind THEN {x.f} ELSE {}))
                                    \cup (IF x.kind = kind THEN {x.f} ELSE {})
  <1> DEFINE n == Len(c)
             e == Front(c)
             d == Append(e, x)
  <1>1. /\ c \in Seq(Regions) /\ n \in Nat \ {0} /\ Last(c) = c[n] /\ Last(c) \in Regions
        /\ e = SubSeq(c, 1, n - 1) /\ n - 1 \in 0 .. n
    BY LastRegion DEF Shape
  <1>2. /\ n > 1 /\ Last(c).f \in Fid /\ \A j \in 1 .. n - 1 : c[j].kind \notin Special
    BY TopRegion DEF Code
  <1>3. /\ e \in Seq(Regions) /\ Len(e) = n - 1 /\ \A j \in 1 .. n - 1 : e[j] = c[j]
        /\ Shape(e)
    <2>1. e = SubSeq(c, 1, n - 1) /\ n - 1 \in 0 .. Len(c)
      BY <1>1
    <2> HIDE DEF e
    <2>2. e \in Seq(Regions) /\ Len(e) = n - 1 /\ \A j \in 1 .. n - 1 : e[j] = c[j]
      <3> DEFINE m == n - 1
      <3>1. m \in 0 .. Len(c) /\ e = SubSeq(c, 1, m)
        BY <2>1
      <3> HIDE DEF m
      <3>2. e \in Seq(Regions) /\ Len(e) = m /\ \A j \in 1 .. m : e[j] = c[j]
        BY <1>1, <3>1, CutSeq
      <3> QED BY <3>2 DEF m
    <2>3. Shape(e)
      BY <2>1, ShapeCut
    <2> QED BY <2>2, <2>3
  <1>4. /\ d \in Seq(Regions) /\ \A j \in 1 .. n - 1 : d[j] = c[j] /\ d[n] = x
    <2>1. Len(e) + 1 = n
      BY <1>1, <1>3
    <2> HIDE DEF e, n
    <2> QED BY <1>3, <2>1, AppendProperties
  <1>5. Level(c, n)
    BY <1>1 DEF Shape
  <1> HIDE DEF n, d
  <1>6. Level(d, n)
    <2>1. \A j \in 1 .. n - 1 : c[j].kind \in Blocks => c[j].f < x.f
      BY <1>1, <1>5 DEF Level, Blocks
    <2>2. Threaded(d, n)
      <3>1. n \in 1 .. n /\ d[n] = x /\ \A m \in n .. n : d[m].kind # "call"
        BY <1>1, <1>2, <1>4
      <3> QED BY <3>1 DEF Threaded, Special
    <2>3. d[n] = x
      BY <1>2, <1>4, <1>1
    <2>4. \A j \in 1 .. n - 1 : d[j].kind \notin Special
      BY <1>2, <1>4
    <2>5. \A j \in 1 .. n - 1 : d[j].kind \in Blocks => d[j].f < d[n].f
      BY <1>4, <2>1, <2>3
    <2>6. x.kind \in Blocks /\ x.kind \notin {"exit", "return", "call"} /\ x.f \in Fid /\ n # 1
      BY <1>2 DEF Blocks
    <2> QED BY <2>2, <2>3, <2>4, <2>5, <2>6 DEF Level
  <1>7. Shape(d)
    <2>1. Len(e) + 1 = n
      BY <1>1, <1>3
    <2> QED BY <1>3, <1>6, <2>1, ShapePush DEF d
  <1>8. ASSUME NEW kind \in Blocks \cup {"return"}
        PROVE  Of(e, kind) = Of(c, kind) \ (IF Last(c).kind = kind THEN {x.f} ELSE {})
    <2>1. \A k \in n - 1 + 1 .. n : k = n
      BY <1>1
    <2>2. CASE Last(c).kind # kind
      <3>1. Of(e, kind) = Of(c, kind)
        BY <1>1, <2>1, <2>2, OfCut DEF n
      <3> QED BY <2>2, <3>1
    <2>3. CASE Last(c).kind = kind
      <3> DEFINE m == n - 1
      <3>1. /\ n \in m + 1 .. Len(c) /\ m \in 0 .. Len(c) /\ c[n].kind \in Blocks
            /\ \A k \in m + 1 .. Len(c) : k = n
        BY <1>1, <2>1 DEF Blocks, n
      <3> HIDE DEF m
      <3>3. Of(SubSeq(c, 1, m), c[n].kind) = Of(c, c[n].kind) \ {c[n].f}
        BY <3>1, OfCutBlock
      <3>2. Of(e, kind) = Of(c, kind) \ {c[n].f}
        BY <1>1, <2>3, <3>3 DEF m
      <3> QED BY <1>1, <2>3, <3>2
    <2> QED BY <2>2, <2>3
  <1>9. ASSUME NEW kind \in Blocks \cup {"return"}
        PROVE  Of(d, kind) = (Of(c, kind) \ (IF Last(c).kind = kind THEN {x.f} ELSE {}))
                                \cup (IF x.kind = kind THEN {x.f} ELSE {})
    BY <1>3, <1>8, OfPush DEF d
  <1> QED BY <1>7, <1>9 DEF d

----------------------------------------------------------------------------
(* What the steps do to the chain, the storms and the lists *)

LEMMA FramesAreFid ==
    ASSUME NEW s, s \in Machine, Chained(s)
    PROVE  /\ Opened(s) \subseteq Fid /\ Linked(s) \subseteq Opened(s)
           /\ Bodies(s) \subseteq Fid /\ Calms(s) \subseteq Fid /\ Handlers(s) \subseteq Fid
           /\ s.used \in 0 .. MaxFrames
           /\ \A f \in Fid : s.fr[f] \in Frame
  <1>1. MaxFrames \in Nat /\ s.used \in 0 .. MaxFrames
    BY WeatherAssumption DEF Machine
  <1>2. 1 .. s.used \subseteq Fid
    BY <1>1
  <1>3. Opened(s) \subseteq Fid
    BY <1>2 DEF Chained
  <1>4. /\ Bodies(s) \subseteq Opened(s) /\ Calms(s) \subseteq Opened(s)
        /\ Handlers(s) \subseteq Opened(s)
    BY DEF Opened
  <1>5. Linked(s) \subseteq Opened(s)
    BY <1>4 DEF Linked
  <1>6. \A f \in Fid : s.fr[f] \in Frame
    BY DEF Machine
  <1> QED BY <1>1, <1>3, <1>4, <1>5, <1>6

\* plant_calm or a dispatch pops the greatest linked frame, and a frame that
\* is not linked changes nothing.
LEMMA PopChained ==
    ASSUME NEW s, NEW t, s \in Machine, t \in Machine, Chained(s), NEW f \in Fid,
           t.head = IF s.head = f THEN s.fr[f].next ELSE s.head,
           \A g \in Fid : t.fr[g].next = s.fr[g].next,
           t.used = s.used, Linked(t) = Linked(s) \ {f}, f \in Linked(s) => s.head = f,
           Opened(t) \subseteq Opened(s)
    PROVE  Chained(t)
  <1>0. Linked(s) \subseteq Fid /\ MaxFrames \in Nat
    BY FramesAreFid, WeatherAssumption
  <1> DEFINE L == Linked(s)
             M == Linked(t)
  <1>h. /\ s.head \in L \cup {0} /\ s.head < MaxFrames + 1
        /\ \A e \in L : e < MaxFrames + 1 => e <= s.head
    BY DEF Chained, Below
  <1>n. \A g \in L : /\ s.fr[g].next \in L \cup {0} /\ s.fr[g].next < g
                      /\ \A e \in L : e < g => e <= s.fr[g].next
    BY DEF Chained, Below
  <1>m. M = L \ {f} /\ L \subseteq Fid /\ (f \in L => s.head = f)
    BY <1>0
  <1> HIDE DEF L, M
  <1>1. /\ t.head \in M \cup {0} /\ t.head < MaxFrames + 1
        /\ \A e \in M : e < MaxFrames + 1 => e <= t.head
    <2>1. CASE f \in L
      <3>1. s.head = f /\ t.head = s.fr[f].next
        BY <1>m, <2>1
      <3>2. t.head \in M \cup {0} /\ t.head < f
        BY <1>0, <1>m, <1>n, <2>1, <3>1
      <3>3. \A e \in M : e < f
        BY <1>0, <1>h, <1>m, <3>1
      <3>4. t.head < MaxFrames + 1
        <4>1. t.head \in Fid \cup {0}
          BY <1>m, <3>2
        <4> QED BY <3>2, <4>1, FidFacts
      <3>5. \A e \in M : e <= t.head
        BY <1>m, <1>n, <2>1, <3>1, <3>3
      <3> QED BY <3>2, <3>4, <3>5
    <2>2. CASE f \notin L
      <3>1. s.head # f /\ M = L
        BY <1>h, <1>m, <2>2
      <3> QED BY <1>h, <3>1
    <2> QED BY <2>1, <2>2
  <1>2. ASSUME NEW g \in M
        PROVE  /\ t.fr[g].next \in M \cup {0} /\ t.fr[g].next < g
               /\ \A e \in M : e < g => e <= t.fr[g].next
    <2>1. g \in L /\ g \in Fid /\ t.fr[g].next = s.fr[g].next /\ g # f
      BY <1>m
    <2>2. s.fr[g].next \in L \cup {0} /\ s.fr[g].next < g
      BY <1>n, <2>1
    <2>3. s.fr[g].next # f
      <3> SUFFICES ASSUME s.fr[g].next = f PROVE FALSE
        OBVIOUS
      <3>1. f \in L
        BY <2>2
      <3>2. g <= f /\ f < g
        BY <1>h, <1>m, <1>0, <2>1, <2>2, <3>1
      <3> QED BY <1>0, <2>1, <3>2
    <2> QED BY <1>m, <1>n, <2>1, <2>2, <2>3
  <1>3. Opened(t) \subseteq 1 .. t.used /\ \A g \in Fid : t.fr[g].next < g
    BY DEF Chained
  <1> QED BY <1>1, <1>2, <1>3 DEF Chained, Below, L, M

\* A teardown frees what the frame's list and the queue hold.
LEMMA TornKept ==
    ASSUME NEW s, NEW t, s \in Machine, t \in Machine, Kept(s), NEW f \in Fid,
           \A g \in Fid \ {f} : t.fr[g].list = s.fr[g].list /\ t.fr[g].mark = s.fr[g].mark,
           t.fr[f].list = <<>>, t.fr[f].mark = 0, t.queue = {},
           t.heap = (s.heap \ Listed(s, f)) \ s.queue,
           t.twice = (s.twice \/ ~(Listed(s, f) \subseteq s.heap)
                              \/ ~(s.queue \subseteq s.heap \ Listed(s, f))),
           \A g \in Fid \ {f} : g \notin Opened(t) \ Gone(t) => s.fr[g].list = <<>>
    PROVE  Kept(t)
  <1>1. Listed(t, f) = {} /\ \A g \in Fid \ {f} : Listed(t, g) = Listed(s, g)
    BY DEF Listed, ToSet
  <1>2. /\ ~s.twice /\ s.queue \subseteq s.heap
        /\ \A g \in Fid : s.fr[g].mark = 0
        /\ \A g \in Fid : Listed(s, g) \subseteq s.heap \ s.queue
        /\ \A g, e \in Fid : g # e => Listed(s, g) \cap Listed(s, e) = {}
        /\ \A h \in Handles \cap s.heap : h \in s.queue \/ \E g \in Fid : h \in Listed(s, g)
    BY DEF Kept
  <1>3. ~t.twice /\ t.queue \subseteq t.heap
    BY <1>2
  <1>4. /\ \A g \in Fid : t.fr[g].mark = 0 /\ (g \notin Opened(t) \ Gone(t) => t.fr[g].list = <<>>)
        /\ \A g \in Fid : Len(t.fr[g].list) <= ExitMax
    <2>1. Len(<<>>) <= ExitMax
      BY WeatherAssumption
    <2>2. \A g \in Fid : Len(s.fr[g].list) <= ExitMax
      BY DEF Kept
    <2> QED BY <1>2, <2>1, <2>2
  <1>5. \A g \in Fid : Listed(t, g) \subseteq t.heap \ t.queue
    BY <1>1, <1>2
  <1>6. \A g, e \in Fid : g # e => Listed(t, g) \cap Listed(t, e) = {}
    BY <1>1, <1>2
  <1>7. \A h \in Handles \cap t.heap : h \in t.queue \/ \E g \in Fid : h \in Listed(t, g)
    BY <1>1, <1>2
  <1> QED BY <1>3, <1>4, <1>5, <1>6, <1>7 DEF Kept

\* A step that raises no storm, and closes no block that waits on one, loses none.
LEMMA PassedKept ==
    ASSUME NEW s, NEW t, s \in Machine, Chained(s), Passed(s), t.end = "" => s.end = "",
           t.used = s.used, \A f \in Fid : Like(t.fr[f], s.fr[f]),
           \A f \in Opened(s) : Waiting(s, f) => f \in Opened(t),
           \A f \in Calms(s) : Waiting(s, f) => f \in Calms(t)
    PROVE  Passed(t)
  <1> SUFFICES ASSUME t.end = "", NEW f \in 1 .. t.used, Waiting(t, f), f \notin Opened(t)
               PROVE  \/ t.fr[f].due # Null /\ t.fr[t.fr[f].due].raised
                      \/ \E g \in Calms(t) : Waiting(t, g) /\ t.fr[g].due = t.fr[f].due
    BY DEF Passed
  <1>1. /\ Calms(s) \subseteq Fid /\ s.used \in 0 .. MaxFrames
        /\ \A g \in Fid : s.fr[g] \in Frame
    BY FramesAreFid
  <1>2. f \in Fid /\ s.end = "" /\ f \in 1 .. s.used
    BY <1>1, FidFacts
  <1>3. \A g \in Fid : Waiting(t, g) = Waiting(s, g)
    BY DEF Waiting, Like
  <1>4. Waiting(s, f) /\ f \notin Opened(s)
    BY <1>2, <1>3
  <1>5. t.fr[f].due = s.fr[f].due /\ s.fr[f].due \in 0 .. MaxFrames
    BY <1>1, <1>2 DEF Like, Frame
  <1>6. \/ s.fr[f].due # Null /\ s.fr[s.fr[f].due].raised
        \/ \E g \in Calms(s) : Waiting(s, g) /\ s.fr[g].due = s.fr[f].due
    BY <1>2, <1>4, Zenon DEF Passed
  <1>7. CASE s.fr[f].due # Null /\ s.fr[s.fr[f].due].raised
    <2> DEFINE e == s.fr[f].due
    <2>1. e # 0 /\ s.fr[e].raised /\ e \in 0 .. MaxFrames /\ t.fr[f].due = e
      BY <1>5, <1>7
    <2> HIDE DEF e
    <2>2. e \in Fid
      BY <2>1, FidFacts
    <2>3. t.fr[e].raised
      BY <2>1, <2>2 DEF Like
    <2> QED BY <2>1, <2>3
  <1>8. ASSUME NEW g \in Calms(s), Waiting(s, g), s.fr[g].due = s.fr[f].due
        PROVE  g \in Calms(t) /\ Waiting(t, g) /\ t.fr[g].due = t.fr[f].due
    <2>1. g \in Fid /\ g \in Calms(t)
      BY <1>1, <1>8
    <2>2. t.fr[g].due = s.fr[g].due
      BY <2>1 DEF Like
    <2> QED BY <1>3, <1>5, <1>8, <2>1, <2>2
  <1> QED BY <1>6, <1>7, <1>8

\* Plain code comes and goes without a trace.
LEMMA CodeOnly ==
    ASSUME NEW s, Inv(s), NEW t, Same(t, s), Shape(t.ctl),
           \A kind \in Blocks \cup {"return"} : Of(t.ctl, kind) = Of(s.ctl, kind)
    PROVE  Inv(t)
  <1>1. /\ Bodies(t) = Bodies(s) /\ Handlers(t) = Handlers(s) /\ Calms(t) = Calms(s)
        /\ Gone(t) = Gone(s) /\ Opened(t) = Opened(s)
    BY DEF Blocks, Bodies, Handlers, Calms, Gone, Opened
  <1>2. s \in Machine /\ t \in Machine /\ Chained(s) /\ Storming(s) /\ Passed(s) /\ Kept(s)
    BY DEF Inv, Same
  <1>3. /\ Bodies(s) \subseteq Fid /\ Calms(s) \subseteq Fid /\ Handlers(s) \subseteq Fid
        /\ Linked(s) \subseteq Fid /\ s.used \in 0 .. MaxFrames
    BY <1>2, FramesAreFid
  <1>4. \A f \in Fid : Like(t.fr[f], s.fr[f]) /\ Listed(t, f) = Listed(s, f)
    BY DEF Same, Alike, Listed
  <1>5. Linked(t) = Linked(s)
    BY <1>1, <1>3, <1>4 DEF Linked, Like
  <1>6. Chained(t)
    BY <1>1, <1>2, <1>3, <1>4, <1>5 DEF Chained, Below, Like, Same
  <1>7. \A f \in Fid : Waiting(t, f) = Waiting(s, f)
    BY <1>4 DEF Waiting, Like
  <1>8. Storming(t)
    <2>1. \A f \in Calms(s) : Greatest(s, s.fr[f].type, s.fr[f].due) =>
                                Greatest(t, t.fr[f].type, t.fr[f].due)
      BY <1>1, <1>3, <1>4 DEF Greatest, Like
    <2> QED BY <1>1, <1>2, <1>3, <1>4, <1>7, <2>1 DEF Storming, Like, Same
  <1>9. Passed(t)
    <2>1. t.end = s.end /\ t.used = s.used
      BY DEF Same
    <2> QED BY <1>1, <1>2, <1>4, <2>1, PassedKept
  <1>10. Kept(t)
    BY <1>1, <1>2, <1>4 DEF Kept, Same, Alike
  <1> QED BY <1>2, <1>6, <1>8, <1>9, <1>10 DEF Inv
----------------------------------------------------------------------------
(* A storm is raised *)

\* The blocks are nested as their frames are numbered.
LEMMA LevelFacts ==
    ASSUME NEW c, Shape(c), NEW k \in 1 .. Len(c)
    PROVE  /\ c[k] \in Regions /\ (c[k].kind \notin Code => c[k].f \in Fid)
           /\ k = 1 => c[k].kind = "call"
           /\ \A j \in 1 .. k - 1 :
                 c[j].kind \in Blocks /\ c[k].kind \in Blocks => c[j].f < c[k].f
           /\ \A j \in 1 .. k - 1 :
                 c[j].kind \in Special => c[k].kind \in Code /\ c[j].kind # "return"
           /\ c[k].kind \in {"exit", "return"} => Closing(c, k)
           /\ c[k].kind = "exit" => c[k].chain = <<Finalize(c[k].f, TRUE)>> /\ c[k].i = 1
           /\ Threaded(c, k)
  <1>1. c \in Seq(Regions) /\ Level(c, k)
    BY DEF Shape
  <1>2. c[k] \in Regions
    BY <1>1
  <1> QED BY <1>1, <1>2, Zenon DEF Level

\* A frame has a block open exactly if a level carries it.
LEMMA OpenedLevels ==
    ASSUME NEW s, s.ctl \in Seq(Regions), NEW f
    PROVE  f \in Opened(s) <=> LevelsOf(s, f) # {}
  <1>1. DOMAIN s.ctl = 1 .. Len(s.ctl)
    OBVIOUS
  <1>2. Opened(s) = {s.ctl[k].f : k \in {j \in 1 .. Len(s.ctl) : s.ctl[j].kind \in Blocks}}
    BY DEF Opened, Bodies, Handlers, Calms, Of, Blocks
  <1> QED BY <1>1, <1>2 DEF LevelsOf, Levels

\* Where the storm lands: the one level of its frame, with every running body
\* below it.
LEMMA Landing ==
    ASSUME NEW s, s \in Machine, Shape(s.ctl), NEW f, f \in Bodies(s),
           \A e \in Bodies(s) : e <= f
    PROVE  \E k \in 1 .. Len(s.ctl) :
              /\ LevelsOf(s, f) = {k} /\ s.ctl[k].kind = "body" /\ s.ctl[k].f = f
              /\ LET c == SubSeq(s.ctl, 1, k)
                 IN /\ Shape(c) /\ c # <<>> /\ Last(c) = s.ctl[k] /\ Of(c, "body") = Bodies(s)
                    /\ \A kind \in Special : Of(c, kind) = {}
  <1> DEFINE c == s.ctl
  <1>1. c \in Seq(Regions) /\ DOMAIN c = 1 .. Len(c)
    <2>1. c \in Seq(Regions)
      BY DEF Machine
    <2> QED BY <2>1
  <1>2. PICK k \in 1 .. Len(c) : c[k].kind = "body" /\ c[k].f = f
    BY DEF Bodies, Of
  <1>3. LevelsOf(s, f) = {k}
    <2>1. k \in LevelsOf(s, f)
      BY <1>1, <1>2 DEF LevelsOf, Levels, Blocks
    <2>2. ASSUME NEW j \in LevelsOf(s, f) PROVE j = k
      <3>1. j \in 1 .. Len(c) /\ c[j].kind \in Blocks /\ c[j].f = f /\ c[k].kind \in Blocks
        BY <1>1, <1>2, <2>2 DEF LevelsOf, Levels, Blocks
      <3>2. f \in Fid
        BY <1>2, LevelFacts DEF Code
      <3>3. j \in 1 .. k - 1 \/ k \in 1 .. j - 1 \/ j = k
        BY <3>1
      <3>4. ASSUME j \in 1 .. k - 1 PROVE FALSE
        <4>1. c[j].f < c[k].f
          BY <3>1, <3>4, LevelFacts
        <4> QED BY <1>2, <3>1, <3>2, <4>1
      <3>5. ASSUME k \in 1 .. j - 1 PROVE FALSE
        <4>1. c[k].f < c[j].f
          BY <3>1, <3>5, LevelFacts
        <4> QED BY <1>2, <3>1, <3>2, <4>1
      <3> QED BY <3>3, <3>4, <3>5
    <2> QED BY <2>1, <2>2
  <1> DEFINE d == SubSeq(c, 1, k)
  <1>4. Shape(d) /\ d \in Seq(Regions) /\ Len(d) = k /\ \A i \in 1 .. k : d[i] = c[i]
    <2>1. k \in 0 .. Len(c)
      OBVIOUS
    <2> QED BY <1>1, <2>1, ShapeCut, CutSeq
  <1>5. Of(d, "body") = Bodies(s)
    <2>1. ASSUME NEW j \in k + 1 .. Len(c), c[j].kind = "body" PROVE FALSE
      <3>1. j \in 1 .. Len(c) /\ k \in 1 .. j - 1
        OBVIOUS
      <3>2. f < c[j].f /\ f \in Fid /\ c[j].f \in Fid
        BY <1>2, <2>1, <3>1, LevelFacts DEF Blocks, Code
      <3>3. c[j].f \in Bodies(s)
        BY <2>1, <3>1 DEF Bodies, Of
      <3> QED BY <3>2, <3>3
    <2>2. k \in 0 .. Len(c)
      OBVIOUS
    <2> QED BY <1>1, <2>1, <2>2, OfCut DEF Bodies
  <1> HIDE DEF d
  <1>6. d # <<>> /\ Last(d) = c[k]
    <2>1. d # <<>>
      BY <1>4
    <2> QED BY <1>4, <2>1, LastRegion
  <1>7. \A kind \in Special : Of(d, kind) = {}
    <2>1. Last(d).kind \notin Code /\ Last(d).kind \notin Special
      BY <1>2, <1>6 DEF Code, Special
    <2> QED BY <1>4, <1>6, <2>1, TopRegion
  <1> QED BY <1>2, <1>3, <1>4, <1>5, <1>6, <1>7 DEF d

\* The state t after a storm landed on the head frame f, given the one before.
Landed(s, t, f, type, due) ==
    /\ t \in Machine /\ Shape(t.ctl) /\ Gone(t) = {} /\ Bodies(t) = Bodies(s) \ {f}
    /\ t.used = s.used /\ t.end = s.end /\ t.abortDue = s.abortDue /\ t.head = s.fr[f].next
    /\ t.queue = {} /\ t.heap = (s.heap \ Listed(s, f)) \ s.queue
    /\ t.twice = (s.twice \/ ~(Listed(s, f) \subseteq s.heap)
                          \/ ~(s.queue \subseteq s.heap \ Listed(s, f)))
    /\ \A g \in Fid \ {f} : Alike(t.fr[g], s.fr[g])
    /\ t.fr[f].list = <<>> /\ t.fr[f].mark = 0 /\ t.fr[f].next = s.fr[f].next
    /\ t.fr[f].raised /\ t.fr[f].type = type /\ t.fr[f].shelters = s.fr[f].shelters
    /\ t.fr[f].due = due
    /\ IF Match(type, s.fr[f].shelters)
       THEN Handlers(t) = {f} /\ Calms(t) = {} /\ t.fr[f].handled /\ t.handling = f
       ELSE Handlers(t) = {} /\ Calms(t) = {f} /\ ~t.fr[f].handled /\ t.handling = Null

\* The CALM bodies that are running pass on a storm due at the same frame.
Passing(s, due) ==
    \A g \in Calms(s) : /\ s.fr[g].raised /\ s.fr[g].list = <<>>
                        /\ Waiting(s, g) => s.fr[g].due = due

LEMMA StormKept ==
    ASSUME NEW s, Inv(s), NEW f, f \in Bodies(s), s.head = f, Handlers(s) = {}, Gone(s) = {},
           NEW type, NEW due \in 0 .. MaxFrames, Greatest(s, type, due), Passing(s, due),
           NEW t, Landed(s, t, f, type, due)
    PROVE  Inv(t)
  <1>a. /\ t \in Machine /\ Shape(t.ctl) /\ Gone(t) = {} /\ Bodies(t) = Bodies(s) \ {f}
        /\ t.used = s.used /\ t.end = s.end /\ t.abortDue = s.abortDue /\ t.head = s.fr[f].next
        /\ t.queue = {} /\ t.heap = (s.heap \ Listed(s, f)) \ s.queue
        /\ t.twice = (s.twice \/ ~(Listed(s, f) \subseteq s.heap)
                              \/ ~(s.queue \subseteq s.heap \ Listed(s, f)))
    BY DEF Landed
  <1>b. \A g \in Fid \ {f} : Alike(t.fr[g], s.fr[g])
    BY DEF Landed
  <1>c. /\ t.fr[f].list = <<>> /\ t.fr[f].mark = 0 /\ t.fr[f].next = s.fr[f].next
        /\ t.fr[f].raised /\ t.fr[f].type = type /\ t.fr[f].shelters = s.fr[f].shelters
        /\ t.fr[f].due = due
    BY DEF Landed
  <1>d. IF Match(type, s.fr[f].shelters)
        THEN Handlers(t) = {f} /\ Calms(t) = {} /\ t.fr[f].handled /\ t.handling = f
        ELSE Handlers(t) = {} /\ Calms(t) = {f} /\ ~t.fr[f].handled /\ t.handling = Null
    BY DEF Landed
  <1>e. \A g \in Calms(s) : /\ s.fr[g].raised /\ s.fr[g].list = <<>>
                            /\ Waiting(s, g) => s.fr[g].due = due
    BY DEF Passing
  <1> USE <1>a, <1>b, <1>c, <1>d, <1>e
  <1>1. s \in Machine /\ Chained(s) /\ Storming(s) /\ Passed(s) /\ Kept(s)
    BY DEF Inv
  <1>2. /\ Opened(s) \subseteq Fid /\ Bodies(s) \subseteq Fid /\ Calms(s) \subseteq Fid
        /\ Linked(s) \subseteq Fid /\ f \in Fid /\ s.used \in 0 .. MaxFrames
    BY <1>1, FramesAreFid
  <1>3. Opened(s) = Bodies(s) \cup Calms(s) /\ Opened(t) = Bodies(s)
    <2>1. Handlers(t) \cup Calms(t) = {f}
      OBVIOUS
    <2> QED BY <2>1 DEF Opened
  <1>4. Linked(s) = Bodies(s) /\ Linked(t) = Bodies(s) \ {f}
    <2>1. \A g \in Calms(t) : t.fr[g].raised
      OBVIOUS
    <2> QED BY <2>1 DEF Linked
  <1>5. \A e \in Bodies(s) : e <= f
    <2>1. \A e \in Linked(s) : e < MaxFrames + 1 => e <= s.head
      BY <1>1 DEF Chained, Below
    <2> QED BY <1>2, <1>4, <2>1, FidFacts
  <1>6. Chained(t)
    <2>1. \A g \in Fid : t.fr[g].next = s.fr[g].next
      BY DEF Alike, Like
    <2>2. Opened(t) \subseteq Opened(s) /\ Linked(t) = Linked(s) \ {f}
      BY <1>3, <1>4
    <2>3. t.head = IF s.head = f THEN s.fr[f].next ELSE s.head
      OBVIOUS
    <2> QED BY <1>1, <1>2, <2>1, <2>2, <2>3, PopChained
  <1>7. Match(type, s.fr[f].shelters) => due = f
    <2> SUFFICES ASSUME Match(type, s.fr[f].shelters) PROVE due = f
      OBVIOUS
    <2>1. f <= due
      BY DEF Greatest
    <2>2. due # Null
      BY <1>2, <2>1
    <2>3. due \in Bodies(s)
      BY <2>2 DEF Greatest
    <2>4. due <= f /\ due \in Fid
      BY <1>2, <1>5, <2>3
    <2> QED BY <1>2, <2>1, <2>4
  <1>8. Storming(t)
    <2>1. \A g \in Bodies(t) : ~t.fr[g].raised /\ ~t.fr[g].handled
      BY <1>1, <1>2 DEF Storming, Alike, Like
    <2>2. \A g \in Handlers(t) : t.fr[g].raised /\ t.fr[g].handled /\ t.fr[g].due = g
      BY <1>7
    <2>3. ASSUME NEW g \in Calms(t), Waiting(t, g) PROVE Greatest(t, t.fr[g].type, t.fr[g].due)
      <3>1. g = f /\ ~Match(type, s.fr[f].shelters)
        BY <2>3
      <3>2. \A e \in Bodies(t) : e \in Bodies(s) /\ t.fr[e].shelters = s.fr[e].shelters
        BY <1>2 DEF Alike, Like
      <3>3. due # Null => due \in Bodies(t) /\ Match(type, t.fr[due].shelters)
        <4> SUFFICES ASSUME due # Null PROVE due \in Bodies(t) /\ Match(type, t.fr[due].shelters)
          OBVIOUS
        <4>1. due \in Bodies(s) /\ Match(type, s.fr[due].shelters)
          BY DEF Greatest
        <4>2. due # f
          BY <3>1, <4>1
        <4> QED BY <3>2, <4>1, <4>2
      <3>4. \A e \in Bodies(t) : Match(type, t.fr[e].shelters) => e <= due
        BY <3>2 DEF Greatest
      <3> QED BY <3>1, <3>3, <3>4 DEF Greatest
    <2>4. (\A g \in Handlers(t) : t.handling = g) /\ (Handlers(t) = {} => t.handling = Null)
      <3>1. CASE Match(type, s.fr[f].shelters)
        <4>1. Handlers(t) = {f} /\ t.handling = f
          BY <1>d, <3>1
        <4> QED BY <4>1, Zenon
      <3>2. CASE ~Match(type, s.fr[f].shelters)
        <4>1. Handlers(t) = {} /\ t.handling = Null
          BY <1>d, <3>2
        <4> QED BY <4>1, Zenon
      <3> QED BY <3>1, <3>2
    <2>5. \A g \in Fid : t.used < g => ~t.fr[g].raised
      <3>1. f \in 1 .. s.used
        BY <1>1, <1>3 DEF Chained
      <3>2. ASSUME NEW g \in Fid, s.used < g PROVE g # f
        BY <1>2, <3>1, <3>2
      <3> QED BY <1>1, <3>2 DEF Storming, Alike, Like
    <2> QED BY <1>1, <2>1, <2>2, <2>3, <2>4, <2>5 DEF Storming
  <1>9. Passed(t)
    <2> SUFFICES ASSUME t.end = "", NEW g \in 1 .. t.used, Waiting(t, g), g \notin Opened(t)
                 PROVE  \/ t.fr[g].due # Null /\ t.fr[t.fr[g].due].raised
                        \/ \E e \in Calms(t) : Waiting(t, e) /\ t.fr[e].due = t.fr[g].due
      BY DEF Passed
    <2>1. g \in Fid /\ g # f /\ g \in 1 .. s.used
      BY <1>2, <1>3, FidFacts
    <2>2. Waiting(s, g) /\ t.fr[g].due = s.fr[g].due /\ s.fr[g].due \in 0 .. MaxFrames
      <3>1. Like(t.fr[g], s.fr[g])
        BY <2>1 DEF Alike
      <3>2. s.fr[g] \in Frame
        BY <1>1, <2>1, FramesAreFid
      <3>3. s.fr[g].due \in 0 .. MaxFrames
        BY <3>2 DEF Frame
      <3> QED BY <3>1, <3>3 DEF Like, Waiting
    <2>3. CASE s.fr[g].due = due
      <3>1. CASE Match(type, s.fr[f].shelters)
        <4>1. t.fr[g].due = f /\ f # 0
          <5>1. due = f
            BY <1>7, <3>1
          <5>2. f # 0
            <6>1. f \in Fid
              BY <1>2
            <6> QED BY <6>1, FidFacts, Zenon
          <5> QED BY <2>2, <2>3, <5>1, <5>2, Zenon
        <4>2. t.fr[f].raised
          BY <1>c
        <4>3. t.fr[g].due # Null /\ t.fr[t.fr[g].due].raised
          BY <4>1, <4>2, Zenon
        <4> QED BY <4>3, Zenon
      <3>2. CASE ~Match(type, s.fr[f].shelters)
        <4>1. f \in Calms(t) /\ Waiting(t, f)
          BY <3>2 DEF Waiting
        <4>2. t.fr[f].due = due /\ t.fr[g].due = due
          BY <1>c, <2>2, <2>3
        <4>3. t.fr[f].due = t.fr[g].due
          BY <4>2
        <4> QED BY <4>1, <4>3, Zenon
      <3> QED BY <3>1, <3>2
    <2>4. CASE s.fr[g].due # Null /\ s.fr[s.fr[g].due].raised
      <3> DEFINE e == s.fr[g].due
      <3>1. e # 0 /\ s.fr[e].raised /\ e \in 0 .. MaxFrames /\ t.fr[g].due = e
        BY <2>2, <2>4
      <3> HIDE DEF e
      <3>2. e \in Fid
        BY <3>1, FidFacts
      <3>3. t.fr[e].raised
        BY <3>1, <3>2 DEF Alike, Like
      <3> QED BY <3>1, <3>3
    <2>5. CASE \E e \in Calms(s) : Waiting(s, e) /\ s.fr[e].due = s.fr[g].due
      BY <2>3, <2>5
    <2>6. CASE g \in Opened(s)
      <3>1. g \in Calms(s)
        BY <1>3, <2>6
      <3>2. s.fr[g].due = due
        BY <2>2, <3>1
      <3> QED BY <2>3, <3>2
    <2>7. CASE g \notin Opened(s)
      <3>1. s.end = "" /\ g \in 1 .. s.used /\ Waiting(s, g)
        BY <2>1, <2>2
      <3>2. \/ s.fr[g].due # Null /\ s.fr[s.fr[g].due].raised
            \/ \E e \in Calms(s) : Waiting(s, e) /\ s.fr[e].due = s.fr[g].due
        BY <1>1, <2>7, <3>1, Zenon DEF Passed
      <3> QED BY <2>4, <2>5, <3>2
    <2> QED BY <2>6, <2>7
  <1>10. Kept(t)
    <2>1. \A g \in Fid \ {f} : t.fr[g].list = s.fr[g].list /\ t.fr[g].mark = s.fr[g].mark
      BY DEF Alike
    <2>2. \A g \in Fid \ {f} : g \notin Opened(t) \ Gone(t) => s.fr[g].list = <<>>
      BY <1>1, <1>3 DEF Kept
    <2> QED BY <1>1, <1>2, <2>1, <2>2, TornKept
  <1> QED BY <1>6, <1>8, <1>9, <1>10 DEF Inv

LEMMA RaiseKept ==
    ASSUME NEW s, Inv(s), s.head \in Bodies(s), Handlers(s) = {}, Gone(s) = {},
           NEW type \in Storms \cup {AnyStorm}, NEW obj \in Objects \cup {NoObject},
           NEW due \in 0 .. MaxFrames, Greatest(s, type, due), Passing(s, due)
    PROVE  Inv(Raise(s, type, obj, due))
  <1> DEFINE f == s.head
             armed == Armed(s, f, type, obj, due)
  <1>1. s \in Machine /\ Chained(s) /\ Storming(s) /\ Shape(s.ctl) /\ s.ctl \in Seq(Regions)
    BY DEF Inv, Shape
  <1>2. f \in Fid /\ Bodies(s) \subseteq Fid
    BY <1>1, FramesAreFid
  <1>3. \A e \in Bodies(s) : e <= f
    <2>1. \A e \in Linked(s) : e < MaxFrames + 1 => e <= s.head
      BY <1>1 DEF Chained, Below
    <2>2. Bodies(s) \subseteq Linked(s)
      BY DEF Linked
    <2> QED BY <1>2, <2>1, <2>2, FidFacts
  <1>4. PICK k \in 1 .. Len(s.ctl) :
              /\ LevelsOf(s, f) = {k} /\ s.ctl[k].kind = "body" /\ s.ctl[k].f = f
              /\ LET c == SubSeq(s.ctl, 1, k)
                 IN /\ Shape(c) /\ c # <<>> /\ Last(c) = s.ctl[k] /\ Of(c, "body") = Bodies(s)
                    /\ \A kind \in Special : Of(c, kind) = {}
    <2>1. f \in Bodies(s)
      OBVIOUS
    <2> HIDE DEF f
    <2> QED BY <1>1, <1>3, <2>1, Landing, Zenon
  <1> DEFINE c == SubSeq(s.ctl, 1, k)
             u == Cut(armed, k)
  <1>5. /\ Shape(c) /\ c # <<>> /\ Last(c) = s.ctl[k] /\ Of(c, "body") = Bodies(s)
        /\ \A kind \in Special : Of(c, kind) = {}
    BY <1>4
  <1>6. /\ FramesOnly(armed, s) /\ \A g \in Fid \ {f} : armed.fr[g] = s.fr[g]
        /\ armed.fr[f].raised /\ armed.fr[f].type = type /\ armed.fr[f].obj = obj
        /\ armed.fr[f].due = due /\ armed.fr[f].next = s.fr[f].next
        /\ armed.fr[f].handled = s.fr[f].handled /\ armed.fr[f].shelters = s.fr[f].shelters
        /\ armed.fr[f].list = s.fr[f].list /\ armed.fr[f].mark = s.fr[f].mark
    <2>1. ArmedIs(armed, s, f, type, obj, due)
      <3> HIDE DEF f
      <3> QED BY <1>1, <1>2, ArmSets
    <2> HIDE DEF f, armed
    <2> QED BY <2>1, Zenon DEF ArmedIs
  <1>7. Raise(s, type, obj, due) = Dispatch(u, f)
    <2>1. f # Null /\ LevelsOf(s, f) # {}
      BY <1>2, <1>4, FidFacts
    <2>2. (CHOOSE j \in LevelsOf(s, f) : \A i \in LevelsOf(s, f) : i <= j) = k
      <3>1. k <= k
        OBVIOUS
      <3> QED BY <1>4, <3>1
    <2> HIDE DEF f
    <2> QED BY <2>1, <2>2 DEF Raise, Armed, f
  <1> HIDE DEF armed, c, f
  <1>8. /\ Same(u, armed) /\ u.ctl = c
    <2>1. armed \in Machine /\ c \in Seq(Regions) /\ armed.ctl = s.ctl
      BY <1>5, <1>6 DEF FramesOnly, Shape
    <2>2. u = [armed EXCEPT !.ctl = c]
      BY <2>1 DEF Cut, c
    <2> HIDE DEF u
    <2> QED BY <2>1, <2>2, CtlSets
  <1> HIDE DEF u
  <1>9. Top(u) = s.ctl[k] /\ Top(u).f = f /\ Top(u).lex # <<>> /\ u \in Machine /\ u.ctl # <<>>
    <2>1. Top(u) = s.ctl[k]
      BY <1>5, <1>8 DEF Top
    <2>2. Last(c).lex # <<>>
      <3>1. Last(c).kind \notin Code /\ Last(c).kind \in Blocks
        BY <1>4, <1>5 DEF Code, Blocks
      <3> QED BY <1>5, <3>1, TopRegion
    <2> QED BY <1>4, <1>5, <1>8, <2>1, <2>2 DEF Same
  <1> DEFINE t == Dispatch(u, f)
  <1>10. PICK x \in Regions : Dispatched(u, t, f, x)
    BY <1>2, <1>9, DispatchSets
  <1> HIDE DEF t
  <1>11. /\ t \in Machine /\ t.used = s.used /\ t.end = s.end /\ t.abortDue = s.abortDue
         /\ t.ctl = Append(Front(c), x) /\ x.f = f /\ x.lex # <<>>
         /\ t.head = s.fr[f].next /\ t.queue = {} /\ t.heap = (s.heap \ Listed(s, f)) \ s.queue
         /\ t.twice = (s.twice \/ ~(Listed(s, f) \subseteq s.heap)
                               \/ ~(s.queue \subseteq s.heap \ Listed(s, f)))
    <2>1. Listed(u, f) = Listed(s, f) /\ u.fr[f].next = s.fr[f].next
      BY <1>2, <1>6, <1>8 DEF Listed, Same, Alike, Like
    <2>2. /\ u.used = s.used /\ u.end = s.end /\ u.abortDue = s.abortDue /\ u.head = f
          /\ u.queue = s.queue /\ u.heap = s.heap /\ u.twice = s.twice
      BY <1>6, <1>8 DEF Same, FramesOnly, f
    <2> QED BY <1>8, <1>10, <2>1, <2>2 DEF Dispatched
  <1>12. /\ \A g \in Fid \ {f} : Alike(t.fr[g], s.fr[g])
         /\ t.fr[f].list = <<>> /\ t.fr[f].mark = 0 /\ t.fr[f].next = s.fr[f].next
         /\ t.fr[f].raised /\ t.fr[f].type = type /\ t.fr[f].shelters = s.fr[f].shelters
         /\ t.fr[f].due = due
    <2>1. \A g \in Fid : Alike(u.fr[g], armed.fr[g])
      BY <1>8 DEF Same
    <2>2. \A g \in Fid \ {f} : Alike(u.fr[g], s.fr[g])
      BY <1>6, <2>1
    <2>3. \A g \in Fid \ {f} : Alike(t.fr[g], u.fr[g])
      BY <1>10 DEF Dispatched
    <2>4. \A g \in Fid \ {f} : Alike(t.fr[g], s.fr[g])
      BY <2>2, <2>3 DEF Alike, Like
    <2>5. /\ u.fr[f].next = s.fr[f].next /\ u.fr[f].raised /\ u.fr[f].type = type
          /\ u.fr[f].shelters = s.fr[f].shelters /\ u.fr[f].due = due
      BY <1>2, <1>6, <2>1 DEF Alike, Like
    <2> QED BY <1>10, <2>4, <2>5 DEF Dispatched
  <1>13. IF Match(type, s.fr[f].shelters)
         THEN x.kind = "handler" /\ t.fr[f].handled /\ t.handling = f
         ELSE x.kind = "calm" /\ ~t.fr[f].handled /\ t.handling = Null
    <2>1. u.fr[f].type = type /\ u.fr[f].shelters = s.fr[f].shelters
      BY <1>2, <1>6, <1>8 DEF Same, Alike, Like
    <2>2. u.fr[f].handled = s.fr[f].handled /\ ~s.fr[f].handled
      BY <1>1, <1>2, <1>6, <1>8 DEF Same, Alike, Like, Storming, f
    <2> QED BY <1>10, <2>1, <2>2 DEF Dispatched
  <1>14. /\ Shape(t.ctl)
         /\ \A kind \in Blocks \cup {"return"} :
               Of(t.ctl, kind) = (Of(c, kind) \ (IF kind = "body" THEN {f} ELSE {}))
                                    \cup (IF x.kind = kind THEN {f} ELSE {})
    <2>1. Last(c).kind = "body" /\ Last(c).f = f
      BY <1>4, <1>5
    <2>2. x.kind \in {"handler", "calm"}
      BY <1>13
    <2> QED BY <1>5, <1>11, <2>1, <2>2, RetopShape
  <1>15. Bodies(t) = Bodies(s) \ {f} /\ Gone(t) = {}
    BY <1>5, <1>13, <1>14 DEF Bodies, Gone, Blocks, Special
  <1>16. /\ Handlers(t) = IF x.kind = "handler" THEN {f} ELSE {}
         /\ Calms(t) = IF x.kind = "calm" THEN {f} ELSE {}
    BY <1>5, <1>14 DEF Handlers, Calms, Blocks, Special
  <1>17. IF Match(type, s.fr[f].shelters)
         THEN Handlers(t) = {f} /\ Calms(t) = {} /\ t.fr[f].handled /\ t.handling = f
         ELSE Handlers(t) = {} /\ Calms(t) = {f} /\ ~t.fr[f].handled /\ t.handling = Null
    BY <1>13, <1>16
  <1>18. f \in Bodies(s) /\ s.head = f
    BY DEF f
  <1>19. Landed(s, t, f, type, due)
    BY <1>11, <1>12, <1>14, <1>15, <1>17, Zenon DEF Landed
  <1>20. Inv(t)
    BY <1>18, <1>19, StormKept
  <1> QED BY <1>7, <1>20 DEF t

\* A storm that no block can get ends the program.
LEMMA AbortKept ==
    ASSUME NEW s, Inv(s), s.head = Null, Gone(s) = {}, NEW type, NEW obj, NEW due,
           Greatest(s, type, due)
    PROVE  Inv(Raise(s, type, obj, due))
  <1> DEFINE t == [s EXCEPT !.end = "abort", !.abortDue = due]
  <1>1. s \in Machine /\ Shape(s.ctl) /\ Chained(s) /\ Storming(s) /\ Passed(s) /\ Kept(s)
    BY DEF Inv
  <1>2. Bodies(s) \subseteq Fid
    BY <1>1, FramesAreFid
  <1>3. due = 0
    <2> SUFFICES ASSUME due # 0 PROVE FALSE
      OBVIOUS
    <2>1. due \in Bodies(s)
      BY DEF Greatest
    <2>2. due \in Linked(s) /\ due \in Fid
      BY <1>2, <2>1 DEF Linked
    <2>3. due <= s.head
      BY <1>1, <2>2, FidFacts DEF Chained, Below
    <2> QED BY <2>2, <2>3
  <1>4. /\ t \in Machine /\ t.ctl = s.ctl /\ t.fr = s.fr /\ t.used = s.used /\ t.head = s.head
        /\ t.handling = s.handling /\ t.heap = s.heap /\ t.queue = s.queue
        /\ t.twice = s.twice /\ t.end = "abort" /\ t.abortDue = 0
    BY <1>1, <1>3, WeatherAssumption DEF Machine
  <1>5. Raise(s, type, obj, due) = t
    BY DEF Raise
  <1> HIDE DEF t
  <1>6. /\ Bodies(t) = Bodies(s) /\ Handlers(t) = Handlers(s) /\ Calms(t) = Calms(s)
        /\ Gone(t) = Gone(s)
    BY <1>4 DEF Bodies, Handlers, Calms, Gone
  <1>7. Opened(t) = Opened(s) /\ Linked(t) = Linked(s)
    BY <1>4, <1>6 DEF Opened, Linked
  <1>8. Chained(t)
    BY <1>1, <1>4, <1>7 DEF Chained, Below
  <1>9. Storming(t)
    BY <1>1, <1>4, <1>6 DEF Storming, Waiting, Greatest
  <1>10. Passed(t)
    BY <1>4 DEF Passed
  <1>11. Kept(t)
    BY <1>1, <1>4, <1>6, <1>7 DEF Kept, Listed
  <1> QED BY <1>1, <1>4, <1>5, <1>8, <1>9, <1>10, <1>11 DEF Inv

LEMMA GreatestLevel ==
    ASSUME NEW n \in Nat, NEW S \in SUBSET (1 .. n), S # {}
    PROVE  \E k \in S : \A j \in S : j <= k
  <1> DEFINE T == {n - k : k \in S}
  <1>1. T \in SUBSET Nat /\ T # {}
    <2>1. \A k \in S : n - k \in Nat
      OBVIOUS
    <2>2. PICK k : k \in S
      OBVIOUS
    <2>3. n - k \in T
      BY <2>2
    <2> QED BY <2>1, <2>3
  <1>2. PICK m \in T : \A i \in T : m <= i
    <2> HIDE DEF T
    <2> QED BY <1>1, LeastNatural
  <1>3. PICK k \in S : m = n - k
    BY <1>2
  <1>4. ASSUME NEW j \in S PROVE j <= k
    <2>1. m <= n - j
      BY <1>2
    <2> QED BY <1>3, <2>1
  <1> QED BY <1>4

\* Due finds the innermost running body with a shelter.
LEMMA DueGreatest ==
    ASSUME NEW s, s \in Machine, Shape(s.ctl), NEW type
    PROVE  Greatest(s, type, Due(s, type)) /\ Due(s, type) \in 0 .. MaxFrames
  <1> DEFINE c == s.ctl
             able == {k \in Levels(s, {"body"}) : Match(type, s.fr[c[k].f].shelters)}
  <1>1. c \in Seq(Regions) /\ DOMAIN c = 1 .. Len(c) /\ Len(c) \in Nat
    <2>1. c \in Seq(Regions)
      BY DEF Machine
    <2> QED BY <2>1
  <1>2. able = {k \in 1 .. Len(c) : c[k].kind = "body" /\ Match(type, s.fr[c[k].f].shelters)}
    BY <1>1 DEF Levels
  <1>3. \A e \in Bodies(s) : Match(type, s.fr[e].shelters) => \E k \in able : c[k].f = e
    BY <1>2 DEF Bodies, Of
  <1>4. CASE able = {}
    <2>1. Due(s, type) = 0
      BY <1>4 DEF Due
    <2>2. 0 \in 0 .. MaxFrames
      BY WeatherAssumption
    <2> QED BY <1>3, <1>4, <2>1, <2>2 DEF Greatest
  <1>5. CASE able # {}
    <2> DEFINE k == CHOOSE k \in able : \A j \in able : j <= k
    <2>1. k \in able /\ \A j \in able : j <= k
      <3>1. able \in SUBSET (1 .. Len(c))
        BY <1>2
      <3> HIDE DEF able
      <3>2. \E i \in able : \A j \in able : j <= i
        BY <1>1, <1>5, <3>1, GreatestLevel
      <3> QED BY <3>2
    <2>2. Due(s, type) = c[k].f
      BY <1>5 DEF Due
    <2> HIDE DEF k
    <2>3. k \in 1 .. Len(c) /\ c[k].kind = "body" /\ Match(type, s.fr[c[k].f].shelters)
      BY <1>2, <2>1
    <2>4. c[k].f \in Bodies(s) /\ c[k].f \in Fid
      <3>1. c[k].f \in Bodies(s)
        BY <2>3 DEF Bodies, Of
      <3> QED BY <2>3, <3>1, LevelFacts DEF Code
    <2>5. ASSUME NEW e \in Bodies(s), Match(type, s.fr[e].shelters) PROVE e <= c[k].f
      <3>1. PICK j \in able : c[j].f = e
        BY <1>3, <2>5
      <3>2. j \in 1 .. Len(c) /\ j <= k /\ c[j].kind = "body"
        BY <1>2, <2>1, <3>1
      <3>3. CASE j = k
        BY <2>4, <3>1, <3>3
      <3>4. CASE j # k
        <4>1. j \in 1 .. k - 1
          BY <2>3, <3>2, <3>4
        <4>2. c[j].f < c[k].f /\ c[j].f \in Fid
          BY <2>3, <3>2, <4>1, LevelFacts DEF Blocks, Code
        <4> QED BY <2>4, <3>1, <4>2
      <3> QED BY <3>3, <3>4
    <2>6. c[k].f \in 0 .. MaxFrames
      BY <2>4, FidFacts
    <2> QED BY <2>2, <2>3, <2>4, <2>5, <2>6 DEF Greatest
  <1> QED BY <1>4, <1>5

\* A return region is the top of the stack, where no code runs.
LEMMA CodeReturns ==
    ASSUME NEW s, s \in Machine, Shape(s.ctl), s.ctl # <<>>, Top(s).kind # "return"
    PROVE  \A k \in 1 .. Len(s.ctl) : s.ctl[k].kind # "return"
  <1>1. s.ctl \in Seq(Regions)
    BY DEF Machine
  <1>2. Len(s.ctl) \in Nat \ {0} /\ Top(s) = s.ctl[Len(s.ctl)]
    BY <1>1, LastRegion DEF Top
  <1> SUFFICES ASSUME NEW k \in 1 .. Len(s.ctl), s.ctl[k].kind = "return" PROVE FALSE
    OBVIOUS
  <1>3. k # Len(s.ctl)
    BY <1>2
  <1>4. k \in 1 .. Len(s.ctl) - 1 /\ Len(s.ctl) \in 1 .. Len(s.ctl)
    BY <1>2, <1>3
  <1> QED BY <1>4, LevelFacts DEF Special

\* Where the program may throw, a body is the innermost block, or there is none.
LEMMA Thrower ==
    ASSUME Uses = {}, IInv, InCode, MayThrow
    PROVE  /\ Gone(st) = {}
           /\ st.head # Null => st.head \in Bodies(st) /\ Handlers(st) = {} /\ Calms(st) = {}
  <1> DEFINE c == st.ctl
  <1>1. /\ st \in Machine /\ Shape(c) /\ Chained(st) /\ c \in Seq(Regions) /\ c # <<>>
        /\ Top(st).kind # "return"
    BY DEF IInv, Inv, Shape, InCode, Running
  <1>2. Len(c) \in Nat /\ DOMAIN c = 1 .. Len(c)
    BY <1>1
  <1>3. Gone(st) = {}
    BY <1>1, CodeReturns DEF Gone, Of
  <1>4. ASSUME st.head # Null
        PROVE  st.head \in Bodies(st) /\ Handlers(st) = {} /\ Calms(st) = {}
    <2> DEFINE ls == LevelsOf(st, st.head)
               k == CHOOSE k \in ls : \A j \in ls : j <= k
    <2>1. ls # {} /\ ls \in SUBSET (1 .. Len(c))
      <3>1. st.head \in Linked(st)
        BY <1>1, <1>4 DEF Chained, Below
      <3>2. st.head \in Opened(st)
        BY <1>1, <3>1, FramesAreFid
      <3> QED BY <1>1, <1>2, <3>2, OpenedLevels DEF LevelsOf, Levels
    <2>2. k \in ls
      <3> HIDE DEF ls
      <3>1. \E i \in ls : \A j \in ls : j <= i
        BY <1>2, <2>1, GreatestLevel
      <3> QED BY <3>1
    <2>3. ThrowTo = k - 1
      BY <1>4, <2>1 DEF ThrowTo
    <2> HIDE DEF k
    <2>4. k \in 1 .. Len(c) /\ c[k].kind \in Blocks /\ c[k].f = st.head
      BY <1>2, <2>2 DEF LevelsOf, Levels
    <2>5. \A j \in 1 .. Len(c) : j > k - 1 => c[j].kind \notin {"handler", "calm", "exit"}
      BY <1>2, <2>3 DEF MayThrow, Levels
    <2>6. c[k].kind = "body"
      BY <2>4, <2>5 DEF Blocks
    <2>7. \A j \in 1 .. Len(c) : c[j].kind \notin {"handler", "calm"}
      <3> SUFFICES ASSUME NEW j \in 1 .. Len(c), c[j].kind \in {"handler", "calm"} PROVE FALSE
        OBVIOUS
      <3>1. j \in 1 .. k - 1
        BY <2>4, <2>5
      <3> QED BY <1>1, <2>4, <2>6, <3>1, LevelFacts DEF Special, Code
    <2> QED BY <2>4, <2>6, <2>7 DEF Bodies, Handlers, Calms, Of
  <1> QED BY <1>3, <1>4

\* A storm object that nothing refers to yet.
LEMMA ObjectKept ==
    ASSUME NEW s, Inv(s), NEW o \in Objects
    PROVE  LET t == [s EXCEPT !.heap = @ \cup {o}]
           IN /\ Inv(t) /\ t.ctl = s.ctl /\ t.fr = s.fr /\ t.head = s.head
  <1> DEFINE t == [s EXCEPT !.heap = @ \cup {o}]
  <1>1. s \in Machine /\ Shape(s.ctl) /\ Chained(s) /\ Storming(s) /\ Passed(s) /\ Kept(s)
    BY DEF Inv
  <1>2. /\ t \in Machine /\ t.ctl = s.ctl /\ t.fr = s.fr /\ t.used = s.used /\ t.head = s.head
        /\ t.handling = s.handling /\ t.heap = s.heap \cup {o} /\ t.queue = s.queue
        /\ t.twice = s.twice /\ t.end = s.end /\ t.abortDue = s.abortDue
    BY <1>1 DEF Machine
  <1> HIDE DEF t
  <1>3. /\ Bodies(t) = Bodies(s) /\ Handlers(t) = Handlers(s) /\ Calms(t) = Calms(s)
        /\ Gone(t) = Gone(s)
    BY <1>2 DEF Bodies, Handlers, Calms, Gone
  <1>4. Opened(t) = Opened(s) /\ Linked(t) = Linked(s)
    BY <1>2, <1>3 DEF Opened, Linked
  <1>5. Chained(t)
    BY <1>1, <1>2, <1>4 DEF Chained, Below
  <1>6. Storming(t)
    BY <1>1, <1>2, <1>3 DEF Storming, Waiting, Greatest
  <1>7. Passed(t)
    <2>1. \A f \in Fid : Like(t.fr[f], s.fr[f])
      BY <1>2 DEF Like
    <2> QED BY <1>1, <1>2, <1>3, <1>4, <2>1, PassedKept
  <1>8. Kept(t)
    <2>1. \A f \in Fid : Listed(t, f) = Listed(s, f)
      BY <1>2 DEF Listed
    <2>2. Handles \cap t.heap = Handles \cap s.heap
      BY <1>2, WeatherAssumption
    <2>3. ~t.twice /\ t.queue \subseteq t.heap
      BY <1>1, <1>2 DEF Kept
    <2>4. \A f \in Fid : /\ t.fr[f].mark = 0 /\ Len(t.fr[f].list) <= ExitMax
                         /\ f \notin Opened(t) \ Gone(t) => t.fr[f].list = <<>>
      BY <1>1, <1>2, <1>3, <1>4 DEF Kept
    <2>5. /\ \A f \in Fid : Listed(t, f) \subseteq t.heap \ t.queue
          /\ \A f, g \in Fid : f # g => Listed(t, f) \cap Listed(t, g) = {}
      BY <1>1, <1>2, <2>1 DEF Kept
    <2>6. \A h \in Handles \cap t.heap : h \in t.queue \/ \E f \in Fid : h \in Listed(t, f)
      BY <1>1, <1>2, <2>1, <2>2 DEF Kept
    <2> QED BY <2>3, <2>4, <2>5, <2>6 DEF Kept
  <1> QED BY <1>1, <1>2, <1>5, <1>6, <1>7, <1>8 DEF Inv, t

LEMMA RaiseInv ==
    ASSUME NEW s, Inv(s), Gone(s) = {},
           s.head # Null => s.head \in Bodies(s) /\ Handlers(s) = {},
           NEW type \in Storms \cup {AnyStorm}, NEW obj \in Objects \cup {NoObject},
           NEW due \in 0 .. MaxFrames, Greatest(s, type, due), Passing(s, due)
    PROVE  Inv(Raise(s, type, obj, due))
  <1>1. CASE s.head = Null
    BY <1>1, AbortKept
  <1>2. CASE s.head # Null
    BY <1>2, RaiseKept
  <1> QED BY <1>1, <1>2

\* The storm a statement throws.
LEMMA ThrowKept ==
    ASSUME Uses = {}, IInv, NEW type \in Storms, Throw(type)
    PROVE  Inv(st')
  <1>1. Inv(st) /\ InCode /\ MayThrow /\ st' = Raise(st, type, NoObject, Due(st, type))
    BY DEF Throw, IInv
  <1>2. /\ Gone(st) = {}
        /\ st.head # Null => st.head \in Bodies(st) /\ Handlers(st) = {} /\ Calms(st) = {}
    BY <1>1, Thrower
  <1>3. /\ st \in Machine /\ Shape(st.ctl) /\ Storming(st)
    BY <1>1 DEF Inv
  <1>4. Greatest(st, type, Due(st, type)) /\ Due(st, type) \in 0 .. MaxFrames
    BY <1>3, DueGreatest
  <1>5. CASE st.head = Null
    <2>1. Inv(Raise(st, type, NoObject, Due(st, type)))
      BY <1>1, <1>2, <1>4, <1>5, AbortKept
    <2> QED BY <1>1, <2>1
  <1>6. CASE st.head # Null
    <2>1. Passing(st, Due(st, type))
      BY <1>2, <1>6 DEF Passing
    <2>2. type \in Storms \cup {AnyStorm} /\ NoObject \in Objects \cup {NoObject}
      OBVIOUS
    <2>3. Inv(Raise(st, type, NoObject, Due(st, type)))
      BY <1>1, <1>2, <1>4, <1>6, <2>1, <2>2, RaiseKept
    <2> QED BY <1>1, <2>3
  <1> QED BY <1>5, <1>6

LEMMA ThrowObjectKept ==
    ASSUME Uses = {}, IInv, NEW type \in Storms, NEW o \in Objects, ThrowObject(type, o)
    PROVE  Inv(st')
  <1> DEFINE s == [st EXCEPT !.heap = @ \cup {o}]
             due == Due(st, type)
  <1>1. Inv(st) /\ InCode /\ MayThrow /\ st' = Raise(s, type, o, due)
    BY DEF ThrowObject, IInv
  <1>2. /\ Gone(st) = {}
        /\ st.head # Null => st.head \in Bodies(st) /\ Handlers(st) = {} /\ Calms(st) = {}
    BY <1>1, Thrower
  <1>3. Inv(s) /\ s.ctl = st.ctl /\ s.fr = st.fr /\ s.head = st.head
    BY <1>1, ObjectKept
  <1>4. /\ st \in Machine /\ Shape(st.ctl)
    BY <1>1 DEF Inv
  <1>5. Greatest(st, type, due) /\ due \in 0 .. MaxFrames
    BY <1>4, DueGreatest
  <1> HIDE DEF s, due
  <1>6. /\ Bodies(s) = Bodies(st) /\ Handlers(s) = Handlers(st) /\ Calms(s) = Calms(st)
        /\ Gone(s) = Gone(st)
    BY <1>3 DEF Bodies, Handlers, Calms, Gone
  <1>7. Greatest(s, type, due)
    BY <1>3, <1>5, <1>6 DEF Greatest
  <1>8. CASE st.head = Null
    <2>1. Inv(Raise(s, type, o, due))
      BY <1>2, <1>3, <1>6, <1>7, <1>8, AbortKept
    <2> QED BY <1>1, <2>1
  <1>9. CASE st.head # Null
    <2>1. Passing(s, due)
      BY <1>2, <1>6, <1>9 DEF Passing
    <2>2. type \in Storms \cup {AnyStorm} /\ o \in Objects \cup {NoObject}
      OBVIOUS
    <2>3. Inv(Raise(s, type, o, due))
      BY <1>2, <1>3, <1>5, <1>6, <1>7, <1>9, <2>1, <2>2, RaiseKept
    <2> QED BY <1>1, <2>3
  <1> QED BY <1>8, <1>9

----------------------------------------------------------------------------
(* A block is left *)

\* Every other block is outside the block at the top.
LEMMA TopBlock ==
    ASSUME NEW c, Shape(c), c # <<>>, Last(c).kind \in Blocks
    PROVE  /\ \A kind \in Blocks : \A e \in Of(c, kind) : e <= Last(c).f
           /\ \A kind \in Blocks \ {Last(c).kind} : \A e \in Of(c, kind) : e < Last(c).f
  <1> DEFINE n == Len(c)
  <1>1. c \in Seq(Regions) /\ n \in 1 .. Len(c) /\ Last(c) = c[n] /\ n \in Nat
    BY LastRegion DEF Shape
  <1> SUFFICES ASSUME NEW kind \in Blocks, NEW k \in 1 .. n, c[k].kind = kind
               PROVE  c[k].f <= c[n].f /\ (c[n].kind # kind => c[k].f < c[n].f)
    BY <1>1 DEF Of
  <1> HIDE DEF n
  <1>2. c[k].f \in Fid /\ c[n].f \in Fid /\ c[n].kind \in Blocks
    BY <1>1, LevelFacts DEF Blocks, Code, n
  <1>3. CASE k = n
    BY <1>2, <1>3
  <1>4. CASE k # n
    <2>1. k \in 1 .. n - 1
      BY <1>1, <1>4
    <2>2. c[k].f < c[n].f
      BY <1>1, <1>2, <2>1, LevelFacts
    <2> QED BY <1>2, <2>2
  <1> QED BY <1>3, <1>4

LEMMA CutTop ==
    ASSUME NEW c, Shape(c), c # <<>>, Last(c).kind \in Blocks
    PROVE  LET d == SubSeq(c, 1, Len(c) - 1)
           IN /\ Shape(d)
              /\ \A kind \in Blocks \cup {"return"} :
                    Of(d, kind) = Of(c, kind) \ (IF Last(c).kind = kind THEN {Last(c).f} ELSE {})
  <1> DEFINE n == Len(c)
             m == n - 1
             d == SubSeq(c, 1, m)
  <1>1. c \in Seq(Regions) /\ n \in Nat \ {0} /\ Last(c) = c[n] /\ m \in 0 .. Len(c)
    BY LastRegion DEF Shape
  <1>2. /\ n = m + 1 /\ n \in m + 1 .. Len(c) /\ \A k \in m + 1 .. Len(c) : k = n
    BY <1>1
  <1> HIDE DEF n, m
  <1>3. Shape(d)
    BY <1>1, ShapeCut
  <1>4. ASSUME NEW kind \in Blocks \cup {"return"}
        PROVE  Of(d, kind) = Of(c, kind) \ (IF Last(c).kind = kind THEN {Last(c).f} ELSE {})
    <2>1. CASE Last(c).kind # kind
      <3>1. Of(d, kind) = Of(c, kind)
        BY <1>1, <1>2, <2>1, OfCut
      <3> QED BY <2>1, <3>1
    <2>2. CASE Last(c).kind = kind
      <3>1. Of(d, kind) = Of(c, kind) \ {c[n].f}
        BY <1>1, <1>2, <2>2, OfCutBlock
      <3> QED BY <1>1, <2>2, <3>1
    <2> QED BY <2>1, <2>2
  <1> QED BY <1>3, <1>4 DEF d, m, n

\* A block that is left and owes no storm.
LEMMA LeftKept ==
    ASSUME NEW s, Inv(s), NEW f \in Fid, ~Waiting(s, f), NEW t, Same(t, Leave(s, f)),
           Shape(t.ctl), Bodies(t) \subseteq Bodies(s), Handlers(s) = {}, Handlers(t) = {},
           Calms(s) \subseteq {f}, Calms(t) = {}, Gone(s) = {}, Linked(t) = Linked(s) \ {f},
           f \in Linked(s) => s.head = f, Opened(s) \ {f} \subseteq Opened(t) \ Gone(t)
    PROVE  Inv(t)
  <1> DEFINE left == Leave(s, f)
  <1>1. s \in Machine /\ Chained(s) /\ Storming(s) /\ Passed(s) /\ Kept(s)
    BY DEF Inv
  <1>2. /\ left \in Machine /\ left.used = s.used
        /\ left.head = IF s.head = f THEN s.fr[f].next ELSE s.head
        /\ left.handling = s.handling /\ left.end = s.end /\ left.abortDue = s.abortDue
        /\ \A g \in Fid : Like(left.fr[g], s.fr[g])
        /\ \A g \in Fid \ {f} : Alike(left.fr[g], s.fr[g])
        /\ left.fr[f].list = <<>> /\ left.fr[f].mark = 0
        /\ left.queue = {} /\ left.heap = (s.heap \ Listed(s, f)) \ s.queue
        /\ left.twice = (s.twice \/ ~(Listed(s, f) \subseteq s.heap)
                                 \/ ~(s.queue \subseteq s.heap \ Listed(s, f)))
    BY <1>1, LeaveSets
  <1> HIDE DEF left
  <1>3. /\ t \in Machine /\ t.used = s.used /\ t.head = left.head
        /\ t.handling = s.handling /\ t.end = s.end /\ t.abortDue = s.abortDue
        /\ t.queue = left.queue /\ t.heap = left.heap /\ t.twice = left.twice
        /\ \A g \in Fid : Alike(t.fr[g], left.fr[g])
    BY <1>2 DEF Same, left
  <1>4. /\ \A g \in Fid : Like(t.fr[g], s.fr[g])
        /\ \A g \in Fid \ {f} : Alike(t.fr[g], s.fr[g])
        /\ t.fr[f].list = <<>> /\ t.fr[f].mark = 0
    <2>1. \A g \in Fid : Like(t.fr[g], s.fr[g])
      BY <1>2, <1>3 DEF Alike, Like
    <2> QED BY <1>2, <1>3, <2>1 DEF Alike
  <1>5. Opened(s) \subseteq Fid /\ Bodies(s) \subseteq Fid /\ s.used \in 0 .. MaxFrames
    BY <1>1, FramesAreFid
  <1>6. Opened(t) \subseteq Opened(s)
    BY DEF Opened
  <1>7. Chained(t)
    <2>1. \A g \in Fid : t.fr[g].next = s.fr[g].next
      BY <1>4 DEF Like
    <2> QED BY <1>1, <1>2, <1>3, <1>6, <2>1, PopChained
  <1>8. Storming(t)
    <2>1. \A g \in Bodies(t) : ~t.fr[g].raised /\ ~t.fr[g].handled
      BY <1>1, <1>4, <1>5 DEF Storming, Like
    <2>2. \A g \in Fid : t.used < g => ~t.fr[g].raised
      BY <1>1, <1>3, <1>4 DEF Storming, Like
    <2> QED BY <1>1, <1>3, <2>1, <2>2 DEF Storming
  <1>9. Passed(t)
    BY <1>1, <1>3, <1>4, PassedKept
  <1>10. Kept(t)
    <2>1. \A g \in Fid \ {f} : g \notin Opened(t) \ Gone(t) => s.fr[g].list = <<>>
      BY <1>1 DEF Kept
    <2>2. \A g \in Fid \ {f} : t.fr[g].list = s.fr[g].list /\ t.fr[g].mark = s.fr[g].mark
      BY <1>4 DEF Alike
    <2> QED BY <1>1, <1>2, <1>3, <1>4, <2>1, <2>2, TornKept
  <1> QED BY <1>3, <1>7, <1>8, <1>9, <1>10 DEF Inv

\* Leaving a frame that the head does not lead to only tears it down.
LEMMA LeaveUnlinked ==
    ASSUME NEW s, Inv(s), NEW f \in Fid, f \notin Linked(s)
    PROVE  Inv(Leave(s, f))
  <1> DEFINE t == Leave(s, f)
  <1>1. /\ s \in Machine /\ Chained(s) /\ Storming(s) /\ Passed(s) /\ Kept(s)
        /\ Shape(s.ctl)
    BY DEF Inv
  <1>2. /\ t \in Machine /\ t.ctl = s.ctl /\ t.used = s.used
        /\ t.head = IF s.head = f THEN s.fr[f].next ELSE s.head
        /\ t.handling = s.handling /\ t.end = s.end /\ t.abortDue = s.abortDue
        /\ \A g \in Fid : Like(t.fr[g], s.fr[g])
        /\ \A g \in Fid \ {f} : Alike(t.fr[g], s.fr[g])
        /\ t.fr[f].list = <<>> /\ t.fr[f].mark = 0
        /\ t.queue = {} /\ t.heap = (s.heap \ Listed(s, f)) \ s.queue
        /\ t.twice = (s.twice \/ ~(Listed(s, f) \subseteq s.heap)
                              \/ ~(s.queue \subseteq s.heap \ Listed(s, f)))
    BY <1>1, LeaveSets
  <1> HIDE DEF t
  <1>3. /\ Bodies(s) \subseteq Fid /\ Calms(s) \subseteq Fid /\ Handlers(s) \subseteq Fid
        /\ Linked(s) \subseteq Fid /\ s.used \in 0 .. MaxFrames
    BY <1>1, FramesAreFid
  <1>4. /\ Bodies(t) = Bodies(s) /\ Handlers(t) = Handlers(s) /\ Calms(t) = Calms(s)
        /\ Gone(t) = Gone(s) /\ Opened(t) = Opened(s)
    BY <1>2 DEF Bodies, Handlers, Calms, Gone, Opened
  <1>5. Linked(t) = Linked(s)
    BY <1>2, <1>3, <1>4 DEF Linked, Like
  <1>6. Chained(t)
    <2>1. \A g \in Fid : t.fr[g].next = s.fr[g].next
      BY <1>2 DEF Like
    <2>2. Linked(t) = Linked(s) \ {f} /\ Opened(t) \subseteq Opened(s)
      BY <1>4, <1>5
    <2> QED BY <1>1, <1>2, <2>1, <2>2, PopChained
  <1>7. Storming(t)
    <2>1. /\ \A g \in Bodies(t) : ~t.fr[g].raised /\ ~t.fr[g].handled
          /\ \A g \in Handlers(t) : t.fr[g].raised /\ t.fr[g].handled /\ t.fr[g].due = g
      BY <1>1, <1>2, <1>3, <1>4 DEF Storming, Like
    <2>2. ASSUME NEW g \in Calms(t), Waiting(t, g) PROVE Greatest(t, t.fr[g].type, t.fr[g].due)
      <3>1. g \in Fid /\ g \in Calms(s) /\ Waiting(s, g)
        BY <1>2, <1>3, <1>4, <2>2 DEF Waiting, Like
      <3>2. Greatest(s, s.fr[g].type, s.fr[g].due)
        BY <1>1, <3>1 DEF Storming
      <3>3. t.fr[g].type = s.fr[g].type /\ t.fr[g].due = s.fr[g].due
        BY <1>2, <3>1 DEF Like
      <3>4. \A e \in Bodies(s) : t.fr[e].shelters = s.fr[e].shelters
        BY <1>2, <1>3 DEF Like
      <3> QED BY <1>4, <3>2, <3>3, <3>4 DEF Greatest
    <2>3. \A g \in Fid : t.used < g => ~t.fr[g].raised
      BY <1>1, <1>2 DEF Storming, Like
    <2> QED BY <1>1, <1>2, <1>4, <2>1, <2>2, <2>3 DEF Storming
  <1>8. Passed(t)
    BY <1>1, <1>2, <1>4, PassedKept
  <1>9. Kept(t)
    <2>1. \A g \in Fid \ {f} : g \notin Opened(t) \ Gone(t) => s.fr[g].list = <<>>
      BY <1>1, <1>4 DEF Kept
    <2>2. \A g \in Fid \ {f} : t.fr[g].list = s.fr[g].list /\ t.fr[g].mark = s.fr[g].mark
      BY <1>2 DEF Alike
    <2> QED BY <1>1, <1>2, <2>1, <2>2, TornKept
  <1> QED BY <1>1, <1>2, <1>6, <1>7, <1>8, <1>9 DEF Inv, t

\* Under a region that is no plain code only bodies are open.
LEMMA TopSets ==
    ASSUME NEW s, s \in Machine, Shape(s.ctl), s.ctl # <<>>, Top(s).kind \in Special
    PROVE  /\ Top(s).f \in Fid
           /\ Handlers(s) = IF Top(s).kind = "handler" THEN {Top(s).f} ELSE {}
           /\ Calms(s) = IF Top(s).kind = "calm" THEN {Top(s).f} ELSE {}
           /\ Gone(s) = IF Top(s).kind = "return" THEN {Top(s).f} ELSE {}
  <1>1. Top(s) = Last(s.ctl) /\ Last(s.ctl).kind \notin Code
    BY DEF Top, Special, Code
  <1> QED BY <1>1, TopRegion DEF Handlers, Calms, Gone, Special

\* plant_calm after a CALM body.
LEMMA EndCalmKept ==
    ASSUME IInv, EndCalm
    PROVE  Inv(st')
  <1> DEFINE f == Top(st).f
             left == Leave(st, f)
  <1>1. /\ Inv(st) /\ st \in Machine /\ Shape(st.ctl) /\ st.ctl # <<>> /\ Chained(st)
        /\ Storming(st) /\ Top(st).kind = "calm" /\ Top(st).kind \in Special
        /\ Top(st) = Last(st.ctl) /\ st.ctl \in Seq(Regions)
    BY DEF IInv, Inv, EndCalm, Running, Special, Top, Shape
  <1>2. f \in Fid /\ Handlers(st) = {} /\ Calms(st) = {f} /\ Gone(st) = {}
    BY <1>1, TopSets
  <1>3. (\A e \in Bodies(st) : e < f) /\ Bodies(st) \subseteq Fid /\ Linked(st) \subseteq Fid
    <2>1. \A e \in Bodies(st) : e < f
      BY <1>1, TopBlock DEF Bodies, Blocks
    <2> QED BY <1>1, <2>1, FramesAreFid
  <1>4. f \notin Bodies(st)
    BY <1>2, <1>3
  <1>5. st.fr[f] \in Frame
    BY <1>1, <1>2 DEF Machine
  <1>6. left \in Machine /\ left.ctl = st.ctl /\ \A g \in Fid : Like(left.fr[g], st.fr[g])
    BY <1>1, <1>2, LeaveSets
  <1>7. CASE Pending(st, f)
    <2>1. Waiting(st, f)
      BY <1>7 DEF Pending, Waiting
    <2>2. f \notin Linked(st)
      BY <1>4, <2>1 DEF Linked, Waiting
    <2>3. Inv(left)
      BY <1>1, <1>2, <2>2, LeaveUnlinked
    <2>4. left.fr[f].list = <<>>
      BY <1>1, <1>2, LeaveSets
    <2>5. st' = Raise(left, st.fr[f].type, st.fr[f].obj, st.fr[f].due)
      BY <1>7 DEF EndCalm, PlantCalm
    <2> HIDE DEF left, f
    <2>6. /\ Bodies(left) = Bodies(st) /\ Handlers(left) = {} /\ Calms(left) = {f}
          /\ Gone(left) = {}
      BY <1>2, <1>6 DEF Bodies, Handlers, Calms, Gone
    <2>7. left.head # Null => left.head \in Bodies(left)
      <3> SUFFICES ASSUME left.head # Null PROVE left.head \in Bodies(left)
        OBVIOUS
      <3>1. left.head \in Linked(left)
        BY <2>3 DEF Inv, Chained, Below
      <3>2. left.fr[f].raised
        BY <1>2, <1>6, <2>1 DEF Like, Waiting
      <3> QED BY <2>6, <3>1, <3>2 DEF Linked
    <2>8. Greatest(left, st.fr[f].type, st.fr[f].due)
      <3>1. Greatest(st, st.fr[f].type, st.fr[f].due)
        BY <1>1, <1>2, <2>1 DEF Storming
      <3>2. \A e \in Bodies(st) : left.fr[e].shelters = st.fr[e].shelters
        BY <1>3, <1>6 DEF Like
      <3> QED BY <2>6, <3>1, <3>2 DEF Greatest
    <2>9. Passing(left, st.fr[f].due)
      BY <1>2, <1>6, <2>1, <2>4, <2>6 DEF Passing, Like, Waiting
    <2>10. /\ st.fr[f].type \in Storms \cup {AnyStorm} /\ st.fr[f].obj \in Objects \cup {NoObject}
           /\ st.fr[f].due \in 0 .. MaxFrames
      BY <1>5 DEF Frame
    <2>11. Inv(Raise(left, st.fr[f].type, st.fr[f].obj, st.fr[f].due))
      BY <2>3, <2>6, <2>7, <2>8, <2>9, <2>10, RaiseInv
    <2> QED BY <2>5, <2>11
  <1>8. CASE ~Pending(st, f)
    <2> DEFINE n == Len(st.ctl) - 1
               c == SubSeq(st.ctl, 1, n)
               t == Cut(left, n)
    <2>1. st' = t
      BY <1>6, <1>8 DEF EndCalm, PlantCalm
    <2>2. /\ Shape(c) /\ c \in Seq(Regions) /\ Of(c, "body") = Bodies(st)
          /\ Of(c, "handler") = {} /\ Of(c, "calm") = {} /\ Of(c, "return") = {}
      <3>1. /\ Shape(c)
            /\ \A kind \in Blocks \cup {"return"} :
                  Of(c, kind) = Of(st.ctl, kind) \ (IF Last(st.ctl).kind = kind
                                                    THEN {Last(st.ctl).f} ELSE {})
        BY <1>1, CutTop DEF Blocks
      <3> HIDE DEF c
      <3>2. Last(st.ctl).kind = "calm" /\ Last(st.ctl).f = f
        BY <1>1
      <3>3. {"body", "handler", "calm", "return"} = Blocks \cup {"return"}
        BY DEF Blocks
      <3>4. /\ Of(c, "body") = Bodies(st) /\ Of(c, "handler") = Handlers(st)
            /\ Of(c, "calm") = Calms(st) \ {f} /\ Of(c, "return") = Gone(st)
        BY <3>1, <3>2, <3>3 DEF Bodies, Handlers, Calms, Gone
      <3> QED BY <1>2, <3>1, <3>4 DEF Shape
    <2>3. Same(t, left) /\ t.ctl = c
      <3>1. t = [left EXCEPT !.ctl = c]
        BY <1>6 DEF Cut
      <3> HIDE DEF t, c, left
      <3> QED BY <1>6, <2>2, <3>1, CtlSets
    <2> HIDE DEF t, c, n
    <2>4. Bodies(t) = Bodies(st) /\ Handlers(t) = {} /\ Calms(t) = {} /\ Gone(t) = {}
      BY <2>2, <2>3 DEF Bodies, Handlers, Calms, Gone
    <2>5. /\ Linked(t) = Linked(st) \ {f}
      BY <1>2, <1>4, <2>4 DEF Linked
    <2>6. f \in Linked(st) => st.head = f
      <3> SUFFICES ASSUME f \in Linked(st) PROVE st.head = f
        OBVIOUS
      <3>1. \A e \in Linked(st) : e <= f
        BY <1>2, <1>3 DEF Linked
      <3>2. /\ st.head \in Linked(st) \cup {0} /\ \A e \in Linked(st) : e <= st.head
        BY <1>1, <1>3, FidFacts DEF Chained, Below
      <3>3. f <= st.head /\ st.head <= f
        BY <1>2, <3>1, <3>2
      <3> QED BY <1>2, <1>3, <3>2, <3>3
    <2>7. ~Waiting(st, f)
      BY <1>8 DEF Pending, Waiting
    <2>8. Opened(st) \ {f} \subseteq Opened(t) \ Gone(t)
      BY <1>2, <2>4 DEF Opened
    <2>9. Shape(t.ctl)
      BY <2>2, <2>3
    <2> HIDE DEF f
    <2>10. Inv(t)
      BY <1>1, <1>2, <2>3, <2>4, <2>5, <2>6, <2>7, <2>8, <2>9, LeftKept DEF left
    <2> QED BY <2>1, <2>10
  <1> QED BY <1>7, <1>8

\* What an exit or a return closes: one body, the innermost.
LEMMA ClosedTop ==
    ASSUME NEW c, Shape(c), c # <<>>, Last(c).kind \in {"exit", "return"}
    PROVE  LET f == Last(c).f
               d == SubSeq(c, 1, Last(c).to)
           IN /\ f \in Of(c, "body") /\ \A e \in Of(c, "body") : e <= f
              /\ Shape(d) /\ Of(d, "body") = Of(c, "body") \ {f}
              /\ \A kind \in Special : Of(d, kind) = {}
  <1> DEFINE n == Len(c)
             to == Last(c).to
             d == SubSeq(c, 1, to)
  <1>1. c \in Seq(Regions) /\ n \in Nat \ {0} /\ n \in 1 .. Len(c) /\ Last(c) = c[n]
    BY LastRegion DEF Shape
  <1>2. \A j \in 1 .. n - 1 : c[j].kind \notin Special
    <2>1. Last(c).kind \notin Code
      BY DEF Code
    <2> QED BY <2>1, TopRegion
  <1>3. PICK j \in 1 .. n - 1 :
              /\ c[j].kind = "body" /\ c[j].f = c[n].f /\ c[n].to < j
              /\ \A k \in 1 .. n - 1 : c[n].to < k => k = j \/ c[k].kind \in Code
    <2>1. Closing(c, n)
      BY <1>1, LevelFacts
    <2> QED BY <2>1 DEF Closing
  <1>4. to \in 0 .. Len(c) /\ to = c[n].to /\ to \in Nat /\ to < n
    <2>1. c[n] \in Regions
      BY <1>1
    <2>2. to \in Nat /\ to = c[n].to
      BY <1>1, <2>1 DEF Regions
    <2>3. to < j /\ j \in 1 .. n - 1
      BY <1>3, <2>2
    <2> HIDE DEF to, n
    <2>4. to \in 0 .. n /\ to < n
      BY <1>1, <2>2, <2>3
    <2> QED BY <2>2, <2>4 DEF n
  <1> HIDE DEF n, to
  <1>5. j \in 1 .. Len(c) /\ j \in to + 1 .. Len(c) /\ Len(c) = n
    BY <1>1, <1>3, <1>4 DEF n
  <1>6. Shape(d)
    BY <1>4, ShapeCut
  <1>7. Of(d, "body") = Of(c, "body") \ {c[j].f}
    <2>1. \A k \in to + 1 .. Len(c) : c[k].kind = c[j].kind => k = j
      <3> SUFFICES ASSUME NEW k \in to + 1 .. Len(c), c[k].kind = "body" PROVE k = j
        BY <1>3
      <3>1. k = n \/ (k \in 1 .. n - 1 /\ to < k)
        BY <1>1, <1>4, <1>5
      <3>2. k # n
        BY <1>1
      <3> QED BY <1>3, <1>4, <3>1, <3>2 DEF Code
    <2>2. c[j].kind \in Blocks
      BY <1>3 DEF Blocks
    <2> HIDE DEF d
    <2>3. Of(SubSeq(c, 1, to), c[j].kind) = Of(c, c[j].kind) \ {c[j].f}
      BY <1>4, <1>5, <2>1, <2>2, OfCutBlock
    <2> QED BY <1>3, <2>3 DEF d
  <1>8. ASSUME NEW kind \in Special PROVE Of(d, kind) = {}
    <2>1. Of(d, kind) = {c[k].f : k \in {i \in 1 .. to : c[i].kind = kind}}
      BY <1>1, <1>4, OfCut
    <2>2. \A k \in 1 .. to : k \in 1 .. n - 1
      BY <1>1, <1>4
    <2> QED BY <1>2, <2>1, <2>2
  <1>9. c[j].f \in Of(c, "body")
    BY <1>3, <1>5 DEF Of
  <1>10. ASSUME NEW e \in Of(c, "body") PROVE e <= c[j].f
    <2>1. PICK k \in 1 .. Len(c) : c[k].kind = "body" /\ c[k].f = e
      BY DEF Of
    <2>2. k # n /\ c[k].f \in Fid /\ c[j].f \in Fid
      BY <1>1, <1>3, <1>5, <2>1, LevelFacts DEF Code
    <2>3. k \in 1 .. n - 1
      BY <1>1, <1>5, <2>2
    <2>4. CASE k = j
      BY <2>1, <2>2, <2>4
    <2>5. CASE k # j
      <3>1. ~(to < k)
        BY <1>3, <1>4, <2>1, <2>3, <2>5 DEF Code
      <3>2. k \in 1 .. j - 1
        BY <1>3, <1>4, <2>3, <3>1
      <3>3. c[k].f < c[j].f
        BY <1>3, <1>5, <2>1, <3>2, LevelFacts DEF Blocks
      <3> QED BY <2>1, <2>2, <3>3
    <2> QED BY <2>4, <2>5
  <1> QED BY <1>1, <1>3, <1>6, <1>7, <1>8, <1>9, <1>10 DEF d, to

\* The end of a return closes the body whose frame its exit has left.
LEMMA EndReturnKept ==
    ASSUME IInv, EndReturn
    PROVE  Inv(st')
  <1> DEFINE f == Top(st).f
             c == SubSeq(st.ctl, 1, Top(st).to)
             t == Cut(st, Top(st).to)
  <1>1. /\ Inv(st) /\ st \in Machine /\ Shape(st.ctl) /\ st.ctl # <<>> /\ Chained(st)
        /\ Storming(st) /\ Passed(st) /\ Kept(st) /\ Top(st).kind = "return"
        /\ Top(st).kind \in Special /\ Top(st) = Last(st.ctl) /\ st' = t
    BY DEF IInv, Inv, EndReturn, Running, Special, Top
  <1>2. f \in Fid /\ Handlers(st) = {} /\ Calms(st) = {} /\ Gone(st) = {f}
    BY <1>1, TopSets
  <1>3. /\ f \in Bodies(st) /\ Shape(c) /\ Of(c, "body") = Bodies(st) \ {f}
        /\ Of(c, "handler") = {} /\ Of(c, "calm") = {} /\ Of(c, "return") = {}
    BY <1>1, ClosedTop DEF Bodies, Special
  <1>4. Same(t, st) /\ t.ctl = c
    <2>1. t = [st EXCEPT !.ctl = c] /\ c \in Seq(Regions)
      BY <1>3 DEF Cut, Shape
    <2> HIDE DEF t, c
    <2> QED BY <1>1, <2>1, CtlSets
  <1> HIDE DEF t, c, f
  <1>5. Bodies(t) = Bodies(st) \ {f} /\ Handlers(t) = {} /\ Calms(t) = {} /\ Gone(t) = {}
    BY <1>3, <1>4 DEF Bodies, Handlers, Calms, Gone
  <1>6. Linked(t) = Linked(st) /\ Opened(t) = Opened(st) \ Gone(st)
    BY <1>2, <1>5 DEF Linked, Opened
  <1>7. /\ t \in Machine /\ t.used = st.used /\ t.head = st.head /\ t.handling = st.handling
        /\ t.heap = st.heap /\ t.queue = st.queue /\ t.twice = st.twice /\ t.end = st.end
        /\ t.abortDue = st.abortDue /\ \A g \in Fid : Alike(t.fr[g], st.fr[g])
        /\ \A g \in Fid : Like(t.fr[g], st.fr[g]) /\ Listed(t, g) = Listed(st, g)
    BY <1>4 DEF Same, Alike, Listed
  <1>8. Linked(st) \subseteq Fid /\ Bodies(st) \subseteq Fid /\ Opened(st) \subseteq 1 .. st.used
    BY <1>1, FramesAreFid DEF Chained
  <1>9. Chained(t)
    BY <1>1, <1>6, <1>7, <1>8 DEF Chained, Below, Like
  <1>10. Storming(t)
    <2>1. /\ \A g \in Bodies(t) : ~t.fr[g].raised /\ ~t.fr[g].handled
          /\ \A g \in Fid : t.used < g => ~t.fr[g].raised
      BY <1>1, <1>5, <1>7, <1>8 DEF Storming, Like
    <2> QED BY <1>1, <1>2, <1>5, <1>7, <2>1 DEF Storming
  <1>11. Passed(t)
    <2>1. \A g \in Opened(st) : ~Waiting(st, g)
      BY <1>1, <1>2 DEF Opened, Storming, Waiting
    <2> QED BY <1>1, <1>2, <1>7, <2>1, PassedKept
  <1>12. Kept(t)
    BY <1>1, <1>5, <1>6, <1>7 DEF Kept, Alike
  <1>13. Shape(t.ctl)
    BY <1>3, <1>4
  <1> QED BY <1>1, <1>7, <1>9, <1>10, <1>11, <1>12, <1>13 DEF Inv

\* A special region on plain code and bodies carries no threaded list.
LEMMA SpecialThreaded ==
    ASSUME NEW c, NEW k \in Nat \ {0}, c[k].kind \in Special
    PROVE  Threaded(c, k)
  <1>1. k \in 1 .. k /\ \A n \in k .. k : n = k
    OBVIOUS
  <1>2. c[k].kind # "call"
    BY DEF Special
  <1> QED BY <1>1, <1>2 DEF Threaded

\* The exit that ends becomes the return that evaluates the value.
LEMMA ReturnShape ==
    ASSUME NEW c, Shape(c), c # <<>>, Last(c).kind = "exit",
           NEW x \in Regions, x.kind = "return", x.f = Last(c).f, x.to = Last(c).to
    PROVE  LET d == Append(Front(c), x)
           IN /\ Shape(d) /\ Of(d, "body") = Of(c, "body") /\ Of(d, "handler") = {}
              /\ Of(d, "calm") = {} /\ Of(d, "return") = {x.f}
  <1> DEFINE n == Len(c)
             m == n - 1
             e == SubSeq(c, 1, m)
             d == Append(e, x)
  <1>1. /\ c \in Seq(Regions) /\ n \in Nat \ {0} /\ Last(c) = c[n] /\ Front(c) = e
        /\ m \in 0 .. Len(c) /\ n \in 1 .. Len(c)
    BY LastRegion DEF Shape
  <1>2. /\ c[n].f \in Fid /\ n > 1 /\ \A j \in 1 .. n - 1 : c[j].kind \notin Special
        /\ \A kind \in Special : Of(c, kind) = IF kind = "exit" THEN {c[n].f} ELSE {}
    <2>1. Last(c).kind \notin Code
      BY DEF Code
    <2> QED BY <1>1, <2>1, TopRegion
  <1>3. n = m + 1 /\ \A k \in m + 1 .. Len(c) : k = n
    BY <1>1
  <1> HIDE DEF n, m
  <1>4. e \in Seq(Regions) /\ Len(e) = m /\ (\A j \in 1 .. m : e[j] = c[j]) /\ Shape(e)
    BY <1>1, CutSeq, ShapeCut
  <1>5. \A kind : kind # "exit" => Of(e, kind) = Of(c, kind)
    BY <1>1, <1>3, OfCut
  <1>6. d[n] = x /\ \A j \in 1 .. n - 1 : d[j] = c[j]
    <2>1. d[Len(e) + 1] = x /\ \A j \in 1 .. Len(e) : d[j] = e[j]
      BY <1>4, AppendProperties
    <2>2. m \in Nat
      BY <1>1
    <2>3. n - 1 = m
      BY <1>3, <2>2
    <2> HIDE DEF d, e
    <2> QED BY <1>3, <1>4, <2>1, <2>3
  <1> HIDE DEF e, d
  <1>7. Level(d, n)
    <2>1. Closing(d, n)
      <3>1. Closing(c, n)
        BY <1>1, LevelFacts
      <3>2. PICK j \in 1 .. n - 1 :
              /\ c[j].kind = "body" /\ c[j].f = c[n].f /\ c[n].to < j
              /\ \A k \in 1 .. n - 1 : c[n].to < k => k = j \/ c[k].kind \in Code
              /\ \A k \in j .. n - 1 : c[k].kind # "call"
        BY <3>1 DEF Closing
      <3>3. /\ d[j].kind = "body" /\ d[j].f = d[n].f /\ d[n].to < j
        BY <1>1, <1>6, <3>2
      <3>4. \A k \in 1 .. n - 1 : d[n].to < k => k = j \/ d[k].kind \in Code
        BY <1>1, <1>6, <3>2
      <3>5. \A k \in j .. n - 1 : k \in 1 .. n - 1
        BY <3>2, <1>1
      <3>6. \A k \in j .. n - 1 : d[k].kind # "call"
        BY <1>6, <3>2, <3>5
      <3> QED BY <3>3, <3>4, <3>6 DEF Closing
    <2>2. Threaded(d, n)
      BY <1>1, <1>6, SpecialThreaded DEF Special
    <2>3. \A j \in 1 .. n - 1 : d[j].kind \notin Special
      BY <1>2, <1>6
    <2>4. d[n].kind = "return" /\ d[n].f \in Fid /\ n # 1 /\ d[n].kind \notin Blocks
      BY <1>1, <1>2, <1>6 DEF Blocks
    <2> QED BY <2>1, <2>2, <2>3, <2>4 DEF Level
  <1>8. Shape(d)
    BY <1>3, <1>4, <1>7, ShapePush DEF d
  <1>9. \A kind : Of(d, kind) = Of(e, kind) \cup (IF x.kind = kind THEN {x.f} ELSE {})
    BY <1>4, OfPush DEF d
  <1>10. Of(d, "body") = Of(c, "body")
    BY <1>5, <1>9
  <1>11. /\ Of(d, "handler") = {} /\ Of(d, "calm") = {} /\ Of(d, "return") = {x.f}
    BY <1>2, <1>5, <1>9 DEF Special
  <1> QED BY <1>1, <1>8, <1>10, <1>11 DEF d

\* An exit leaves the frame of the body it jumps out of.
LEMMA EndExitKept ==
    ASSUME IInv, EndExit
    PROVE  Inv(st')
  <1> DEFINE r == Top(st)
             f == r.f
             left == Leave(st, f)
  <1>1. /\ Inv(st) /\ st \in Machine /\ Shape(st.ctl) /\ st.ctl # <<>> /\ Chained(st)
        /\ Storming(st) /\ r.kind = "exit" /\ r.kind \in Special
        /\ r = Last(st.ctl) /\ st.ctl \in Seq(Regions) /\ r \in Regions
    BY LastRegion DEF IInv, Inv, EndExit, Running, Special, Top, Shape
  <1>2. f \in Fid /\ Handlers(st) = {} /\ Calms(st) = {} /\ Gone(st) = {}
    BY <1>1, TopSets
  <1>3. f \in Bodies(st) /\ \A e \in Bodies(st) : e <= f
    BY <1>1, ClosedTop DEF Bodies
  <1>4. ~Waiting(st, f) /\ ~Pending(st, f)
    BY <1>1, <1>3 DEF Storming, Waiting, Pending
  <1>5. left \in Machine /\ left.ctl = st.ctl
    BY <1>1, <1>2, LeaveSets
  <1>6. ~(r.i < Len(r.chain))
    <2>1. Len(st.ctl) \in 1 .. Len(st.ctl) /\ r = st.ctl[Len(st.ctl)]
      BY <1>1, LastRegion
    <2>2. r.chain = <<Finalize(f, TRUE)>> /\ r.i = 1
      BY <1>1, <2>1, LevelFacts
    <2> QED BY <2>2
  <1>7. st' = AfterExit(left, r)
    BY <1>4, <1>6 DEF EndExit, PlantCalm
  <1>8. Linked(st) = Bodies(st) /\ st.head = f /\ Opened(st) = Bodies(st)
    <2>1. Linked(st) = Bodies(st)
      BY <1>2 DEF Linked
    <2>2. Bodies(st) \subseteq Fid
      BY <1>1, FramesAreFid
    <2>3. st.head \in Bodies(st) \cup {0} /\ \A e \in Bodies(st) : e <= st.head
      BY <1>1, <2>1, <2>2, FidFacts DEF Chained, Below
    <2>4. f <= st.head /\ st.head <= f
      BY <1>2, <1>3, <2>3
    <2>5. st.head = f
      BY <1>2, <2>2, <2>3, <2>4
    <2> QED BY <1>2, <2>1, <2>5 DEF Opened
  <1>9. ASSUME NEW c \in Seq(Regions), st' = [left EXCEPT !.ctl = c], Shape(c),
               Of(c, "body") \subseteq Bodies(st), Of(c, "handler") = {}, Of(c, "calm") = {},
               Of(c, "body") \ Of(c, "return") = Bodies(st) \ {f}
        PROVE  Inv(st')
    <2> DEFINE t == [left EXCEPT !.ctl = c]
    <2>1. Same(t, left) /\ t.ctl = c
      BY <1>5, CtlSets
    <2> HIDE DEF t
    <2>2. /\ Bodies(t) \subseteq Bodies(st) /\ Handlers(t) = {} /\ Calms(t) = {}
          /\ Bodies(t) \ Gone(t) = Bodies(st) \ {f}
      BY <1>9, <2>1 DEF Bodies, Handlers, Calms, Gone
    <2>3. Linked(t) = Linked(st) \ {f} /\ Opened(st) \ {f} \subseteq Opened(t) \ Gone(t)
      BY <1>8, <2>2 DEF Linked, Opened
    <2>4. Shape(t.ctl) /\ Calms(st) \subseteq {f}
      BY <1>2, <1>9, <2>1
    <2> HIDE DEF f, r
    <2>5. Inv(t)
      BY <1>1, <1>2, <1>4, <1>8, <2>1, <2>2, <2>3, <2>4, LeftKept DEF left
    <2> QED BY <1>9, <2>5 DEF t
  <1>10. CASE r.gives
    <2> DEFINE x == [r EXCEPT !.kind = "return", !.chain = <<>>, !.i = 0]
               c == Append(Front(st.ctl), x)
    <2>1. /\ x \in Regions /\ x.kind = "return" /\ x.f = f /\ x.to = r.to
      <3>1. "return" \in Kinds /\ <<>> \in Seq(Step) /\ 0 \in Nat
        BY DEF Kinds, Special
      <3> HIDE DEF r
      <3> QED BY <1>1, <3>1 DEF Regions
    <2>2. st' = [left EXCEPT !.ctl = c]
      BY <1>5, <1>7, <1>10 DEF AfterExit, Retop
    <2> HIDE DEF x
    <2>3. /\ Shape(c) /\ Of(c, "body") = Bodies(st) /\ Of(c, "handler") = {}
          /\ Of(c, "calm") = {} /\ Of(c, "return") = {f}
      BY <1>1, <2>1, ReturnShape DEF Bodies
    <2> HIDE DEF c, left, f, r
    <2> QED BY <1>9, <2>2, <2>3 DEF Shape
  <1>11. CASE ~r.gives
    <2> DEFINE c == SubSeq(st.ctl, 1, r.to)
    <2>1. st' = [left EXCEPT !.ctl = c]
      BY <1>5, <1>7, <1>11 DEF AfterExit, Cut
    <2>2. /\ Shape(c) /\ Of(c, "body") = Bodies(st) \ {f} /\ Of(c, "handler") = {}
          /\ Of(c, "calm") = {} /\ Of(c, "return") = {}
      BY <1>1, ClosedTop DEF Bodies, Special
    <2> HIDE DEF c, left, f, r
    <2> QED BY <1>9, <2>1, <2>2 DEF Shape
  <1> QED BY <1>10, <1>11

----------------------------------------------------------------------------
(* A body or a handler ends *)

\* The frame of a body that ends stays linked until its CALM body has run.
LEMMA EndBodyKept ==
    ASSUME IInv, EndBody
    PROVE  Inv(st')
  <1> DEFINE f == Top(st).f
             t == StartCalm(st)
  <1>1. /\ Inv(st) /\ st \in Machine /\ Shape(st.ctl) /\ st.ctl # <<>> /\ Chained(st)
        /\ Storming(st) /\ Passed(st) /\ Kept(st) /\ Top(st).kind = "body"
        /\ Top(st) = Last(st.ctl) /\ st' = t
    BY DEF IInv, Inv, EndBody, Running, Top
  <1>2. /\ f \in Fid /\ Top(st).lex # <<>>
        /\ Handlers(st) = {} /\ Calms(st) = {} /\ Gone(st) = {}
    <2>1. Last(st.ctl).kind \notin Code /\ Last(st.ctl).kind \in Blocks
      BY <1>1 DEF Code, Blocks
    <2> QED BY <1>1, <2>1, TopRegion DEF Handlers, Calms, Gone, Special
  <1>3. PICK x \in Regions : /\ x.kind = "calm" /\ x.f = f /\ x.lex # <<>>
                             /\ Same(t, st) /\ t.ctl = Append(Front(st.ctl), x)
    BY <1>1, <1>2, StartCalmSets
  <1> HIDE DEF t
  <1>4. /\ Shape(t.ctl)
        /\ \A kind \in Blocks \cup {"return"} :
              Of(t.ctl, kind) = (Of(st.ctl, kind) \ (IF Last(st.ctl).kind = kind THEN {x.f} ELSE {}))
                                   \cup (IF x.kind = kind THEN {x.f} ELSE {})
    BY <1>1, <1>3, RetopShape
  <1> HIDE DEF f
  <1>5. /\ Bodies(t) = Bodies(st) \ {f} /\ Handlers(t) = {} /\ Calms(t) = {f} /\ Gone(t) = {}
    <2>1. {"body", "handler", "calm", "return"} = Blocks \cup {"return"}
      BY DEF Blocks
    <2> QED BY <1>1, <1>2, <1>3, <1>4, <2>1 DEF Bodies, Handlers, Calms, Gone
  <1>6. f \in Bodies(st)
    <2>1. Len(st.ctl) \in 1 .. Len(st.ctl) /\ Top(st) = st.ctl[Len(st.ctl)]
      BY <1>1, LastRegion DEF Shape
    <2> QED BY <1>1, <2>1 DEF Bodies, Of, f
  <1>7. /\ t \in Machine /\ t.used = st.used /\ t.head = st.head /\ t.handling = st.handling
        /\ t.heap = st.heap /\ t.queue = st.queue /\ t.twice = st.twice /\ t.end = st.end
        /\ t.abortDue = st.abortDue /\ \A g \in Fid : Alike(t.fr[g], st.fr[g])
        /\ \A g \in Fid : Like(t.fr[g], st.fr[g]) /\ Listed(t, g) = Listed(st, g)
    BY <1>3 DEF Same, Alike, Listed
  <1>8. ~t.fr[f].raised /\ Opened(t) = Opened(st) /\ Opened(st) = Bodies(st)
    BY <1>1, <1>2, <1>5, <1>6, <1>7 DEF Opened, Storming, Like
  <1>9. Linked(t) = Linked(st)
    BY <1>2, <1>5, <1>6, <1>8 DEF Linked
  <1>10. Linked(st) \subseteq Fid /\ Bodies(st) \subseteq Fid
    BY <1>1, FramesAreFid
  <1>11. Chained(t)
    BY <1>1, <1>7, <1>8, <1>9, <1>10 DEF Chained, Below, Like
  <1>12. Storming(t)
    <2>1. /\ \A g \in Bodies(t) : ~t.fr[g].raised /\ ~t.fr[g].handled
          /\ \A g \in Fid : t.used < g => ~t.fr[g].raised
      BY <1>1, <1>5, <1>7, <1>10 DEF Storming, Like
    <2>2. \A g \in Calms(t) : ~Waiting(t, g)
      BY <1>5, <1>8 DEF Waiting
    <2> QED BY <1>1, <1>2, <1>5, <1>7, <2>1, <2>2 DEF Storming
  <1>13. Passed(t)
    BY <1>1, <1>2, <1>7, <1>8, PassedKept
  <1>14. Kept(t)
    BY <1>1, <1>2, <1>5, <1>7, <1>8 DEF Kept, Alike
  <1> QED BY <1>1, <1>4, <1>7, <1>11, <1>12, <1>13, <1>14 DEF Inv

LEMMA FreeSets ==
    ASSUME NEW s \in Machine, NEW hs
    PROVE  LET t == Free(s, hs)
           IN /\ t \in Machine /\ t.ctl = s.ctl /\ t.fr = s.fr /\ t.used = s.used
              /\ t.head = s.head /\ t.handling = s.handling /\ t.heap = s.heap \ hs
              /\ t.queue = s.queue /\ t.twice = (s.twice \/ ~(hs \subseteq s.heap))
              /\ t.end = s.end /\ t.abortDue = s.abortDue
  <1>1. (s.twice \/ ~(hs \subseteq s.heap)) \in BOOLEAN /\ s.heap \ hs \subseteq s.heap
    BY DEF Machine
  <1> QED BY <1>1 DEF Machine, Free

\* With no mark the end of a handler frees everything its frame lists.
LEMMA ShelterSets ==
    ASSUME NEW s \in Machine, NEW f \in Fid, s.fr[f].mark = 0
    PROVE  LET t == ShelterLeave(s, f)
           IN /\ t \in Machine /\ t.ctl = s.ctl /\ t.used = s.used
              /\ t.head = s.head /\ t.handling = s.handling /\ t.heap = s.heap \ Listed(s, f)
              /\ t.queue = s.queue /\ t.twice = (s.twice \/ ~(Listed(s, f) \subseteq s.heap))
              /\ t.end = s.end /\ t.abortDue = s.abortDue
              /\ \A g \in Fid : Like(t.fr[g], s.fr[g])
              /\ \A g \in Fid \ {f} : Alike(t.fr[g], s.fr[g])
              /\ t.fr[f].list = <<>> /\ t.fr[f].mark = 0
  <1> DEFINE list == s.fr[f].list
             u == Free(s, Listed(s, f))
             a == [s.fr[f] EXCEPT !.list = <<>>, !.mark = 0]
             t == [u EXCEPT !.fr = [@ EXCEPT ![f] = a]]
  <1>1. s.fr[f] \in Frame /\ list \in Seq(Handles)
    BY DEF Machine, Frame
  <1>2. SubSeq(list, 1, Len(list)) = list /\ SubSeq(list, 1, 0) = <<>>
    <2> HIDE DEF list
    <2>1. Len(list) \in 0 .. Len(list) /\ 0 \in 0 .. Len(list)
      BY <1>1
    <2>2. /\ SubSeq(list, 1, Len(list)) \in Seq(Handles)
          /\ Len(SubSeq(list, 1, Len(list))) = Len(list)
          /\ \A i \in 1 .. Len(list) : SubSeq(list, 1, Len(list))[i] = list[i]
      BY <1>1, <2>1, CutSeq
    <2>3. SubSeq(list, 1, Len(list)) = list
      BY <1>1, <2>2, SeqEqual
    <2>4. SubSeq(list, 1, 0) \in Seq(Handles) /\ Len(SubSeq(list, 1, 0)) = 0
      BY <1>1, <2>1, CutSeq
    <2>5. SubSeq(list, 1, 0) = <<>>
      BY <2>4, EmptySeq
    <2> QED BY <2>3, <2>5
  <1>3. /\ a \in Frame /\ Like(a, s.fr[f]) /\ a.list = <<>> /\ a.mark = 0
    <2> DEFINE r == s.fr[f]
    <2> HIDE DEF r
    <2>1. <<>> \in Seq(Handles) /\ 0 \in Nat
      OBVIOUS
    <2>2. ASSUME r \in Frame, NEW q \in Seq(Handles)
          PROVE  LET b == [r EXCEPT !.list = q, !.mark = 0]
                 IN b \in Frame /\ Like(b, r) /\ b.list = q /\ b.mark = 0
      BY <2>2 DEF Frame, Like
    <2> QED BY <1>1, <2>1, <2>2 DEF r
  <1>4. /\ u \in Machine /\ u.ctl = s.ctl /\ u.fr = s.fr /\ u.used = s.used
        /\ u.head = s.head /\ u.handling = s.handling /\ u.heap = s.heap \ Listed(s, f)
        /\ u.queue = s.queue /\ u.twice = (s.twice \/ ~(Listed(s, f) \subseteq s.heap))
        /\ u.end = s.end /\ u.abortDue = s.abortDue
    BY FreeSets
  <1>5. ShelterLeave(s, f) = t
    <2>1. 0 + 1 = 1
      OBVIOUS
    <2>2. SubSeq(list, 0 + 1, Len(list)) = list
      BY <1>2, <2>1
    <2>3. ShelterLeave(s, f) = [u EXCEPT !.fr[f].list = SubSeq(@, 1, 0), !.fr[f].mark = 0]
      BY <2>2 DEF ShelterLeave, Listed
    <2> HIDE DEF u
    <2>4. u.fr[f] = s.fr[f] /\ f \in DOMAIN u.fr /\ u.fr \in [Fid -> Frame] /\ u \in Machine
      BY <1>4 DEF Machine
    <2>5. [u EXCEPT !.fr[f].list = SubSeq(@, 1, 0), !.fr[f].mark = 0]
             = [u EXCEPT !.fr[f].list = <<>>, !.fr[f].mark = 0]
      <3>1. SubSeq(u.fr[f].list, 1, 0) = <<>>
        BY <1>2, <2>4
      <3>2. [u EXCEPT !.fr[f].list = SubSeq(@, 1, 0)]
               = [u EXCEPT !.fr[f].list = SubSeq(u.fr[f].list, 1, 0)]
        OBVIOUS
      <3>3. [u EXCEPT !.fr[f].list = SubSeq(@, 1, 0)] = [u EXCEPT !.fr[f].list = <<>>]
        BY <3>1, <3>2
      <3> QED BY <3>3
    <2>6. [u EXCEPT !.fr[f].list = <<>>, !.fr[f].mark = 0] = t
      BY <1>1, <2>4 DEF Machine, Frame
    <2> QED BY <2>3, <2>5, <2>6
  <1> HIDE DEF a, u
  <1>6. FramesOnly(t, u) /\ t.fr[f] = a /\ \A g \in Fid \ {f} : t.fr[g] = u.fr[g]
    BY <1>3, <1>4, FrameSets
  <1> HIDE DEF t
  <1>7. /\ \A g \in Fid : Like(t.fr[g], s.fr[g])
        /\ \A g \in Fid \ {f} : Alike(t.fr[g], s.fr[g])
    BY <1>3, <1>4, <1>6 DEF Like, Alike
  <1> QED BY <1>3, <1>4, <1>5, <1>6, <1>7 DEF FramesOnly

\* The end of a handler releases its storm and everything registered in it.
LEMMA EndHandlerKept ==
    ASSUME IInv, EndHandler
    PROVE  Inv(st')
  <1> DEFINE f == Top(st).f
             os == {o \in Objects \cap st.heap : FirstWord(o) = st.fr[f].obj}
             s1 == StormRelease(st, st.fr[f].obj)
             s2 == ShelterLeave(s1, f)
             s3 == HandlingEnd(s2, f)
             t == StartCalm(s3)
  <1>1. /\ Inv(st) /\ st \in Machine /\ Shape(st.ctl) /\ st.ctl # <<>> /\ Chained(st)
        /\ Storming(st) /\ Passed(st) /\ Kept(st) /\ Top(st).kind = "handler"
        /\ Top(st) = Last(st.ctl) /\ st' = t
    BY DEF IInv, Inv, EndHandler, Running, Top
  <1>2. /\ f \in Fid /\ Top(st).lex # <<>>
        /\ Handlers(st) = {f} /\ Calms(st) = {} /\ Gone(st) = {}
    <2>1. Last(st.ctl).kind \notin Code /\ Last(st.ctl).kind \in Blocks
      BY <1>1 DEF Code, Blocks
    <2> QED BY <1>1, <2>1, TopRegion DEF Handlers, Calms, Gone, Special
  <1>3. /\ s1 \in Machine /\ s1.ctl = st.ctl /\ s1.fr = st.fr /\ s1.used = st.used
        /\ s1.head = st.head /\ s1.handling = st.handling /\ s1.heap = st.heap \ os
        /\ s1.queue = st.queue /\ s1.twice = st.twice
        /\ s1.end = st.end /\ s1.abortDue = st.abortDue
    <2>1. s1 = Free(st, os)
      BY DEF StormRelease
    <2>2. os \subseteq st.heap
      OBVIOUS
    <2>3. st.twice \in BOOLEAN
      BY <1>1 DEF Machine
    <2> HIDE DEF s1, os
    <2> QED BY <1>1, <2>1, <2>2, <2>3, FreeSets
  <1> HIDE DEF s1
  <1>4. s1.fr[f].mark = 0 /\ Listed(s1, f) = Listed(st, f)
    BY <1>1, <1>2, <1>3 DEF Kept, Listed
  <1>5. /\ s2 \in Machine /\ s2.ctl = st.ctl /\ s2.used = st.used
        /\ s2.head = st.head /\ s2.handling = st.handling
        /\ s2.heap = (st.heap \ os) \ Listed(st, f) /\ s2.queue = st.queue
        /\ s2.twice = (st.twice \/ ~(Listed(st, f) \subseteq st.heap \ os))
        /\ s2.end = st.end /\ s2.abortDue = st.abortDue
        /\ \A g \in Fid : Like(s2.fr[g], st.fr[g])
        /\ \A g \in Fid \ {f} : Alike(s2.fr[g], st.fr[g])
        /\ s2.fr[f].list = <<>> /\ s2.fr[f].mark = 0
    BY <1>2, <1>3, <1>4, ShelterSets
  <1> HIDE DEF s2
  <1>6. /\ s3 \in Machine /\ s3.handling = 0 /\ s3.ctl = st.ctl /\ s3.fr = s2.fr
        /\ s3.used = st.used /\ s3.head = st.head /\ s3.heap = s2.heap /\ s3.queue = st.queue
        /\ s3.twice = s2.twice /\ s3.end = st.end /\ s3.abortDue = st.abortDue
    <2>1. st.handling = f
      BY <1>1, <1>2 DEF Storming
    <2>2. s3 = [s2 EXCEPT !.handling = 0]
      BY <1>5, <2>1 DEF HandlingEnd
    <2>3. 0 \in 0 .. MaxFrames
      BY WeatherAssumption
    <2> HIDE DEF s3
    <2> QED BY <1>5, <2>2, <2>3, HandlingSets
  <1> HIDE DEF s3
  <1>7. PICK x \in Regions : /\ x.kind = "calm" /\ x.f = f /\ x.lex # <<>>
                             /\ Same(t, s3) /\ t.ctl = Append(Front(st.ctl), x)
    <2>1. Top(s3) = Top(st)
      BY <1>6 DEF Top
    <2> QED BY <1>1, <1>2, <1>6, <2>1, StartCalmSets
  <1> HIDE DEF t
  <1>8. /\ Shape(t.ctl)
        /\ \A kind \in Blocks \cup {"return"} :
              Of(t.ctl, kind) = (Of(st.ctl, kind) \ (IF Last(st.ctl).kind = kind THEN {x.f} ELSE {}))
                                   \cup (IF x.kind = kind THEN {x.f} ELSE {})
    BY <1>1, <1>7, RetopShape
  <1> HIDE DEF f, os
  <1>9. /\ Bodies(t) = Bodies(st) /\ Handlers(t) = {} /\ Calms(t) = {f} /\ Gone(t) = {}
    <2>1. {"body", "handler", "calm", "return"} = Blocks \cup {"return"}
      BY DEF Blocks
    <2>2. Last(st.ctl).kind = "handler" /\ x.kind = "calm" /\ x.f = f
      BY <1>1, <1>7
    <2>3. Of(t.ctl, "body") = Of(st.ctl, "body")
      BY <1>8, <2>1, <2>2
    <2>4. Of(t.ctl, "handler") = Of(st.ctl, "handler") \ {f}
      BY <1>8, <2>1, <2>2
    <2>5. Of(t.ctl, "calm") = Of(st.ctl, "calm") \cup {f}
      BY <1>8, <2>1, <2>2
    <2>6. Of(t.ctl, "return") = Of(st.ctl, "return")
      <3>1. Of(t.ctl, "return")
              = (Of(st.ctl, "return") \ (IF Last(st.ctl).kind = "return" THEN {x.f} ELSE {}))
                   \cup (IF x.kind = "return" THEN {x.f} ELSE {})
        BY <1>8, <2>1
      <3>2. Last(st.ctl).kind # "return" /\ x.kind # "return"
        BY <2>2
      <3> QED BY <3>1, <3>2
    <2> QED BY <1>2, <2>3, <2>4, <2>5, <2>6 DEF Bodies, Handlers, Calms, Gone
  <1>10. /\ t \in Machine /\ t.used = st.used /\ t.head = st.head /\ t.handling = 0
         /\ t.heap = s2.heap /\ t.queue = st.queue /\ t.twice = s2.twice /\ t.end = st.end
         /\ t.abortDue = st.abortDue
         /\ \A g \in Fid : Alike(t.fr[g], s2.fr[g])
    BY <1>6, <1>7 DEF Same
  <1>11. /\ \A g \in Fid : Like(t.fr[g], st.fr[g])
         /\ \A g \in Fid \ {f} : Alike(t.fr[g], st.fr[g])
         /\ t.fr[f].list = <<>> /\ t.fr[f].mark = 0
    <2>1. \A g \in Fid : Like(t.fr[g], st.fr[g])
      BY <1>5, <1>10 DEF Alike, Like
    <2> QED BY <1>2, <1>5, <1>10, <2>1 DEF Alike
  <1>12. st.fr[f].raised /\ st.fr[f].handled /\ t.fr[f].raised /\ t.fr[f].handled
    BY <1>1, <1>2, <1>11 DEF Storming, Like
  <1>13. Linked(t) = Linked(st) /\ Opened(t) = Opened(st)
    <2>1. Linked(t) = Bodies(st) /\ Linked(st) = Bodies(st)
      BY <1>2, <1>9, <1>12 DEF Linked
    <2>2. Opened(t) = Bodies(st) \cup {f} /\ Opened(st) = Bodies(st) \cup {f}
      BY <1>2, <1>9 DEF Opened
    <2> QED BY <2>1, <2>2
  <1>14. Linked(st) \subseteq Fid /\ Bodies(st) \subseteq Fid
    BY <1>1, FramesAreFid
  <1>15. Chained(t)
    BY <1>1, <1>10, <1>11, <1>13, <1>14 DEF Chained, Below, Like
  <1>16. Storming(t)
    <2>1. /\ \A g \in Bodies(t) : ~t.fr[g].raised /\ ~t.fr[g].handled
          /\ \A g \in Fid : t.used < g => ~t.fr[g].raised
      BY <1>1, <1>9, <1>10, <1>11, <1>14 DEF Storming, Like
    <2>2. \A g \in Calms(t) : ~Waiting(t, g)
      BY <1>9, <1>12 DEF Waiting
    <2> QED BY <1>1, <1>9, <1>10, <2>1, <2>2 DEF Storming
  <1>17. Passed(t)
    BY <1>1, <1>2, <1>10, <1>11, <1>13, PassedKept
  <1>18. Kept(t)
    <2>1. /\ ~st.twice /\ st.queue \subseteq st.heap
          /\ \A g \in Fid : st.fr[g].mark = 0 /\ (g \notin Opened(st) \ Gone(st) => st.fr[g].list = <<>>)
          /\ \A g \in Fid : Len(st.fr[g].list) <= ExitMax
          /\ \A g \in Fid : Listed(st, g) \subseteq st.heap \ st.queue
          /\ \A g, e \in Fid : g # e => Listed(st, g) \cap Listed(st, e) = {}
          /\ \A h \in Handles \cap st.heap : h \in st.queue \/ \E g \in Fid : h \in Listed(st, g)
      BY <1>1 DEF Kept
    <2>2. Listed(t, f) = {} /\ \A g \in Fid \ {f} : Listed(t, g) = Listed(st, g)
      BY <1>11 DEF Listed, Alike, ToSet
    <2>3. os \cap Handles = {} /\ st.queue \subseteq Handles
      BY <1>1, WeatherAssumption DEF os, Machine
    <2>4. \A g \in Fid : Listed(st, g) \subseteq Handles
      <3> SUFFICES ASSUME NEW g \in Fid PROVE Listed(st, g) \subseteq Handles
        OBVIOUS
      <3>1. st.fr[g].list \in Seq(Handles)
        BY <1>1 DEF Machine, Frame
      <3> QED BY <3>1 DEF Listed, ToSet
    <2>5. ~t.twice
      BY <1>2, <1>5, <1>10, <2>1, <2>3, <2>4
    <2>6. t.heap = (st.heap \ os) \ Listed(st, f) /\ t.queue = st.queue
      BY <1>5, <1>10
    <2>7. t.queue \subseteq t.heap
      BY <1>2, <2>1, <2>3, <2>6
    <2>8. \A g \in Fid : t.fr[g].mark = 0 /\ (g \notin Opened(t) \ Gone(t) => t.fr[g].list = <<>>)
      BY <1>2, <1>9, <1>11, <1>13, <2>1 DEF Alike
    <2>9. \A g \in Fid : Len(t.fr[g].list) <= ExitMax
      <3>1. Len(<<>>) <= ExitMax
        BY WeatherAssumption
      <3> QED BY <1>11, <2>1, <3>1 DEF Alike
    <2>10. \A g \in Fid : Listed(t, g) \subseteq t.heap \ t.queue
      BY <1>2, <2>1, <2>2, <2>3, <2>4, <2>6
    <2>11. \A g, e \in Fid : g # e => Listed(t, g) \cap Listed(t, e) = {}
      BY <2>1, <2>2
    <2>12. \A h \in Handles \cap t.heap : h \in t.queue \/ \E g \in Fid : h \in Listed(t, g)
      BY <2>1, <2>2, <2>6
    <2> QED BY <2>5, <2>7, <2>8, <2>9, <2>10, <2>11, <2>12 DEF Kept
  <1> QED BY <1>1, <1>8, <1>10, <1>15, <1>16, <1>17, <1>18 DEF Inv

----------------------------------------------------------------------------
(* Calls, loops and jumps *)

LEMMA CodeCut ==
    ASSUME NEW s, Inv(s), NEW n \in 0 .. Len(s.ctl),
           \A k \in n + 1 .. Len(s.ctl) : s.ctl[k].kind \in Code
    PROVE  Inv(Cut(s, n))
  <1> DEFINE c == SubSeq(s.ctl, 1, n)
             t == Cut(s, n)
  <1>1. s \in Machine /\ Shape(s.ctl) /\ s.ctl \in Seq(Regions)
    BY DEF Inv, Shape
  <1>2. Shape(c) /\ c \in Seq(Regions)
    BY <1>1, ShapeCut DEF Shape
  <1>3. \A kind \in Blocks \cup {"return"} : Of(c, kind) = Of(s.ctl, kind)
    <2> SUFFICES ASSUME NEW kind \in Blocks \cup {"return"} PROVE Of(c, kind) = Of(s.ctl, kind)
      OBVIOUS
    <2>1. kind \notin Code
      BY DEF Blocks, Code
    <2>2. \A k \in n + 1 .. Len(s.ctl) : s.ctl[k].kind # kind
      BY <2>1
    <2> QED BY <1>1, <2>2, OfCut
  <1>4. Same(t, s) /\ t.ctl = c
    <2>1. t = [s EXCEPT !.ctl = c]
      BY DEF Cut
    <2> HIDE DEF t, c
    <2> QED BY <1>1, <1>2, <2>1, CtlSets
  <1> HIDE DEF t, c
  <1>5. Inv(t)
    BY <1>2, <1>3, <1>4, CodeOnly
  <1> QED BY <1>5 DEF t

LEMMA PlainPush ==
    ASSUME NEW s, Inv(s), NEW x \in Regions, x.kind \notin Blocks \cup {"return"},
           Level(Append(s.ctl, x), Len(s.ctl) + 1)
    PROVE  Same(Push(s, x), s) /\ Inv(Push(s, x))
  <1> DEFINE c == Append(s.ctl, x)
             t == Push(s, x)
  <1>1. s \in Machine /\ Shape(s.ctl) /\ s.ctl \in Seq(Regions)
    BY DEF Inv, Shape
  <1>2. Shape(c) /\ c \in Seq(Regions)
    BY <1>1, ShapePush DEF Shape
  <1>3. \A kind \in Blocks \cup {"return"} : Of(c, kind) = Of(s.ctl, kind)
    <2> SUFFICES ASSUME NEW kind \in Blocks \cup {"return"} PROVE Of(c, kind) = Of(s.ctl, kind)
      OBVIOUS
    <2>1. Of(c, kind) = Of(s.ctl, kind) \cup (IF x.kind = kind THEN {x.f} ELSE {})
      BY <1>1, OfPush
    <2> QED BY <2>1
  <1>4. Same(t, s) /\ t.ctl = c
    <2>1. t = [s EXCEPT !.ctl = c]
      BY DEF Push
    <2> HIDE DEF t, c
    <2> QED BY <1>1, <1>2, <2>1, CtlSets
  <1> HIDE DEF t, c
  <1>5. Inv(t)
    BY <1>2, <1>3, <1>4, CodeOnly
  <1> QED BY <1>4, <1>5 DEF t

\* The levels of a stack that has grown by a region.
LEMMA PushLevels ==
    ASSUME NEW c \in Seq(Regions), NEW x \in Regions
    PROVE  LET d == Append(c, x)
               n == Len(c)
           IN /\ n \in Nat /\ d[n + 1] = x /\ (\A k \in 1 .. n : d[k] = c[k])
              /\ \A k \in 1 .. n + 1 : k = n + 1 \/ k \in 1 .. n
              /\ n + 1 - 1 = n /\ n + 1 \in Nat \ {0}
  BY AppendProperties

LEMMA CallKept ==
    ASSUME Uses = {}, IInv, Call
    PROVE  Inv(st')
  <1> DEFINE c == st.ctl
             x == Region("call", Null, <<>>)
             d == Append(c, x)
             n == Len(c)
             m == n + 1
  <1>1. Inv(st) /\ InCode /\ st' = Push(st, x)
    BY DEF Call, IInv
  <1>2. /\ st \in Machine /\ Shape(c) /\ c \in Seq(Regions) /\ c # <<>>
        /\ Top(st).kind # "return"
    BY <1>1 DEF Inv, Shape, InCode, Running
  <1>3. x \in Regions /\ x.kind = "call" /\ x.lex = <<>>
    <2>1. Null \in 0 .. MaxFrames /\ <<>> \in Seq(Step)
      BY WeatherAssumption
    <2> QED BY <2>1 DEF Region, Regions, Kinds, Code
  <1> HIDE DEF x
  <1>4. /\ n \in Nat /\ d[m] = x /\ (\A k \in 1 .. n : d[k] = c[k])
        /\ \A k \in 1 .. m : k = m \/ k \in 1 .. n
        /\ m - 1 = n /\ m \in Nat \ {0}
    BY <1>2, <1>3, PushLevels
  <1>5. \A k \in 1 .. n : d[k].kind # "return"
    BY <1>2, <1>4, CodeReturns
  <1> HIDE DEF d, n, m
  <1>6. Level(d, m)
    <2>1. Own(d, m) = {}
      <3>1. \A i \in 1 .. m : m \in i .. m
        BY <1>4
      <3> QED BY <1>3, <1>4, <3>1 DEF Own
    <2>2. Threaded(d, m)
      <3>1. Len(<<>>) # 1
        OBVIOUS
      <3> QED BY <1>3, <1>4, <2>1, <3>1 DEF Threaded
    <2>3. d[m].kind = "call" /\ d[m].kind \in Code /\ d[m].kind \notin Blocks
      BY <1>3, <1>4 DEF Code, Blocks
    <2>4. \A j \in 1 .. m - 1 : d[j].kind # "return"
      BY <1>4, <1>5
    <2> QED BY <2>2, <2>3, <2>4 DEF Level
  <1>7. Inv(Push(st, x))
    <2>1. x.kind \notin Blocks \cup {"return"}
      BY <1>3 DEF Blocks
    <2> QED BY <1>1, <1>3, <1>6, <2>1, PlainPush DEF d, m, n
  <1> QED BY <1>1, <1>7

\* A loop carries the exit list of the code around it.
LEMMA LoopKept ==
    ASSUME IInv, Loop
    PROVE  Inv(st')
  <1> DEFINE c == st.ctl
             x == Region("loop", Null, Top(st).lex)
             d == Append(c, x)
             n == Len(c)
             m == n + 1
  <1>1. Inv(st) /\ InCode /\ st' = Push(st, x)
    BY DEF Loop, IInv
  <1>2. /\ st \in Machine /\ Shape(c) /\ c \in Seq(Regions) /\ c # <<>>
        /\ Top(st).kind # "return"
    BY <1>1 DEF Inv, Shape, InCode, Running
  <1>3. Top(st) = c[n] /\ Top(st) \in Regions /\ n \in 1 .. Len(c)
    BY <1>2, LastRegion DEF Top
  <1>4. x \in Regions /\ x.kind = "loop" /\ x.lex = c[n].lex
    <2>1. Null \in 0 .. MaxFrames /\ <<>> \in Seq(Step)
      BY WeatherAssumption
    <2>2. Top(st).lex \in Seq(Step)
      BY <1>3 DEF Regions
    <2> QED BY <1>3, <2>1, <2>2 DEF Region, Regions, Kinds, Code
  <1> HIDE DEF x
  <1>5. /\ n \in Nat /\ d[m] = x /\ (\A k \in 1 .. n : d[k] = c[k])
        /\ \A k \in 1 .. m : k = m \/ k \in 1 .. n
        /\ m - 1 = n /\ m \in Nat \ {0} /\ m = n + 1
    BY <1>2, <1>4, PushLevels
  <1>6. (\A k \in 1 .. n : d[k].kind # "return") /\ Threaded(c, n)
    <2>1. \A k \in 1 .. n : c[k].kind # "return"
      BY <1>2, CodeReturns
    <2>2. Threaded(c, n)
      BY <1>2, <1>3, LevelFacts
    <2> HIDE DEF d
    <2> QED BY <1>5, <2>1, <2>2
  <1> HIDE DEF d, n, m
  <1>7. Own(d, m) = Own(c, n)
    <2>1. ASSUME NEW i \in 1 .. n
          PROVE  (\A k \in i .. m : d[k].kind # "call") <=> (\A k \in i .. n : c[k].kind # "call")
      <3>1. \A k \in i .. m : k = m \/ k \in i .. n
        BY <1>5
      <3>2. \A k \in i .. n : k \in i .. m /\ d[k] = c[k]
        BY <1>5
      <3> QED BY <1>4, <1>5, <3>1, <3>2
    <2>2. m \notin Own(d, m)
      BY <1>4, <1>5 DEF Own
    <2> QED BY <1>5, <2>1, <2>2 DEF Own
  <1>8. Threaded(d, m)
    <2> SUFFICES ASSUME \A i \in 1 .. m :
                           d[i].kind \in Special => \E k \in i .. m : d[k].kind = "call"
                 PROVE  /\ d[m].lex = <<>> <=> Own(d, m) = {}
                        /\ Len(d[m].lex) = 1 =>
                              \E i \in 1 .. m : /\ Own(d, m) = {i}
                                                /\ d[m].lex = <<Finalize(d[i].f, TRUE)>>
      BY DEF Threaded
    <2>1. ASSUME NEW i \in 1 .. n, c[i].kind \in Special
          PROVE  \E k \in i .. n : c[k].kind = "call"
      <3>1. i \in 1 .. m /\ d[i].kind \in Special
        BY <1>5, <2>1
      <3>2. PICK k \in i .. m : d[k].kind = "call"
        BY <3>1
      <3>3. k # m
        BY <1>4, <1>5, <3>2
      <3>4. k \in i .. n /\ d[k] = c[k]
        BY <1>5, <3>3
      <3> QED BY <3>2, <3>4
    <2>2. /\ c[n].lex = <<>> <=> Own(c, n) = {}
          /\ Len(c[n].lex) = 1 =>
                \E i \in 1 .. n : /\ Own(c, n) = {i}
                                  /\ c[n].lex = <<Finalize(c[i].f, TRUE)>>
      BY <1>6, <2>1 DEF Threaded
    <2>3. d[m].lex = c[n].lex /\ \A i \in 1 .. n : i \in 1 .. m /\ d[i] = c[i]
      BY <1>4, <1>5
    <2> QED BY <1>7, <2>2, <2>3
  <1>9. Level(d, m)
    <2>1. d[m].kind = "loop" /\ d[m].kind \in Code /\ d[m].kind \notin Blocks /\ m # 1
      BY <1>3, <1>4, <1>5 DEF Code, Blocks
    <2>2. \A j \in 1 .. m - 1 : d[j].kind # "return"
      BY <1>5, <1>6
    <2> QED BY <1>8, <2>1, <2>2 DEF Level
  <1>10. Inv(Push(st, x))
    <2>1. x.kind \notin Blocks \cup {"return"}
      BY <1>4 DEF Blocks
    <2> QED BY <1>1, <1>4, <1>9, <2>1, PlainPush DEF d, m, n
  <1> QED BY <1>1, <1>10

LEMMA EndPlainKept ==
    ASSUME IInv, EndPlain
    PROVE  Inv(st')
  <1> DEFINE n == Len(st.ctl) - 1
  <1>1. /\ Inv(st) /\ st.ctl \in Seq(Regions) /\ st.ctl # <<>> /\ Top(st).kind \in Code
        /\ st' = Cut(st, n)
    BY DEF IInv, Inv, EndPlain, Running, Shape, Code
  <1>2. n \in 0 .. Len(st.ctl) /\ Top(st) = st.ctl[Len(st.ctl)] /\ n + 1 = Len(st.ctl)
    BY <1>1, LastRegion DEF Top
  <1> HIDE DEF n
  <1>3. \A k \in n + 1 .. Len(st.ctl) : st.ctl[k].kind \in Code
    BY <1>1, <1>2
  <1> QED BY <1>1, <1>2, <1>3, CodeCut

\* A new frame, linked to the head.
LEMMA EnterSets ==
    ASSUME NEW s \in Machine, NEW f \in Fid, NEW shelters \in Clauses
    PROVE  LET t == Enter(s, f, shelters)
               a == t.fr[f]
           IN /\ t \in Machine /\ t.ctl = s.ctl /\ t.used = f /\ t.head = f
              /\ t.handling = s.handling /\ t.heap = s.heap /\ t.queue = s.queue
              /\ t.twice = s.twice /\ t.end = s.end /\ t.abortDue = s.abortDue
              /\ \A g \in Fid \ {f} : t.fr[g] = s.fr[g]
              /\ a.next = s.head /\ a.list = <<>> /\ a.mark = 0 /\ ~a.raised /\ ~a.handled
  <1> DEFINE a == [NoFrame EXCEPT !.next = s.head, !.shelters = shelters]
             t == [s EXCEPT !.fr[f] = a, !.used = f, !.head = f]
  <1>1. /\ a \in Frame /\ a.next = s.head /\ a.list = <<>> /\ a.mark = 0
        /\ ~a.raised /\ ~a.handled
    <2>1. /\ s.head \in 0 .. MaxFrames /\ shelters \in SUBSET (Storms \cup {AnyStorm})
          /\ 0 \in 0 .. MaxFrames /\ <<>> \in Seq(Handles)
      <3>1. s.head \in 0 .. MaxFrames
        BY DEF Machine
      <3>2. shelters \in SUBSET (Storms \cup {AnyStorm}) /\ MaxFrames \in Nat
        BY WeatherAssumption
      <3> QED BY <3>1, <3>2
    <2> QED BY <2>1 DEF Frame, NoFrame
  <1>2. f \in 0 .. MaxFrames
    BY FidFacts
  <1>3. Enter(s, f, shelters) = t
    BY DEF Enter
  <1> HIDE DEF a
  <1>4. /\ t \in Machine /\ t.ctl = s.ctl /\ t.used = f /\ t.head = f
        /\ t.handling = s.handling /\ t.heap = s.heap /\ t.queue = s.queue
        /\ t.twice = s.twice /\ t.end = s.end /\ t.abortDue = s.abortDue
        /\ t.fr[f] = a /\ \A g \in Fid \ {f} : t.fr[g] = s.fr[g]
    BY <1>1, <1>2 DEF Machine
  <1> HIDE DEF t
  <1> QED BY <1>1, <1>3, <1>4

\* Where a block may open, its body is the innermost block of bodies only.
LEMMA OpenShape ==
    ASSUME NEW c, Shape(c), c # <<>>, \A k \in 1 .. Len(c) : c[k].kind \notin Special,
           NEW f \in Fid, \A e \in Of(c, "body") : e < f
    PROVE  LET x == Region("body", f, Append(Last(c).lex, Finalize(f, TRUE)))
           IN x \in Regions /\ x.kind = "body" /\ x.f = f /\ Shape(Append(c, x))
  <1> DEFINE x == Region("body", f, Append(Last(c).lex, Finalize(f, TRUE)))
             n == Len(c)
             m == n + 1
             d == Append(c, x)
  <1>1. /\ c \in Seq(Regions) /\ n \in Nat \ {0} /\ Last(c) = c[n] /\ Last(c) \in Regions
        /\ n \in 1 .. Len(c)
    BY LastRegion DEF Shape
  <1>2. /\ c[n].lex \in Seq(Step) /\ Finalize(f, TRUE) \in Step
        /\ Append(c[n].lex, Finalize(f, TRUE)) \in Seq(Step)
        /\ Append(c[n].lex, Finalize(f, TRUE)) # <<>>
        /\ Len(Append(c[n].lex, Finalize(f, TRUE))) = Len(c[n].lex) + 1
    <2>1. c[n].lex \in Seq(Step) /\ Finalize(f, TRUE) \in Step
      BY <1>1 DEF Regions, Finalize, Step
    <2> DEFINE q == c[n].lex
               e == Finalize(f, TRUE)
    <2> HIDE DEF n, q, e
    <2>2. q \in Seq(Step) /\ e \in Step
      BY <2>1 DEF q, e
    <2>3. /\ Append(q, e) \in Seq(Step) /\ Append(q, e) # <<>>
          /\ Len(Append(q, e)) = Len(q) + 1
      BY <2>2, AppendProperties
    <2> QED BY <2>2, <2>3 DEF q, e
  <1>3. /\ x \in Regions /\ x.kind = "body" /\ x.f = f
        /\ x.lex = Append(c[n].lex, Finalize(f, TRUE))
    <2>1. f \in 0 .. MaxFrames /\ <<>> \in Seq(Step) /\ 0 \in Nat /\ "body" \in Kinds
      BY FidFacts DEF Kinds
    <2> QED BY <1>1, <1>2, <2>1 DEF Region, Regions
  <1> HIDE DEF x
  <1>4. /\ n \in Nat /\ d[m] = x /\ (\A k \in 1 .. n : d[k] = c[k])
        /\ \A k \in 1 .. m : k = m \/ k \in 1 .. n
        /\ m - 1 = n /\ m \in Nat \ {0} /\ m = n + 1
    BY <1>1, <1>3, PushLevels
  <1>5. Threaded(c, n)
    BY <1>1, LevelFacts
  <1> HIDE DEF n, m, d
  <1>6. Threaded(d, m)
    <2>1. /\ c[n].lex = <<>> <=> Own(c, n) = {}
      <3>1. \A i \in 1 .. n : c[i].kind \notin Special
        BY <1>1 DEF n
      <3> QED BY <1>5, <3>1 DEF Threaded
    <2>2. m \in Own(d, m)
      <3>1. m \in 1 .. m /\ \A k \in m .. m : k = m
        BY <1>4
      <3> QED BY <1>3, <1>4, <3>1 DEF Own
    <2>3. ASSUME Len(d[m].lex) = 1
          PROVE  Own(d, m) = {m} /\ d[m].lex = <<Finalize(d[m].f, TRUE)>>
      <3>1. c[n].lex = <<>>
        <4>1. Len(c[n].lex) + 1 = 1
          BY <1>2, <1>3, <1>4, <2>3
        <4> QED BY <1>2, <4>1, EmptySeq
      <3>2. Own(c, n) = {}
        BY <2>1, <3>1
      <3>3. ASSUME NEW i \in Own(d, m) PROVE i = m
        <4> SUFFICES ASSUME i # m PROVE FALSE
          OBVIOUS
        <4>1. i \in 1 .. n /\ d[i].kind = "body" /\ \A k \in i .. m : d[k].kind # "call"
          BY <1>4 DEF Own
        <4>2. \A k \in i .. n : k \in i .. m /\ k \in 1 .. n
          BY <1>4, <4>1
        <4>3. c[i].kind = "body" /\ \A k \in i .. n : c[k].kind # "call"
          BY <1>4, <4>1, <4>2
        <4> QED BY <3>2, <4>1, <4>3 DEF Own
      <3>4. d[m].lex = <<Finalize(d[m].f, TRUE)>>
        <4>1. Append(<<>>, Finalize(f, TRUE)) = <<Finalize(f, TRUE)>>
          OBVIOUS
        <4> QED BY <1>3, <1>4, <3>1, <4>1
      <3> QED BY <2>2, <3>3, <3>4
    <2>4. m \in 1 .. m
      BY <1>4
    <2>5. d[m].lex # <<>>
      BY <1>2, <1>3, <1>4
    <2> QED BY <2>2, <2>3, <2>4, <2>5 DEF Threaded
  <1>7. Level(d, m)
    <2>1. \A j \in 1 .. m - 1 : d[j].kind \notin Special
      BY <1>4 DEF n
    <2>2. \A j \in 1 .. m - 1 : d[j].kind \in Blocks => d[j].f < d[m].f
      <3> SUFFICES ASSUME NEW j \in 1 .. n, c[j].kind \in Blocks PROVE c[j].f < f
        BY <1>3, <1>4
      <3>1. c[j].kind = "body" /\ j \in 1 .. Len(c)
        BY DEF Blocks, Special, n
      <3>2. c[j].f \in Of(c, "body")
        BY <3>1 DEF Of
      <3> QED BY <3>2
    <2>3. d[m].kind = "body" /\ d[m].f \in Fid /\ m # 1 /\ d[m].lex # <<>>
      BY <1>1, <1>2, <1>3, <1>4
    <2> QED BY <1>6, <2>1, <2>2, <2>3 DEF Level
  <1>8. Shape(d)
    BY <1>3, <1>7, ShapePush DEF d, m, n
  <1> QED BY <1>3, <1>8 DEF d, x

LEMMA OpenKept ==
    ASSUME Uses = {}, IInv, Open
    PROVE  Inv(st')
  <1> DEFINE f == st.used + 1
             c == st.ctl
             x == Region("body", f, Append(Last(c).lex, Finalize(f, TRUE)))
             d == Append(c, x)
  <1>1. /\ st \in Machine /\ Shape(c) /\ c \in Seq(Regions) /\ c # <<>> /\ Chained(st)
        /\ Storming(st) /\ Passed(st) /\ Kept(st) /\ Top(st).kind # "return" /\ MayOpen
        /\ st.used < MaxFrames
    BY DEF Open, IInv, Inv, Shape, InCode, Running
  <1>2. PICK shelters \in Clauses : st' = Push(Enter(st, f, shelters), x)
    BY DEF Open, Top
  <1> DEFINE s == Enter(st, f, shelters)
             t == Push(s, x)
  <1>3. \A k \in 1 .. Len(c) : c[k].kind \notin Special
    <2>1. \A k \in 1 .. Len(c) : c[k].kind # "return"
      BY <1>1, CodeReturns
    <2>2. DOMAIN c = 1 .. Len(c)
      BY <1>1
    <2>3. Levels(st, {"handler"}) = {} /\ Levels(st, {"calm", "exit"}) = {}
      BY <1>1 DEF MayOpen
    <2>4. \A k \in 1 .. Len(c) : c[k].kind \notin {"handler", "calm", "exit"}
      BY <2>2, <2>3 DEF Levels
    <2> QED BY <2>1, <2>4 DEF Special
  <1>4. Handlers(st) = {} /\ Calms(st) = {} /\ Gone(st) = {}
    BY <1>3 DEF Handlers, Calms, Gone, Of, Special
  <1>5. /\ Opened(st) = Bodies(st) /\ Linked(st) = Bodies(st) /\ Bodies(st) \subseteq 1 .. st.used
        /\ st.used \in 0 .. MaxFrames /\ st.used \in Nat
    <2>1. Opened(st) = Bodies(st) /\ Linked(st) = Bodies(st)
      BY <1>4 DEF Opened, Linked
    <2>2. st.used \in 0 .. MaxFrames
      BY <1>1, FramesAreFid
    <2> QED BY <1>1, <2>1, <2>2 DEF Chained
  <1>6. f \in Fid /\ \A e \in Bodies(st) : e \in Fid /\ e < f
    <2>1. \A e \in 1 .. st.used : e \in Fid /\ e < f
      BY <1>5, FidFacts
    <2>2. f \in Fid
      BY <1>1, <1>5, FidFacts
    <2> QED BY <1>5, <2>1, <2>2
  <1>7. x \in Regions /\ x.kind = "body" /\ x.f = f /\ Shape(d)
    <2>1. \A e \in Of(c, "body") : e < f
      BY <1>6 DEF Bodies
    <2> HIDE DEF f
    <2> QED BY <1>1, <1>3, <1>6, <2>1, OpenShape
  <1>8. /\ s \in Machine /\ s.ctl = c /\ s.used = f /\ s.head = f
        /\ s.handling = st.handling /\ s.heap = st.heap /\ s.queue = st.queue
        /\ s.twice = st.twice /\ s.end = st.end /\ s.abortDue = st.abortDue
        /\ \A g \in Fid \ {f} : s.fr[g] = st.fr[g]
        /\ s.fr[f].next = st.head /\ s.fr[f].list = <<>> /\ s.fr[f].mark = 0
        /\ ~s.fr[f].raised /\ ~s.fr[f].handled
    <2> HIDE DEF f
    <2> QED BY <1>1, <1>6, EnterSets
  <1> HIDE DEF s, x
  <1>9. Same(t, s) /\ t.ctl = d
    <2>1. t = [s EXCEPT !.ctl = d] /\ d \in Seq(Regions)
      BY <1>7, <1>8 DEF Push, Shape
    <2> HIDE DEF t, d
    <2> QED BY <1>8, <2>1, CtlSets
  <1>10. /\ Bodies(t) = Bodies(st) \cup {f} /\ Handlers(t) = {} /\ Calms(t) = {} /\ Gone(t) = {}
    <2>1. \A kind : Of(d, kind) = Of(c, kind) \cup (IF x.kind = kind THEN {x.f} ELSE {})
      BY <1>1, <1>7, OfPush
    <2> QED BY <1>4, <1>7, <1>9, <2>1 DEF Bodies, Handlers, Calms, Gone
  <1> HIDE DEF t, d
  <1>11. /\ t \in Machine /\ t.used = f /\ t.head = f /\ t.handling = st.handling
         /\ t.heap = st.heap /\ t.queue = st.queue /\ t.twice = st.twice /\ t.end = st.end
         /\ t.abortDue = st.abortDue /\ \A g \in Fid : Alike(t.fr[g], s.fr[g])
    BY <1>8, <1>9 DEF Same
  <1>12. /\ \A g \in Fid \ {f} : Like(t.fr[g], st.fr[g]) /\ Alike(t.fr[g], st.fr[g])
         /\ t.fr[f].next = st.head /\ t.fr[f].list = <<>> /\ t.fr[f].mark = 0
         /\ ~t.fr[f].raised /\ ~t.fr[f].handled
    BY <1>6, <1>8, <1>11 DEF Alike, Like
  <1>13. Opened(t) = Bodies(st) \cup {f} /\ Linked(t) = Bodies(st) \cup {f}
    BY <1>10 DEF Opened, Linked
  <1>f. /\ f \in Nat /\ st.used < f /\ ~(f < f) /\ \A g \in 1 .. f : g # f => g \in 1 .. st.used
        /\ \A e \in Fid : f < e => st.used < e
    <2>1. \A u \in Nat : /\ u + 1 \in Nat /\ u < u + 1 /\ ~(u + 1 < u + 1)
                        /\ \A g \in 1 .. u + 1 : g # u + 1 => g \in 1 .. u
                        /\ \A e \in Fid : u + 1 < e => u < e
      OBVIOUS
    <2> QED BY <1>5, <2>1
  <1> HIDE DEF f
  <1>14. Chained(t)
    <2>1. /\ st.head \in Bodies(st) \cup {0} /\ \A e \in Bodies(st) : e <= st.head
      <3>1. \A e \in Bodies(st) : e < MaxFrames + 1
        BY <1>6, FidFacts
      <3> QED BY <1>1, <1>5, <3>1 DEF Chained, Below
    <2>2. st.head < f
      BY <1>f, <1>6, <2>1
    <2>3. Below(t, t.head, MaxFrames + 1)
      <3>1. f < MaxFrames + 1 /\ \A e \in Bodies(st) \cup {f} : e <= f
        BY <1>f, <1>6, FidFacts
      <3> QED BY <1>11, <1>13, <3>1 DEF Below
    <2>4. Below(t, t.fr[f].next, f)
      BY <1>f, <1>12, <1>13, <2>1, <2>2 DEF Below
    <2>5. ASSUME NEW g \in Bodies(st) PROVE Below(t, t.fr[g].next, g)
      <3>1. g \in Fid /\ g < f /\ t.fr[g].next = st.fr[g].next
        BY <1>6, <1>12 DEF Like
      <3>2. Below(st, st.fr[g].next, g)
        BY <1>1, <1>5 DEF Chained
      <3>3. ~(f < g)
        BY <1>f, <3>1
      <3> QED BY <1>5, <1>13, <3>1, <3>2, <3>3 DEF Below
    <2>6. \A g \in Fid : t.fr[g].next < g
      BY <1>1, <1>12, <2>2 DEF Chained, Like
    <2>7. Opened(t) \subseteq 1 .. t.used
      <3>1. \A g \in 1 .. st.used : g \in 1 .. f
        BY <1>5, <1>f
      <3> QED BY <1>5, <1>f, <1>6, <1>11, <1>13, <3>1
    <2> QED BY <1>13, <2>3, <2>4, <2>5, <2>6, <2>7 DEF Chained
  <1>15. Storming(t)
    <2>1. \A g \in Bodies(t) : ~t.fr[g].raised /\ ~t.fr[g].handled
      BY <1>1, <1>6, <1>10, <1>12 DEF Storming, Like
    <2>2. ASSUME NEW g \in Fid, t.used < g PROVE ~t.fr[g].raised
      <3>1. g # f /\ st.used < g
        BY <1>f, <1>11, <2>2
      <3> QED BY <1>1, <1>12, <3>1 DEF Storming, Like
    <2> QED BY <1>1, <1>4, <1>10, <1>11, <2>1, <2>2 DEF Storming
  <1>16. Passed(t)
    <2> SUFFICES ASSUME t.end = "", NEW g \in 1 .. t.used, Waiting(t, g), g \notin Opened(t)
                 PROVE  t.fr[g].due # Null /\ t.fr[t.fr[g].due].raised
      BY DEF Passed
    <2>1. g # f
      BY <1>12 DEF Waiting
    <2>2. g \in 1 .. st.used
      BY <1>f, <1>11, <2>1
    <2>3. g \in Fid
      BY <1>5, <2>2, FidFacts
    <2>4. Waiting(st, g) /\ g \notin Opened(st) /\ t.fr[g].due = st.fr[g].due
      BY <1>5, <1>12, <1>13, <2>1, <2>3 DEF Waiting, Like
    <2> DEFINE e == st.fr[g].due
    <2>5. e # 0 /\ st.fr[e].raised
      <3>1. st.end = ""
        BY <1>11
      <3>2. \/ e # Null /\ st.fr[e].raised
            \/ \E b \in Calms(st) : Waiting(st, b) /\ st.fr[b].due = e
        BY <1>1, <2>2, <2>4, <3>1, Zenon DEF Passed
      <3> QED BY <1>4, <3>2
    <2>6. e \in 0 .. MaxFrames
      <3>1. st.fr[g] \in Frame
        BY <1>1, <2>3, FramesAreFid
      <3> QED BY <3>1 DEF Frame
    <2> HIDE DEF e
    <2>7. e \in Fid
      BY <2>5, <2>6, FidFacts
    <2>8. e # f
      <3>1. ~st.fr[f].raised
        <4>1. st.used < f
          BY <1>f
        <4> QED BY <1>1, <1>6, <4>1 DEF Storming
      <3> QED BY <2>5, <3>1
    <2>9. t.fr[e].raised
      BY <1>12, <2>5, <2>7, <2>8 DEF Like
    <2> QED BY <2>4, <2>5, <2>9 DEF e
  <1>17. Kept(t)
    <2>1. /\ ~st.twice /\ st.queue \subseteq st.heap
          /\ \A g \in Fid : st.fr[g].mark = 0 /\ (g \notin Opened(st) \ Gone(st) => st.fr[g].list = <<>>)
          /\ \A g \in Fid : Len(st.fr[g].list) <= ExitMax
          /\ \A g \in Fid : Listed(st, g) \subseteq st.heap \ st.queue
          /\ \A g, e \in Fid : g # e => Listed(st, g) \cap Listed(st, e) = {}
          /\ \A h \in Handles \cap st.heap : h \in st.queue \/ \E g \in Fid : h \in Listed(st, g)
      BY <1>1 DEF Kept
    <2>2. f \notin Opened(st)
      BY <1>5, <1>f
    <2>3. st.fr[f].list = <<>>
      BY <1>6, <2>1, <2>2
    <2>4. \A g \in Fid : t.fr[g].list = st.fr[g].list /\ t.fr[g].mark = 0
      BY <1>12, <2>1, <2>3 DEF Alike
    <2>5. \A g \in Fid : Listed(t, g) = Listed(st, g)
      BY <2>4 DEF Listed
    <2>6. \A g \in Fid : g \notin Opened(t) \ Gone(t) => t.fr[g].list = <<>>
      BY <1>4, <1>5, <1>10, <1>13, <2>1, <2>4
    <2> QED BY <1>11, <2>1, <2>4, <2>5, <2>6 DEF Kept
  <1>18. Shape(t.ctl)
    BY <1>7, <1>9
  <1>19. Inv(t)
    BY <1>11, <1>14, <1>15, <1>16, <1>17, <1>18 DEF Inv
  <1> QED BY <1>2, <1>19 DEF t, s

\* The region of an exit from one body.
ExitOf(f, to, gives) ==
    LET chain == <<Finalize(f, TRUE)>>
        lex == Append(SubSeq(chain, 1, 1 - 1), Finalize(f, FALSE))
    IN [Region("exit", f, lex) EXCEPT !.chain = chain, !.i = 1, !.to = to, !.gives = gives]

Exits(x, f, to) ==
    /\ x \in Regions /\ x.kind = "exit" /\ x.f = f /\ x.chain = <<Finalize(f, TRUE)>> /\ x.i = 1
    /\ x.to = to

LEMMA ExitRegion ==
    ASSUME NEW f \in Fid, NEW to \in Nat, NEW gives \in BOOLEAN
    PROVE  Exits(ExitOf(f, to, gives), f, to)
  <1> DEFINE e == Finalize(f, TRUE)
             g == Finalize(f, FALSE)
             chain == <<e>>
             z == 1 - 1
             lex == Append(SubSeq(chain, 1, z), g)
             x == [Region("exit", f, lex) EXCEPT !.chain = chain, !.i = 1, !.to = to,
                                                  !.gives = gives]
  <1>1. e \in Step /\ g \in Step
    BY DEF Finalize, Step
  <1>2. x = ExitOf(f, to, gives)
    BY DEF ExitOf
  <1>3. z = 0
    OBVIOUS
  <1> HIDE DEF e, g, z
  <1>4. chain \in Seq(Step) /\ z \in 0 .. Len(chain)
    BY <1>1, <1>3
  <1> HIDE DEF chain
  <1>5. lex \in Seq(Step)
    <2>1. SubSeq(chain, 1, z) \in Seq(Step)
      BY <1>4, CutSeq
    <2> QED BY <1>1, <2>1, AppendProperties
  <1>6. "exit" \in Kinds /\ f \in 0 .. MaxFrames
    BY FidFacts DEF Kinds, Special
  <1> HIDE DEF lex
  <1>7. /\ x \in Regions /\ x.kind = "exit" /\ x.f = f /\ x.chain = chain /\ x.i = 1
        /\ x.to = to
    BY <1>4, <1>5, <1>6 DEF Region, Regions
  <1> HIDE DEF x
  <1>8. x.chain = <<Finalize(f, TRUE)>>
    BY <1>7 DEF chain, e
  <1> QED BY <1>2, <1>7, <1>8 DEF Exits

\* A jump out of the code of one call, whose bodies it all leaves, closes code
\* only, or starts the exit of the one body there is.
LEMMA JumpKept ==
    ASSUME NEW s, Inv(s), s.ctl # <<>>, NEW k \in 1 .. Len(s.ctl), s.ctl[k].kind = "call",
           \A j \in k .. Len(s.ctl) : s.ctl[j].kind \notin Special,
           \A j \in k + 1 .. Len(s.ctl) : s.ctl[j].kind # "call", Len(Top(s).lex) <= 1,
           NEW to \in 0 .. Len(s.ctl), k - 1 <= to,
           \A j \in k .. Len(s.ctl) : s.ctl[j].kind = "body" => to < j, NEW gives \in BOOLEAN
    PROVE  Inv(Exit(s, to, gives))
  <1> DEFINE c == s.ctl
             n == Len(c)
  <1>1. /\ s \in Machine /\ Shape(c) /\ c \in Seq(Regions) /\ n \in Nat \ {0} /\ n \in 1 .. n
        /\ Top(s) = c[n] /\ Top(s) \in Regions /\ to \in Nat /\ k \in Nat
    <2>1. s \in Machine /\ Shape(c) /\ c \in Seq(Regions)
      BY DEF Inv, Shape
    <2> QED BY <2>1, LastRegion DEF Top
  <1>a. /\ to \in 0 .. n /\ k \in 1 .. n
        /\ \A j \in k .. n : c[j].kind \notin Special
        /\ \A j \in k + 1 .. n : c[j].kind # "call"
        /\ \A j \in k .. n : c[j].kind = "body" => to < j
    OBVIOUS
  <1>b. n = Len(s.ctl)
    OBVIOUS
  <1>2. \A j \in 1 .. n : c[j].kind \in Kinds
    <2>1. \A j \in 1 .. n : c[j] \in Regions
      BY <1>1
    <2> HIDE DEF n, c
    <2> QED BY <2>1 DEF Regions
  <1> HIDE DEF n
  <1>3. \A j \in 1 .. n : c[j].kind \in Special => \E m \in j .. n : c[m].kind = "call"
    <2> SUFFICES ASSUME NEW j \in 1 .. n, c[j].kind \in Special PROVE k \in j .. n
      OBVIOUS
    <2> QED BY <1>1, <1>a
  <1>4. Own(c, n) = {j \in k .. n : c[j].kind = "body"}
    <2>1. ASSUME NEW j \in Own(c, n) PROVE j \in k .. n /\ c[j].kind = "body"
      <3>1. j \in 1 .. n /\ c[j].kind = "body" /\ k \notin j .. n
        BY DEF Own
      <3> QED BY <1>1, <1>a, <3>1
    <2>2. ASSUME NEW j \in k .. n, c[j].kind = "body" PROVE j \in Own(c, n)
      <3>1. j # k
        BY <2>2
      <3>2. \A m \in j .. n : m \in k + 1 .. n
        BY <1>1, <3>1
      <3>3. j \in 1 .. n
        BY <1>1
      <3> QED BY <1>a, <2>2, <3>2, <3>3 DEF Own
    <2> QED BY <2>1, <2>2
  <1>5. /\ c[n].lex = <<>> <=> Own(c, n) = {}
        /\ Len(c[n].lex) = 1 =>
              \E i \in 1 .. n : Own(c, n) = {i} /\ c[n].lex = <<Finalize(c[i].f, TRUE)>>
    <2>1. Threaded(c, n)
      BY <1>1, <1>b, LevelFacts
    <2> QED BY <1>3, <2>1 DEF Threaded
  <1>6. \A j \in 1 .. n : to < j => j \in k .. n
    BY <1>1, <1>a
  <1>7. CASE c[n].lex = <<>>
    <2>1. Exit(s, to, gives) = Cut(s, to)
      BY <1>1, <1>7 DEF Exit
    <2>2. \A j \in k .. n : c[j].kind \in Code
      <3>1. \A j \in k .. n : c[j].kind # "body" /\ c[j].kind \notin Special /\ j \in 1 .. n
        BY <1>1, <1>4, <1>5, <1>7, <1>a
      <3> QED BY <1>2, <3>1 DEF Kinds
    <2>3. \A j \in to + 1 .. n : j \in 1 .. n /\ to < j
      BY <1>1
    <2>4. \A j \in to + 1 .. n : c[j].kind \in Code
      BY <1>6, <2>2, <2>3
    <2> QED BY <1>b, <2>1, <2>4, CodeCut
  <1>8. CASE c[n].lex # <<>>
    <2>1. c[n].lex \in Seq(Step) /\ Len(c[n].lex) = 1
      <3>1. c[n].lex \in Seq(Step)
        BY <1>1 DEF Regions
      <3> DEFINE q == c[n].lex
      <3>2. q \in Seq(Step) /\ q # <<>> /\ Len(q) <= 1
        BY <1>1, <1>8, <3>1
      <3> HIDE DEF q
      <3>3. Len(q) \in Nat /\ Len(q) # 0
        BY <3>2, EmptySeq
      <3> DEFINE z == Len(q)
      <3>4. z \in Nat /\ z # 0 /\ z <= 1
        BY <3>2, <3>3
      <3> HIDE DEF z
      <3>5. z = 1
        BY <3>4
      <3> QED BY <3>1, <3>5 DEF q, z
    <2>2. PICK i \in 1 .. n : Own(c, n) = {i} /\ c[n].lex = <<Finalize(c[i].f, TRUE)>>
      BY <1>5, <2>1
    <2> DEFINE f == c[i].f
               chain == <<Finalize(f, TRUE)>>
               x == ExitOf(f, to, gives)
               t == Push(s, x)
               u == [t EXCEPT !.fr[f].calms = Again(@)]
    <2>3. i \in k .. n /\ c[i].kind = "body" /\ f \in Fid /\ to < i
      <3>1. i \in k .. n /\ c[i].kind = "body"
        BY <1>4, <2>2
      <3>2. i \in 1 .. Len(c)
        BY <1>b
      <3>3. c[i].f \in Fid
        BY <1>1, <3>1, <3>2, LevelFacts DEF Code
      <3> QED BY <1>a, <3>1, <3>3
    <2>4. Exit(s, to, gives) = u
      <3>1. chain[1] = Finalize(f, TRUE) /\ Finalize(f, TRUE).f = f /\ Finalize(f, TRUE).calm
        BY DEF Finalize
      <3>2. Exit(s, to, gives) = ExitStep(s, chain, 1, to, gives)
        BY <1>1, <1>8, <2>2 DEF Exit
      <3>3. x = [Region("exit", f, Append(SubSeq(chain, 1, 1 - 1), Finalize(f, FALSE)))
                   EXCEPT !.chain = chain, !.i = 1, !.to = to, !.gives = gives]
        BY DEF ExitOf
      <3> DEFINE e == chain[1]
      <3>4. ExitStep(s, chain, 1, to, gives) =
              [Push(s, [Region("exit", e.f, Append(SubSeq(chain, 1, 1 - 1), Finalize(e.f, FALSE)))
                          EXCEPT !.chain = chain, !.i = 1, !.to = to, !.gives = gives])
                 EXCEPT !.fr[e.f].calms = IF e.calm THEN Again(@) ELSE @]
        BY DEF ExitStep
      <3>5. e.f = f /\ e.calm
        BY <3>1
      <3> HIDE DEF chain, x, e, f
      <3> QED BY <3>2, <3>3, <3>4, <3>5
    <2>5. /\ x \in Regions /\ x.kind = "exit" /\ x.f = f /\ x.chain = chain /\ x.i = 1
          /\ x.to = to
      <3>1. Exits(x, f, to)
        BY <1>1, <2>3, ExitRegion
      <3> HIDE DEF x, f
      <3> QED BY <3>1 DEF Exits
    <2> HIDE DEF x, chain
    <2> DEFINE d == Append(c, x)
               m == n + 1
    <2>6. /\ d[m] = x /\ (\A j \in 1 .. n : d[j] = c[j])
          /\ m - 1 = n /\ m \in Nat \ {0}
      BY <1>1, <2>5, PushLevels DEF n
    <2> HIDE DEF m, d
    <2>7. \A j \in 1 .. n : c[j].kind \notin Special
      <3> SUFFICES ASSUME NEW j \in 1 .. n, c[j].kind \in Special PROVE FALSE
        OBVIOUS
      <3>1. j \notin k .. n
        BY <1>a
      <3>2. i \in 1 .. Len(c) /\ j \in 1 .. i - 1
        BY <1>1, <1>b, <2>3, <3>1
      <3> QED BY <1>1, <2>3, <3>2, LevelFacts DEF Code
    <2>8. Closing(d, m)
      <3>1. i \in 1 .. m - 1 /\ d[i].kind = "body" /\ d[i].f = d[m].f /\ d[m].to < i
        BY <2>3, <2>5, <2>6
      <3>2. ASSUME NEW j \in 1 .. m - 1, d[m].to < j PROVE j = i \/ d[j].kind \in Code
        <4>1. j \in 1 .. n /\ to < j /\ d[j] = c[j]
          BY <2>5, <2>6, <3>2
        <4>2. j \in k .. n
          BY <1>6, <4>1
        <4>3. j # i => c[j].kind # "body"
          BY <1>4, <2>2, <4>2
        <4> QED BY <1>2, <2>7, <4>1, <4>3 DEF Kinds
      <3>3. ASSUME NEW j \in i .. m - 1 PROVE d[j].kind # "call"
        <4>1. j \in 1 .. n /\ d[j] = c[j]
          BY <2>6
        <4>2. j \in k .. n /\ (j = i \/ j \in k + 1 .. n)
          BY <1>1, <2>3, <2>6
        <4> QED BY <1>a, <2>3, <4>1, <4>2
      <3> QED BY <3>1, <3>2, <3>3 DEF Closing
    <2>9. Level(d, m)
      <3>1. Threaded(d, m)
        BY <2>5, <2>6, SpecialThreaded DEF Special
      <3>2. \A j \in 1 .. m - 1 : d[j].kind \notin Special
        BY <2>6, <2>7
      <3>3. m # 1 /\ d[m].kind = "exit" /\ d[m].f \in Fid /\ d[m].kind \notin Blocks
        BY <1>1, <2>3, <2>5, <2>6 DEF Blocks
      <3>4. d[m].chain = <<Finalize(d[m].f, TRUE)>> /\ d[m].i = 1
        BY <2>5, <2>6 DEF chain
      <3> QED BY <2>8, <3>1, <3>2, <3>3, <3>4 DEF Level
    <2>10. Same(t, s) /\ Inv(t)
      <3>1. x.kind \notin Blocks \cup {"return"}
        BY <2>5 DEF Blocks
      <3> QED BY <2>5, <2>9, <3>1, PlainPush DEF d, m, n
    <2> HIDE DEF t, f
    <2>11. t \in Machine /\ t.fr[f] \in Frame /\ Again(t.fr[f].calms) \in Nat
      <3>1. t \in Machine
        BY <2>10 DEF Same
      <3>2. t.fr[f] \in Frame
        BY <2>3, <3>1 DEF Machine
      <3> QED BY <3>1, <3>2, AgainIsNat DEF Frame
    <2>12. Same(u, t) /\ u.ctl = t.ctl
      <3> DEFINE b == Again(t.fr[f].calms)
      <3>1. u = [t EXCEPT !.fr[f].calms = b]
        BY <2>3, <2>11 DEF Machine
      <3> HIDE DEF u, b
      <3>2. b \in Nat
        BY <2>11 DEF b
      <3> QED BY <2>3, <2>11, <3>1, <3>2, CalmsSets
    <2> HIDE DEF u
    <2>13. Inv(u)
      <3>1. Shape(u.ctl)
        BY <2>10, <2>12 DEF Inv
      <3> QED BY <2>10, <2>12, <3>1, CodeOnly
    <2> QED BY <2>4, <2>13
  <1> QED BY <1>7, <1>8

\* The running call: no call is above it.
LEMMA InCallIs ==
    ASSUME IInv, st.ctl # <<>>
    PROVE  /\ InCall \in 1 .. Len(st.ctl) /\ st.ctl[InCall].kind = "call"
           /\ \A j \in 1 .. Len(st.ctl) : st.ctl[j].kind = "call" => j <= InCall
  <1> DEFINE c == st.ctl
             S == {j \in 1 .. Len(c) : c[j].kind = "call"}
  <1>1. Shape(c) /\ c \in Seq(Regions) /\ Len(c) \in Nat \ {0} /\ 1 \in 1 .. Len(c)
    <2>1. Shape(c) /\ c \in Seq(Regions)
      BY DEF IInv, Inv, Shape
    <2> QED BY <2>1, LastRegion
  <1>2. Levels(st, {"call"}) = S
    BY <1>1 DEF Levels
  <1>3. 1 \in S
    BY <1>1, LevelFacts
  <1>4. S \in SUBSET (1 .. Len(c)) /\ S # {}
    BY <1>3
  <1>5. InCall = CHOOSE k \in S : \A j \in S : j <= k
    BY <1>2 DEF InCall
  <1> HIDE DEF S
  <1>6. \E k \in S : \A j \in S : j <= k
    BY <1>1, <1>4, GreatestLevel
  <1>7. InCall \in S /\ \A j \in S : j <= InCall
    BY <1>5, <1>6
  <1> QED BY <1>7 DEF S

\* Where the program jumps with none of Uses, it leaves code and bodies only.
LEMMA JumpLeaves ==
    ASSUME Uses = {}, IInv, InCode, NEW n \in Nat, May(n)
    PROVE  /\ Len(Top(st).lex) <= 1
           /\ \A j \in 1 .. Len(st.ctl) : j > n => st.ctl[j].kind \notin Special
  <1> DEFINE c == st.ctl
  <1>1. /\ st \in Machine /\ Shape(c) /\ c \in Seq(Regions) /\ c # <<>>
        /\ Top(st).kind # "return"
    BY DEF IInv, Inv, Shape, InCode, Running
  <1>2. Top(st).lex \in Seq(Step)
    <2>1. Top(st) \in Regions
      BY <1>1, LastRegion DEF Top
    <2> QED BY <2>1 DEF Regions
  <1>3. Len(Top(st).lex) <= 1
    <2> DEFINE z == Len(Top(st).lex)
    <2>1. z \in Nat /\ ~(z > 1)
      BY <1>2 DEF May
    <2> HIDE DEF z
    <2>2. z <= 1
      BY <2>1
    <2> QED BY <2>2 DEF z
  <1>4. \A j \in 1 .. Len(c) : j > n => c[j].kind \notin {"handler", "calm", "exit"}
    <2>1. DOMAIN c = 1 .. Len(c)
      BY <1>1
    <2> QED BY <2>1 DEF May, Levels
  <1>5. \A j \in 1 .. Len(c) : c[j].kind # "return"
    BY <1>1, CodeReturns
  <1> QED BY <1>3, <1>4, <1>5 DEF Special

LEMMA GiveKept ==
    ASSUME Uses = {}, IInv, Give
    PROVE  Inv(st')
  <1> DEFINE c == st.ctl
             k == InCall
             to == k - 1
  <1>1. Inv(st) /\ InCode /\ May(InCall - 1) /\ st' = Exit(st, InCall - 1, TRUE)
    BY DEF Give, IInv
  <1>2. c # <<>> /\ Len(c) \in Nat
    <2>1. c \in Seq(Regions)
      BY <1>1 DEF Inv, Shape
    <2>2. c # <<>>
      BY <1>1 DEF InCode, Running
    <2> QED BY <2>1, <2>2
  <1>3. /\ k \in 1 .. Len(c) /\ c[k].kind = "call"
        /\ \A j \in 1 .. Len(c) : c[j].kind = "call" => j <= k
    BY <1>2, InCallIs
  <1> HIDE DEF k
  <1>4. to \in 0 .. Len(c) /\ k - 1 <= to /\ to \in Nat /\ \A j \in k .. Len(c) : to < j
    BY <1>2, <1>3
  <1>5. /\ Len(Top(st).lex) <= 1
        /\ \A j \in 1 .. Len(c) : j > to => c[j].kind \notin Special
    BY <1>1, <1>4, JumpLeaves DEF k
  <1>6. \A j \in k .. Len(c) : c[j].kind \notin Special
    <2>1. \A j \in k .. Len(c) : j \in 1 .. Len(c) /\ j > to
      BY <1>2, <1>3
    <2> QED BY <1>5, <2>1
  <1>7. \A j \in k + 1 .. Len(c) : c[j].kind # "call"
    <2>1. \A j \in k + 1 .. Len(c) : j \in 1 .. Len(c) /\ ~(j <= k)
      BY <1>2, <1>3
    <2> QED BY <1>3, <2>1
  <1> HIDE DEF to
  <1>8. Inv(Exit(st, to, TRUE))
    BY <1>1, <1>2, <1>3, <1>4, <1>5, <1>6, <1>7, JumpKept
  <1> QED BY <1>1, <1>8 DEF to, k

\* A GIVE of an ASYNC action that is in no block has no exit list to drop.
LEMMA GiveAsyncKept ==
    ASSUME Uses = {}, IInv, GiveAsync
    PROVE  Inv(st')
  <1>1. InCode /\ May(InCall - 1) /\ Top(st).lex = <<>> /\ st' = Cut(st, InCall - 1)
    BY DEF GiveAsync
  <1>2. Exit(st, InCall - 1, TRUE) = Cut(st, InCall - 1)
    BY <1>1 DEF Exit
  <1>3. Give
    BY <1>1, <1>2 DEF Give
  <1> QED BY <1>3, GiveKept

\* BREAK and CONTINUE leave the bodies inside the loop, and no other block.
LEMMA LoopJumpKept ==
    ASSUME Uses = {}, IInv, NEW after \in {0, 1}, Jump(after)
    PROVE  Inv(st')
  <1> DEFINE c == st.ctl
             a == InCall
             ls == LoopLevels
             k == CHOOSE k \in ls : \A j \in ls : j <= k
             to == k - after
  <1>1. /\ Inv(st) /\ InCode /\ ls # {} /\ May(k) /\ (LoopInside(k) => "loop" \in Uses)
        /\ st' = Exit(st, to, FALSE)
    BY DEF Jump, IInv
  <1>2. Shape(c) /\ c \in Seq(Regions) /\ c # <<>> /\ Len(c) \in Nat
    <2>1. Shape(c)
      BY <1>1 DEF Inv
    <2>2. c \in Seq(Regions)
      BY <2>1 DEF Shape
    <2>3. c # <<>>
      BY <1>1 DEF InCode, Running
    <2> QED BY <2>1, <2>2, <2>3
  <1>3. /\ a \in 1 .. Len(c) /\ c[a].kind = "call"
        /\ \A j \in 1 .. Len(c) : c[j].kind = "call" => j <= a
    BY <1>2, InCallIs
  <1>4. k \in 1 .. Len(c) /\ k > a
    <2>1. ls = {j \in 1 .. Len(c) : c[j].kind = "loop" /\ j > a}
      BY <1>2 DEF LoopLevels, Levels
    <2>2. ls \in SUBSET (1 .. Len(c))
      BY <2>1
    <2> HIDE DEF ls
    <2>3. \E i \in ls : \A j \in ls : j <= i
      BY <1>1, <1>2, <2>2, GreatestLevel
    <2>4. k \in ls
      BY <2>3
    <2> QED BY <2>1, <2>4
  <1>5. \A n \in a .. k : c[n].kind \notin Blocks
    BY <1>1 DEF LoopInside
  <1> HIDE DEF a, k
  <1>6. /\ to \in 0 .. Len(c) /\ a - 1 <= to /\ k \in Nat /\ to <= k
        /\ \A j \in a .. Len(c) : j \in 1 .. Len(c) /\ (j > k \/ j \in a .. k)
    BY <1>2, <1>3, <1>4
  <1>7. /\ Len(Top(st).lex) <= 1
        /\ \A j \in 1 .. Len(c) : j > k => c[j].kind \notin Special
    BY <1>1, <1>6, JumpLeaves
  <1>8. \A j \in a .. Len(c) : c[j].kind \notin Special
    <2> SUFFICES ASSUME NEW j \in a .. Len(c), c[j].kind \in Special PROVE FALSE
      OBVIOUS
    <2>1. j \in 1 .. Len(c) /\ j \in a .. k /\ j # a
      BY <1>3, <1>6, <1>7 DEF Special
    <2>2. c[j].kind \in {"exit", "return"}
      BY <1>5, <2>1 DEF Blocks, Special
    <2>3. Closing(c, j)
      BY <1>2, <2>1, <2>2, LevelFacts
    <2>4. PICK i \in 1 .. j - 1 : c[i].kind = "body" /\ \A n \in i .. j - 1 : c[n].kind # "call"
      BY <2>3 DEF Closing
    <2>5. a \notin i .. j - 1
      BY <1>3, <2>4
    <2>6. i \in a .. k
      BY <1>2, <1>3, <1>4, <2>1, <2>5
    <2> QED BY <1>5, <2>4, <2>6 DEF Blocks
  <1>9. \A j \in a + 1 .. Len(c) : c[j].kind # "call"
    <2>1. \A j \in a + 1 .. Len(c) : j \in 1 .. Len(c) /\ ~(j <= a)
      BY <1>2, <1>3
    <2> QED BY <1>3, <2>1
  <1>10. \A j \in a .. Len(c) : c[j].kind = "body" => to < j
    <2> SUFFICES ASSUME NEW j \in a .. Len(c), c[j].kind = "body" PROVE to < j
      OBVIOUS
    <2>1. j \notin a .. k
      BY <1>5 DEF Blocks
    <2>2. j > k
      BY <1>6, <2>1
    <2> QED BY <1>6, <2>2
  <1> HIDE DEF to
  <1>11. Inv(Exit(st, to, FALSE))
    BY <1>1, <1>2, <1>3, <1>6, <1>7, <1>8, <1>9, <1>10, JumpKept
  <1> QED BY <1>1, <1>11 DEF to

----------------------------------------------------------------------------
(* Handles are registered and queued *)

\* A step that changes handles only keeps the rest.
LEMMA HandlesOnly ==
    ASSUME NEW s, Inv(s), NEW t \in Machine, t.ctl = s.ctl, t.used = s.used, t.head = s.head,
           t.handling = s.handling, t.end = s.end, t.abortDue = s.abortDue,
           \A f \in Fid : Like(t.fr[f], s.fr[f]), Kept(t)
    PROVE  Inv(t)
  <1>1. s \in Machine /\ Shape(s.ctl) /\ Chained(s) /\ Storming(s) /\ Passed(s)
    BY DEF Inv
  <1>2. /\ Bodies(t) = Bodies(s) /\ Handlers(t) = Handlers(s) /\ Calms(t) = Calms(s)
        /\ Gone(t) = Gone(s) /\ Opened(t) = Opened(s)
    BY DEF Bodies, Handlers, Calms, Gone, Opened
  <1>3. /\ Bodies(s) \subseteq Fid /\ Calms(s) \subseteq Fid /\ Handlers(s) \subseteq Fid
        /\ Linked(s) \subseteq Fid
    BY <1>1, FramesAreFid
  <1>4. Linked(t) = Linked(s)
    BY <1>2, <1>3 DEF Linked, Like
  <1>5. Chained(t)
    BY <1>1, <1>2, <1>3, <1>4 DEF Chained, Below, Like
  <1>6. \A f \in Fid : Waiting(t, f) = Waiting(s, f)
    BY DEF Waiting, Like
  <1>7. Storming(t)
    <2>1. \A f \in Calms(s) : Greatest(s, s.fr[f].type, s.fr[f].due) =>
                                Greatest(t, t.fr[f].type, t.fr[f].due)
      BY <1>2, <1>3 DEF Greatest, Like
    <2> QED BY <1>1, <1>2, <1>3, <1>6, <2>1 DEF Storming, Like
  <1>8. Passed(t)
    BY <1>1, <1>2, PassedKept
  <1> QED BY <1>1, <1>5, <1>7, <1>8 DEF Inv

\* A handle that was not live is put on the list of a frame.
RegisteredIs(t, s, f, h) ==
    /\ t \in Machine /\ t.ctl = s.ctl /\ t.used = s.used /\ t.head = s.head
    /\ t.handling = s.handling /\ t.end = s.end /\ t.abortDue = s.abortDue
    /\ t.queue = s.queue /\ t.twice = s.twice /\ t.heap = s.heap \cup {h}
    /\ \A g \in Fid : Like(t.fr[g], s.fr[g]) /\ t.fr[g].mark = s.fr[g].mark
    /\ \A g \in Fid \ {f} : t.fr[g].list = s.fr[g].list
    /\ Len(t.fr[f].list) = Len(s.fr[f].list) + 1
    /\ Listed(t, f) = Listed(s, f) \cup {h}

LEMMA RegisterSets ==
    ASSUME NEW s \in Machine, NEW f \in Fid, NEW h \in Handles
    PROVE  RegisteredIs([s EXCEPT !.heap = @ \cup {h}, !.fr[f].list = Append(@, h)], s, f, h)
  <1> DEFINE b == s.fr[f]
             q == Append(b.list, h)
             a == [b EXCEPT !.list = q]
             u == [s EXCEPT !.heap = s.heap \cup {h}]
             t == [u EXCEPT !.fr = [@ EXCEPT ![f] = a]]
  <1>1. b \in Frame
    BY DEF Machine
  <1>2. b.list \in Seq(Handles)
    BY <1>1 DEF Frame
  <1> HIDE DEF b
  <1>3. q \in Seq(Handles) /\ Len(q) = Len(b.list) + 1 /\ ToSet(q) = ToSet(b.list) \cup {h}
    <2> DEFINE r == b.list
    <2>1. r \in Seq(Handles)
      BY <1>2
    <2> HIDE DEF r
    <2>2. /\ Append(r, h) \in Seq(Handles) /\ Len(Append(r, h)) = Len(r) + 1
          /\ \A i \in 1 .. Len(r) : Append(r, h)[i] = r[i]
          /\ Append(r, h)[Len(r) + 1] = h
      BY <2>1, AppendProperties
    <2> DEFINE w == Append(r, h)
    <2> HIDE DEF w
    <2>3. /\ w \in Seq(Handles) /\ Len(w) = Len(r) + 1 /\ Len(r) \in Nat
          /\ \A i \in 1 .. Len(r) : w[i] = r[i]
          /\ w[Len(r) + 1] = h
      BY <2>1, <2>2 DEF w
    <2>4. DOMAIN w = 1 .. Len(r) + 1 /\ DOMAIN r = 1 .. Len(r)
      BY <2>1, <2>3
    <2>5. ToSet(w) \subseteq ToSet(r) \cup {h}
      <3> SUFFICES ASSUME NEW i \in 1 .. Len(r) + 1 PROVE w[i] \in ToSet(r) \cup {h}
        BY <2>4 DEF ToSet
      <3>1. i \in 1 .. Len(r) \/ i = Len(r) + 1
        BY <2>3
      <3> QED BY <2>3, <2>4, <3>1 DEF ToSet
    <2>6. ToSet(r) \subseteq ToSet(w)
      <3> SUFFICES ASSUME NEW i \in 1 .. Len(r) PROVE r[i] \in ToSet(w)
        BY <2>4 DEF ToSet
      <3>1. i \in DOMAIN w
        BY <2>3, <2>4
      <3> QED BY <2>3, <3>1 DEF ToSet
    <2>7. h \in ToSet(w)
      <3>1. Len(r) + 1 \in DOMAIN w
        BY <2>3, <2>4
      <3> QED BY <2>3, <3>1 DEF ToSet
    <2>8. ToSet(w) = ToSet(r) \cup {h}
      BY <2>5, <2>6, <2>7
    <2> QED BY <2>3, <2>8 DEF w, r
  <1> HIDE DEF q
  <1>4. a \in Frame /\ Like(a, b) /\ a.mark = b.mark /\ a.list = q
    BY <1>1, <1>3 DEF Frame, Like
  <1>5. /\ u \in Machine /\ u.ctl = s.ctl /\ u.used = s.used /\ u.head = s.head
        /\ u.handling = s.handling /\ u.end = s.end /\ u.abortDue = s.abortDue
        /\ u.queue = s.queue /\ u.twice = s.twice /\ u.heap = s.heap \cup {h} /\ u.fr = s.fr
    BY DEF Machine
  <1>6. [s EXCEPT !.heap = @ \cup {h}, !.fr[f].list = Append(@, h)] = t
    BY DEF b, q
  <1> HIDE DEF a, u
  <1>7. FramesOnly(t, u) /\ t.fr[f] = a /\ \A g \in Fid \ {f} : t.fr[g] = u.fr[g]
    BY <1>4, <1>5, FrameSets
  <1> HIDE DEF t
  <1>8. t.fr[f].list = q /\ Like(t.fr[f], s.fr[f]) /\ t.fr[f].mark = s.fr[f].mark
    BY <1>4, <1>7 DEF b
  <1>9. \A g \in Fid \ {f} : Like(t.fr[g], s.fr[g]) /\ t.fr[g].mark = s.fr[g].mark
    BY <1>5, <1>7 DEF Like
  <1>10. Listed(t, f) = Listed(s, f) \cup {h} /\ Len(t.fr[f].list) = Len(s.fr[f].list) + 1
    BY <1>3, <1>8 DEF Listed, b
  <1>11. RegisteredIs(t, s, f, h)
    BY <1>5, <1>7, <1>8, <1>9, <1>10 DEF FramesOnly, RegisteredIs
  <1> QED BY <1>6, <1>11

\* The frame that handles are registered on is open.
LEMMA TargetOpen ==
    ASSUME IInv, Target(st) # Null
    PROVE  Target(st) \in Opened(st)
  <1>1. st \in Machine /\ Chained(st) /\ Storming(st)
    BY DEF IInv, Inv
  <1>2. CASE st.handling # Null
    <2>1. Target(st) = st.handling
      BY <1>2 DEF Target
    <2>2. Handlers(st) # {}
      BY <1>1, <1>2 DEF Storming
    <2>3. st.handling \in Handlers(st)
      BY <1>1, <2>2 DEF Storming
    <2> QED BY <2>1, <2>3 DEF Opened
  <1>3. CASE st.handling = Null
    <2>1. Target(st) = st.head /\ st.head # Null
      BY <1>3 DEF Target
    <2>2. st.head \in Linked(st)
      BY <1>1, <2>1 DEF Chained, Below
    <2> QED BY <1>1, <2>1, <2>2, FramesAreFid
  <1> QED BY <1>2, <1>3

LEMMA RegisterKept ==
    ASSUME IInv, NEW h \in Handles, Register(h)
    PROVE  Inv(st')
  <1> DEFINE f == Target(st)
             t == [st EXCEPT !.heap = @ \cup {h}, !.fr[f].list = Append(@, h)]
  <1>1. /\ Inv(st) /\ InCode /\ h \notin st.heap
        /\ st' = IF f # Null /\ LevelsOf(st, f) = {} THEN [st EXCEPT !.end = "stale"]
                 ELSE IF f = Null \/ Len(st.fr[f].list) = ExitMax THEN st
                 ELSE t
    BY DEF Register, IInv
  <1>2. st \in Machine /\ Shape(st.ctl) /\ st.ctl \in Seq(Regions) /\ Chained(st) /\ Kept(st)
    BY <1>1 DEF Inv, Shape
  <1> SUFFICES ASSUME st' # st PROVE Inv(st')
    BY <1>1
  <1>3. f # Null
    BY <1>1
  <1>4. f \in Opened(st) /\ f \in Fid
    BY <1>2, <1>3, TargetOpen, FramesAreFid
  <1>5. LevelsOf(st, f) # {}
    BY <1>2, <1>4, OpenedLevels
  <1>6. st' = t /\ Len(st.fr[f].list) # ExitMax
    BY <1>1, <1>3, <1>5
  <1> HIDE DEF f
  <1>7. /\ t \in Machine /\ t.ctl = st.ctl /\ t.used = st.used /\ t.head = st.head
        /\ t.handling = st.handling /\ t.end = st.end /\ t.abortDue = st.abortDue
        /\ t.queue = st.queue /\ t.twice = st.twice /\ t.heap = st.heap \cup {h}
        /\ \A g \in Fid : Like(t.fr[g], st.fr[g]) /\ t.fr[g].mark = st.fr[g].mark
        /\ \A g \in Fid \ {f} : t.fr[g].list = st.fr[g].list
        /\ Len(t.fr[f].list) = Len(st.fr[f].list) + 1
        /\ Listed(t, f) = Listed(st, f) \cup {h}
    <2>1. RegisteredIs(t, st, f, h)
      BY <1>2, <1>4, RegisterSets
    <2> HIDE DEF t
    <2> QED BY <2>1 DEF RegisteredIs
  <1> HIDE DEF t
  <1>8. Gone(st) = {}
    <2>1. st.ctl # <<>> /\ Top(st).kind # "return"
      BY <1>1 DEF InCode, Running
    <2> QED BY <1>2, <2>1, CodeReturns DEF Gone, Of
  <1>9. Opened(t) = Opened(st) /\ Gone(t) = Gone(st)
    BY <1>7 DEF Bodies, Handlers, Calms, Gone, Opened
  <1>10. Kept(t)
    <2>1. /\ ~st.twice /\ st.queue \subseteq st.heap
          /\ \A g \in Fid : st.fr[g].mark = 0 /\ (g \notin Opened(st) \ Gone(st) => st.fr[g].list = <<>>)
          /\ \A g \in Fid : Len(st.fr[g].list) <= ExitMax
          /\ \A g \in Fid : Listed(st, g) \subseteq st.heap \ st.queue
          /\ \A g, e \in Fid : g # e => Listed(st, g) \cap Listed(st, e) = {}
          /\ \A i \in Handles \cap st.heap : i \in st.queue \/ \E g \in Fid : i \in Listed(st, g)
      BY <1>2 DEF Kept
    <2>2. \A g \in Fid \ {f} : Listed(t, g) = Listed(st, g)
      BY <1>7 DEF Listed
    <2>3. ~t.twice /\ t.queue \subseteq t.heap
      BY <1>7, <2>1
    <2>4. \A g \in Fid : t.fr[g].mark = 0 /\ (g \notin Opened(t) \ Gone(t) => t.fr[g].list = <<>>)
      BY <1>4, <1>7, <1>8, <1>9, <2>1
    <2>5. \A g \in Fid : Len(t.fr[g].list) <= ExitMax
      <3>1. Len(t.fr[f].list) <= ExitMax
        <4> DEFINE z == Len(st.fr[f].list)
        <4>1. z \in Nat
          <5>1. st.fr[f] \in Frame
            BY <1>2, <1>4, FramesAreFid
          <5>2. st.fr[f].list \in Seq(Handles)
            BY <5>1 DEF Frame
          <5> QED BY <5>2
        <4>2. z <= ExitMax /\ z # ExitMax /\ Len(t.fr[f].list) = z + 1 /\ ExitMax \in Nat
          BY <1>4, <1>6, <1>7, <2>1, WeatherAssumption
        <4> HIDE DEF z
        <4> QED BY <4>1, <4>2
      <3> QED BY <1>7, <2>1, <3>1
    <2>6. \A g \in Fid : Listed(t, g) \subseteq t.heap \ t.queue
      <3>1. h \notin st.queue
        BY <1>1, <2>1
      <3> QED BY <1>4, <1>7, <2>1, <2>2, <3>1
    <2>7. \A g, e \in Fid : g # e => Listed(t, g) \cap Listed(t, e) = {}
      <3>1. \A g \in Fid : h \notin Listed(st, g)
        BY <1>1, <2>1
      <3> QED BY <1>7, <2>1, <2>2, <3>1
    <2>8. \A i \in Handles \cap t.heap : i \in t.queue \/ \E g \in Fid : i \in Listed(t, g)
      <3> SUFFICES ASSUME NEW i \in Handles \cap t.heap, i \notin t.queue
                   PROVE  \E g \in Fid : i \in Listed(t, g)
        OBVIOUS
      <3>1. CASE i = h
        BY <1>4, <1>7, <3>1
      <3>2. CASE i # h
        <4>1. PICK g \in Fid : i \in Listed(st, g)
          BY <1>7, <2>1, <3>2
        <4>2. i \in Listed(t, g)
          BY <1>7, <2>2, <4>1
        <4> QED BY <4>2
      <3> QED BY <3>1, <3>2
    <2> QED BY <2>3, <2>4, <2>5, <2>6, <2>7, <2>8 DEF Kept
  <1>11. Inv(t)
    BY <1>1, <1>7, <1>10, HandlesOnly
  <1> QED BY <1>6, <1>11

LEMMA QueueEvictedKept ==
    ASSUME Uses = {}, IInv, NEW h \in Handles, QueueEvicted(h)
    PROVE  Inv(st')
  <1> DEFINE t == [st EXCEPT !.heap = @ \cup {h}, !.queue = @ \cup {h}]
  <1>1. Inv(st) /\ h \notin st.heap /\ st' = t
    BY DEF QueueEvicted, IInv
  <1>2. st \in Machine /\ Kept(st)
    BY <1>1 DEF Inv
  <1>3. /\ t \in Machine /\ t.ctl = st.ctl /\ t.used = st.used /\ t.head = st.head
        /\ t.handling = st.handling /\ t.end = st.end /\ t.abortDue = st.abortDue
        /\ t.queue = st.queue \cup {h} /\ t.twice = st.twice /\ t.heap = st.heap \cup {h}
        /\ t.fr = st.fr
    BY <1>2 DEF Machine
  <1> HIDE DEF t
  <1>4. Opened(t) = Opened(st) /\ Gone(t) = Gone(st)
    BY <1>3 DEF Bodies, Handlers, Calms, Gone, Opened
  <1>5. \A f \in Fid : Listed(t, f) = Listed(st, f) /\ h \notin Listed(st, f)
    BY <1>1, <1>2, <1>3 DEF Listed, Kept
  <1>6. Kept(t)
    <2>1. ~t.twice /\ t.queue \subseteq t.heap
      BY <1>2, <1>3 DEF Kept
    <2>2. \A f \in Fid : t.fr[f].mark = 0 /\ (f \notin Opened(t) \ Gone(t) => t.fr[f].list = <<>>)
      BY <1>2, <1>3, <1>4 DEF Kept
    <2>3. \A f \in Fid : Len(t.fr[f].list) <= ExitMax
      BY <1>2, <1>3 DEF Kept
    <2>4. \A f \in Fid : Listed(t, f) \subseteq t.heap \ t.queue
      BY <1>2, <1>3, <1>5 DEF Kept
    <2>5. \A f, g \in Fid : f # g => Listed(t, f) \cap Listed(t, g) = {}
      BY <1>2, <1>5 DEF Kept
    <2>6. \A i \in Handles \cap t.heap : i \in t.queue \/ \E f \in Fid : i \in Listed(t, f)
      BY <1>2, <1>3, <1>5 DEF Kept
    <2> QED BY <2>1, <2>2, <2>3, <2>4, <2>5, <2>6 DEF Kept
  <1>7. \A f \in Fid : Like(t.fr[f], st.fr[f])
    BY <1>3 DEF Like
  <1>8. Inv(t)
    BY <1>1, <1>3, <1>6, <1>7, HandlesOnly
  <1> QED BY <1>1, <1>8

----------------------------------------------------------------------------
(* Every step *)

LEMMA InitKept ==
    ASSUME Init
    PROVE  IInv
  <1> DEFINE x == Region("call", Null, <<>>)
             c == <<x>>
  <1>1. x \in Regions /\ x.kind = "call" /\ x.lex = <<>>
    <2>1. Null \in 0 .. MaxFrames /\ <<>> \in Seq(Step)
      BY WeatherAssumption
    <2> QED BY <2>1 DEF Region, Regions, Kinds, Code
  <1> HIDE DEF x
  <1>2. c \in Seq(Regions) /\ Len(c) = 1 /\ c[1] = x /\ \A k \in 1 .. Len(c) : k = 1
    BY <1>1
  <1> HIDE DEF c
  <1>3. NoFrame \in Frame
    BY WeatherAssumption DEF NoFrame, Frame
  <1>4. /\ st.ctl = c /\ st.fr = [f \in Fid |-> NoFrame] /\ st.used = 0 /\ st.head = Null
        /\ st.handling = Null /\ st.heap = {} /\ st.queue = {} /\ ~st.twice /\ st.end = ""
        /\ st.abortDue = Null
    BY DEF Init, c, x
  <1>5. st \in Machine
    <2> DEFINE z == [f \in Fid |-> NoFrame]
    <2>1. z \in [Fid -> Frame]
      BY <1>3
    <2> HIDE DEF z
    <2>2. 0 \in 0 .. MaxFrames /\ 0 \in 0 .. MaxFrames
      BY WeatherAssumption
    <2>3. st = [ctl |-> c, fr |-> z, used |-> 0, head |-> 0, handling |-> 0, heap |-> {},
                queue |-> {}, twice |-> FALSE, end |-> "", abortDue |-> 0]
      BY DEF Init, c, x, z
    <2> QED BY <1>2, <2>1, <2>2, <2>3 DEF Machine
  <1>6. Shape(c)
    <2>1. Level(c, 1)
      <3>1. Own(c, 1) = {}
        BY <1>1, <1>2 DEF Own
      <3>2. Threaded(c, 1)
        <4>1. Len(<<>>) # 1
          OBVIOUS
        <4> QED BY <1>1, <1>2, <3>1, <4>1 DEF Threaded
      <3>3. c[1].kind = "call" /\ c[1].kind \in Code /\ c[1].kind \notin Blocks
        BY <1>1, <1>2 DEF Code, Blocks
      <3>4. \A j \in 1 .. 1 - 1 : FALSE
        OBVIOUS
      <3> QED BY <3>2, <3>3, <3>4 DEF Level
    <2> QED BY <1>2, <2>1 DEF Shape
  <1>7. Bodies(st) = {} /\ Handlers(st) = {} /\ Calms(st) = {} /\ Gone(st) = {}
    BY <1>1, <1>2, <1>4 DEF Bodies, Handlers, Calms, Gone, Of
  <1>8. Opened(st) = {} /\ Linked(st) = {}
    BY <1>7 DEF Opened, Linked
  <1>9. \A f \in Fid : /\ st.fr[f].next = Null /\ ~st.fr[f].raised /\ st.fr[f].list = <<>>
                       /\ st.fr[f].mark = 0
    <2>1. NoFrame.next = Null /\ ~NoFrame.raised /\ NoFrame.list = <<>> /\ NoFrame.mark = 0
      BY DEF NoFrame
    <2> QED BY <1>4, <2>1
  <1>10. Chained(st)
    <2>1. Null < MaxFrames + 1 /\ \A f \in Fid : Null < f
      BY WeatherAssumption
    <2> QED BY <1>4, <1>8, <1>9, <2>1 DEF Chained, Below
  <1>11. Storming(st)
    BY <1>4, <1>7, <1>9 DEF Storming
  <1>12. Passed(st)
    <2> DEFINE z == st.used
    <2>1. z = 0
      BY <1>4
    <2> HIDE DEF z
    <2>2. \A f \in 1 .. z : FALSE
      BY <2>1
    <2> QED BY <2>2, Zenon DEF Passed, z
  <1>13. Kept(st)
    <2>1. ToSet(<<>>) = {} /\ Len(<<>>) = 0 /\ 0 <= ExitMax
      BY WeatherAssumption DEF ToSet
    <2>2. \A f \in Fid : Listed(st, f) = {}
      BY <1>9, <2>1 DEF Listed
    <2> QED BY <1>4, <1>9, <2>1, <2>2 DEF Kept
  <1> QED BY <1>4, <1>5, <1>6, <1>10, <1>11, <1>12, <1>13 DEF IInv, Inv

LEMMA NextKept ==
    ASSUME Uses = {}, IInv, [Next]_vars
    PROVE  IInv'
  <1>1. CASE UNCHANGED vars
    BY <1>1 DEF vars, IInv
  <1>2. CASE Call
    BY <1>2, CallKept DEF IInv
  <1>3. CASE Loop
    BY <1>3, LoopKept DEF IInv
  <1>4. CASE Open
    BY <1>4, OpenKept DEF IInv
  <1>5. ASSUME NEW h \in Handles, Register(h) PROVE IInv'
    BY <1>5, RegisterKept DEF IInv
  <1>6. ASSUME NEW h \in Handles, QueueEvicted(h) PROVE IInv'
    BY <1>6, QueueEvictedKept DEF IInv
  <1>7. ASSUME NEW type \in Storms, Throw(type) PROVE IInv'
    BY <1>7, ThrowKept DEF IInv
  <1>8. ASSUME NEW type \in Storms, NEW o \in Objects, ThrowObject(type, o) PROVE IInv'
    BY <1>8, ThrowObjectKept DEF IInv
  <1>9. CASE Give
    BY <1>9, GiveKept DEF IInv
  <1>10. CASE Break
    BY <1>10, LoopJumpKept DEF IInv, Break
  <1>11. CASE Continue
    BY <1>11, LoopJumpKept DEF IInv, Continue
  <1>12. CASE EndPlain
    BY <1>12, EndPlainKept DEF IInv
  <1>13. CASE EndReturn
    BY <1>13, EndReturnKept DEF IInv
  <1>14. CASE EndBody
    BY <1>14, EndBodyKept DEF IInv
  <1>15. CASE EndHandler
    BY <1>15, EndHandlerKept DEF IInv
  <1>16. CASE EndCalm
    BY <1>16, EndCalmKept DEF IInv
  <1>17. CASE EndExit
    BY <1>17, EndExitKept DEF IInv
  <1>18. CASE GiveAsync
    BY <1>18, GiveAsyncKept DEF IInv
  <1> QED BY <1>1, <1>2, <1>3, <1>4, <1>5, <1>6, <1>7, <1>8, <1>9, <1>10, <1>11, <1>12, <1>13,
             <1>14, <1>15, <1>16, <1>17, <1>18 DEF Next

THEOREM Invariance ==
    ASSUME Uses = {}
    PROVE  Spec => []IInv
  <1>1. Init => IInv
    BY InitKept
  <1>2. IInv /\ [Next]_vars => IInv'
    BY NextKept
  <1> QED BY <1>1, <1>2, PTL DEF Spec

----------------------------------------------------------------------------
(* The frames that a throw can reach *)

\* g maps a frame to those that it leads to, for the frames up to n.
Reaches(g, s, n) ==
    /\ g \in [0 .. n -> SUBSET Fid] /\ g[0] = {}
    /\ \A f \in 1 .. n : g[f] = {f} \cup g[s.fr[f].next]

LEMMA ReachesExist ==
    ASSUME NEW s, s \in Machine, Chained(s)
    PROVE  \E g : Reaches(g, s, MaxFrames)
  <1> DEFINE S == {n \in Nat : n <= MaxFrames => \E g : Reaches(g, s, n)}
  <1>1. 0 \in S
    <2>1. Reaches([i \in 0 .. 0 |-> {}], s, 0)
      BY DEF Reaches
    <2> QED BY <2>1
  <1>2. ASSUME NEW n \in Nat, n \in S PROVE n + 1 \in S
    <2> SUFFICES ASSUME n + 1 <= MaxFrames PROVE \E g : Reaches(g, s, n + 1)
      OBVIOUS
    <2>m. MaxFrames \in Nat
      BY WeatherAssumption
    <2>1. PICK g : Reaches(g, s, n)
      BY <1>2, <2>m
    <2>2. \A i \in 1 .. n + 1 : s.fr[i].next \in 0 .. i - 1
      <3> SUFFICES ASSUME NEW i \in 1 .. n + 1 PROVE s.fr[i].next \in 0 .. i - 1
        OBVIOUS
      <3>0. i \in Fid
        BY <2>m
      <3>1. i \in Fid /\ s.fr[i] \in Frame /\ s.fr[i].next < i
        BY <3>0, FramesAreFid DEF Chained
      <3>2. s.fr[i].next \in 0 .. MaxFrames
        BY <3>1 DEF Frame
      <3> QED BY <2>m, <3>1, <3>2
    <2> DEFINE x == {n + 1} \cup g[s.fr[n + 1].next]
               h == [i \in 0 .. n + 1 |-> IF i = n + 1 THEN x ELSE g[i]]
    <2>3. g \in [0 .. n -> SUBSET Fid] /\ g[0] = {} /\ \A i \in 1 .. n : g[i] = {i} \cup g[s.fr[i].next]
      BY <2>1 DEF Reaches
    <2>4. x \in SUBSET Fid
      <3>1. s.fr[n + 1].next \in 0 .. n /\ n + 1 \in Fid
        BY <2>2, <2>m
      <3> QED BY <2>3, <3>1
    <2>5. h[n + 1] = x /\ \A i \in 0 .. n : h[i] = g[i]
      OBVIOUS
    <2> HIDE DEF x
    <2>6. h \in [0 .. n + 1 -> SUBSET Fid] /\ h[0] = {}
      BY <2>3, <2>4
    <2> HIDE DEF h
    <2>7. ASSUME NEW i \in 1 .. n + 1 PROVE h[i] = {i} \cup h[s.fr[i].next]
      <3>1. s.fr[i].next \in 0 .. n
        BY <2>2
      <3>2. h[s.fr[i].next] = g[s.fr[i].next]
        BY <2>5, <3>1
      <3>3. CASE i = n + 1
        BY <2>5, <3>2, <3>3 DEF x
      <3>4. CASE i # n + 1
        <4>1. i \in 1 .. n /\ i \in 0 .. n
          BY <3>4
        <4> QED BY <2>3, <2>5, <3>2, <4>1
      <3> QED BY <3>3, <3>4
    <2>8. Reaches(h, s, n + 1)
      BY <2>6, <2>7 DEF Reaches
    <2> QED BY <2>8
  <1>3. Nat \subseteq S
    <2> HIDE DEF S
    <2> QED BY <1>1, <1>2, InductiveSet
  <1> QED BY <1>3, WeatherAssumption

\* A throw reaches linked frames only.
LEMMA ActiveLinked ==
    ASSUME IInv
    PROVE  Active \subseteq Linked(st)
  <1> DEFINE Reach(g) == [f \in 0 .. MaxFrames |->
                            IF f = Null THEN {} ELSE {f} \cup g[st.fr[f].next]]
             C == CHOOSE g : g = Reach(g)
             L == Linked(st)
  <1>1. st \in Machine /\ Chained(st) /\ MaxFrames \in Nat
    BY WeatherAssumption DEF IInv, Inv
  <1>2. PICK g : Reaches(g, st, MaxFrames)
    BY <1>1, ReachesExist
  <1>3. g = Reach(g)
    <2>1. \A f \in 0 .. MaxFrames : g[f] = Reach(g)[f]
      <3> SUFFICES ASSUME NEW f \in 0 .. MaxFrames PROVE g[f] = Reach(g)[f]
        OBVIOUS
      <3>1. CASE f = 0
        BY <1>2, <3>1 DEF Reaches
      <3>2. CASE f # 0
        <4>1. f \in 1 .. MaxFrames
          BY <3>2
        <4> QED BY <1>2, <3>2, <4>1 DEF Reaches
      <3> QED BY <3>1, <3>2
    <2>2. g = [f \in 0 .. MaxFrames |-> g[f]]
      BY <1>2 DEF Reaches
    <2> QED BY <2>1, <2>2
  <1>4. C = Reach(C)
    BY <1>3
  <1>5. Active = C[st.head]
    BY DEF Active
  <1> HIDE DEF C
  <1>6. /\ C[0] = {}
        /\ \A f \in 1 .. MaxFrames : C[f] = {f} \cup C[st.fr[f].next]
    <2>1. \A f \in 0 .. MaxFrames : C[f] = IF f = Null THEN {} ELSE {f} \cup C[st.fr[f].next]
      BY <1>4
    <2>2. 0 \in 0 .. MaxFrames /\ \A f \in 1 .. MaxFrames : f \in 0 .. MaxFrames /\ f # 0
      BY <1>1
    <2> QED BY <2>1, <2>2
  <1>7. /\ st.head \in L \cup {Null} /\ L \subseteq Fid
        /\ \A f \in L : st.fr[f].next \in L \cup {Null} /\ st.fr[f].next < f
    BY <1>1, FramesAreFid DEF Chained, Below
  <1> DEFINE S == {n \in Nat : \A f \in L : f <= n => C[f] \subseteq L}
  <1> HIDE DEF L
  <1>8. 0 \in S
    <2>1. \A f \in L : ~(f <= 0)
      BY <1>7
    <2> QED BY <2>1
  <1>9. ASSUME NEW n \in Nat, n \in S PROVE n + 1 \in S
    <2> SUFFICES ASSUME NEW f \in L, f <= n + 1 PROVE C[f] \subseteq L
      OBVIOUS
    <2> DEFINE e == st.fr[f].next
    <2>1. f \in 1 .. MaxFrames /\ C[f] = {f} \cup C[e]
      BY <1>6, <1>7
    <2>2. e \in L \cup {0} /\ e < f
      BY <1>7
    <2> HIDE DEF e
    <2>3. C[e] \subseteq L
      <3>1. CASE e = 0
        BY <1>6, <3>1
      <3>2. CASE e # 0
        <4>1. e \in L /\ e \in 1 .. MaxFrames
          BY <1>7, <2>2, <3>2
        <4>2. e <= n
          BY <2>1, <2>2, <4>1
        <4> QED BY <1>9, <4>1, <4>2
      <3> QED BY <3>1, <3>2
    <2> QED BY <2>1, <2>3
  <1>10. Nat \subseteq S
    <2> HIDE DEF S
    <2> QED BY <1>8, <1>9, InductiveSet
  <1>11. C[st.head] \subseteq L
    <2>1. CASE st.head = 0
      BY <1>6, <2>1
    <2>2. CASE st.head # 0
      <3> DEFINE h == st.head
      <3>0. h \in L /\ h \in 1 .. MaxFrames
        BY <1>7, <2>2
      <3> HIDE DEF h
      <3>1. h \in L /\ h <= MaxFrames
        BY <1>1, <3>0
      <3>2. MaxFrames \in S
        <4> HIDE DEF S
        <4> QED BY <1>1, <1>10
      <3> QED BY <3>1, <3>2 DEF h
    <2> QED BY <2>1, <2>2
  <1> QED BY <1>5, <1>11 DEF L

----------------------------------------------------------------------------
(* The properties *)

\* What the invariant says of the levels of a frame.
LEMMA LevelsOpen ==
    ASSUME IInv
    PROVE  /\ \A f : f \in Opened(st) <=> LevelsOf(st, f) # {}
           /\ Handlers(st) = {st.ctl[k].f : k \in Levels(st, {"handler"})}
  <1>1. st.ctl \in Seq(Regions)
    BY DEF IInv, Inv, Shape
  <1>2. DOMAIN st.ctl = 1 .. Len(st.ctl)
    BY <1>1
  <1>3. Levels(st, {"handler"}) = {j \in 1 .. Len(st.ctl) : st.ctl[j].kind = "handler"}
    BY <1>2 DEF Levels
  <1> QED BY <1>1, <1>3, OpenedLevels DEF Handlers, Of

\* The machine is well typed: frames link to older frames, and exit lists stay
\* within PLANT_WEATHER_EXIT_MAX (plant_weather_register_handle).
THEOREM TypeCorrect ==
    ASSUME Uses = {}
    PROVE  Spec => []TypeOK
  <1>1. IInv => TypeOK
    <2> SUFFICES ASSUME IInv PROVE TypeOK
      OBVIOUS
    <2>1. /\ st \in Machine /\ Chained(st) /\ Storming(st) /\ Kept(st) /\ MaxFrames \in Nat
          /\ ExitMax \in Nat
      BY WeatherAssumption DEF IInv, Inv
    <2>2. /\ Linked(st) \subseteq Opened(st) /\ Opened(st) \subseteq 1 .. st.used
          /\ st.used \in 0 .. MaxFrames /\ \A f \in Fid : st.fr[f] \in Frame
      BY <2>1, FramesAreFid DEF Chained
    <2>3. st.head \in 0 .. st.used
      <3>1. st.head \in Linked(st) \cup {0}
        BY <2>1 DEF Chained, Below
      <3> QED BY <2>2, <3>1
    <2>4. st.handling \in 0 .. st.used
      <3>1. st.handling = 0 \/ st.handling \in Handlers(st)
        BY <2>1 DEF Storming
      <3> QED BY <2>2, <3>1 DEF Opened
    <2>5. /\ st.used <= MaxFrames /\ st.heap \subseteq Handles \cup Objects
          /\ st.queue \subseteq Handles /\ st.end \in {"", "abort", "stale"}
      <3>1. st.used <= MaxFrames
        BY <2>1, <2>2
      <3>2. /\ st.heap \subseteq Handles \cup Objects /\ st.queue \subseteq Handles
            /\ st.end \in {"", "abort", "stale"}
        BY <2>1 DEF Machine
      <3> QED BY <3>1, <3>2
    <2>6. ASSUME NEW f \in Fid
          PROVE  /\ st.fr[f].next \in 0 .. f - 1 /\ Listed(st, f) \subseteq Handles
                 /\ st.fr[f].mark <= Len(st.fr[f].list) /\ Len(st.fr[f].list) <= ExitMax
      <3> DEFINE q == st.fr[f].list
      <3>1. /\ st.fr[f].next \in 0 .. MaxFrames /\ q \in Seq(Handles)
            /\ st.fr[f].next < f /\ st.fr[f].mark = 0 /\ Len(q) <= ExitMax
        BY <2>1, <2>2 DEF Frame, Chained, Kept
      <3> HIDE DEF q
      <3>2. ToSet(q) \subseteq Handles /\ 0 <= Len(q)
        BY <3>1 DEF ToSet
      <3>3. st.fr[f].next \in 0 .. f - 1
        BY <2>1, <3>1
      <3> QED BY <3>1, <3>2, <3>3 DEF q, Listed
    <2> QED BY <2>3, <2>4, <2>5, <2>6 DEF TypeOK, Listed
  <1> QED BY <1>1, Invariance, PTL

\* However the blocks are left, a storm goes to a WEATHER block that is still
\* open: no frame of a closed block stays on the stack that plant_throw reads.
THEOREM StormsReachOpenBlocks ==
    ASSUME Uses = {}
    PROVE  Spec => []HeadIsOpen
  <1>1. IInv => HeadIsOpen
    <2> SUFFICES ASSUME IInv PROVE HeadIsOpen
      OBVIOUS
    <2>1. st \in Machine /\ Chained(st) /\ Storming(st)
      BY DEF IInv, Inv
    <2>2. Active \subseteq Opened(st)
      BY <2>1, ActiveLinked, FramesAreFid
    <2>3. \A f \in Active : LevelsOf(st, f) # {}
      BY <2>2, LevelsOpen
    <2>4. st.end # "stale"
      BY <2>1 DEF Storming
    <2> QED BY <2>3, <2>4 DEF HeadIsOpen
  <1> QED BY <1>1, Invariance, PTL

\* The handler that runs is the one of the innermost running block whose
\* shelters match, and the program aborts only on a storm that no running block
\* shelters (plant_throw, plant_calm).
THEOREM StormsAreDelivered ==
    ASSUME Uses = {}
    PROVE  Spec => []StormsDelivered
  <1>1. IInv => StormsDelivered
    <2> SUFFICES ASSUME IInv PROVE StormsDelivered
      OBVIOUS
    <2>1. Storming(st)
      BY DEF IInv, Inv
    <2>2. \A k \in Levels(st, {"handler"}) : st.ctl[k].f \in Handlers(st)
      BY LevelsOpen
    <2> QED BY <2>1, <2>2 DEF Storming, StormsDelivered
  <1> QED BY <1>1, Invariance, PTL

\* A storm that a closed block did not handle has reached the block it was due
\* at, or an open block still carries it (plant_calm re-raises it).
THEOREM StormsArePassedOn ==
    ASSUME Uses = {}
    PROVE  Spec => []StormsPassedOn
  <1>1. IInv => StormsPassedOn
    <2> SUFFICES ASSUME IInv, Running, NEW f \in 1 .. st.used, Unanswered(f),
                        LevelsOf(st, f) = {}
                 PROVE  \/ st.fr[f].due # Null /\ st.fr[st.fr[f].due].raised
                        \/ \E g \in 1 .. st.used : /\ Unanswered(g) /\ LevelsOf(st, g) # {}
                                                   /\ st.fr[g].due = st.fr[f].due
      BY DEF StormsPassedOn
    <2>1. Passed(st) /\ Chained(st) /\ st.end = ""
      BY DEF IInv, Inv, Running
    <2>2. f \notin Opened(st) /\ Waiting(st, f)
      BY LevelsOpen DEF Unanswered, Waiting
    <2>3. \/ st.fr[f].due # Null /\ st.fr[st.fr[f].due].raised
          \/ \E g \in Calms(st) : Waiting(st, g) /\ st.fr[g].due = st.fr[f].due
      BY <2>1, <2>2, Zenon DEF Passed
    <2>4. ASSUME NEW g \in Calms(st), Waiting(st, g)
          PROVE  g \in 1 .. st.used /\ Unanswered(g) /\ LevelsOf(st, g) # {}
      <3>1. g \in Opened(st)
        BY DEF Opened
      <3> QED BY <2>1, <2>4, <3>1, LevelsOpen DEF Chained, Unanswered, Waiting
    <2> QED BY <2>3, <2>4
  <1> QED BY <1>1, Invariance, PTL

\* A registered handle is freed exactly once: never twice through teardown, the
\* shelter purge and the queue drain, and until then it waits on the exit list
\* of an open block or in the queue.
THEOREM HandlesAreFreedOnce ==
    ASSUME Uses = {}
    PROVE  Spec => []HandlesFreedOnce
  <1>1. IInv => HandlesFreedOnce
    <2> SUFFICES ASSUME IInv PROVE HandlesFreedOnce
      OBVIOUS
    <2>1. st \in Machine /\ Kept(st) /\ Chained(st)
      BY DEF IInv, Inv
    <2>2. ASSUME NEW h \in Handles \cap st.heap, h \notin st.queue
          PROVE  \E f \in 1 .. st.used : LevelsOf(st, f) # {} /\ h \in ToSet(st.fr[f].list)
      <3>1. PICK f \in Fid : h \in Listed(st, f)
        BY <2>1, <2>2 DEF Kept
      <3>2. st.fr[f].list # <<>>
        BY <3>1 DEF Listed, ToSet
      <3>3. f \in Opened(st)
        BY <2>1, <3>2 DEF Kept
      <3>4. f \in 1 .. st.used /\ LevelsOf(st, f) # {}
        BY <2>1, <3>3, LevelsOpen DEF Chained
      <3> QED BY <3>1, <3>4 DEF Listed
    <2>3. NothingLeaks
      BY <2>2 DEF NothingLeaks
    <2>4. FreedOnce
      BY <2>1 DEF Kept, FreedOnce
    <2> QED BY <2>3, <2>4 DEF HandlesFreedOnce
  <1> QED BY <1>1, Invariance, PTL
=============================================================================
