----------------------------- MODULE StringPool -----------------------------
(***************************************************************************)
(* Strings of a PlantLang program: the 64-byte slab of runtime/c/          *)
(* plant_runtime.c that concatenations draw from, the heap they fall back  *)
(* to, the tagged heap strings of numbers, the static digits, the rotating *)
(* slots of decimals, and the FREE statement that must tell them apart.    *)
(*                                                                         *)
(* A text is a number, fresh for each string built; 0 is garbage. A value  *)
(* says which allocator it came from and where it lies.                    *)
(***************************************************************************)
EXTENDS Integers, FiniteSets, Sequences

CONSTANTS
    Vars,        \* variables of the program
    Blocks,      \* PLANT_SLAB_BLOCKS
    DblSlots,    \* _PLANT_DBL_SLOTS
    Aliases,     \* TRUE: the program copies one variable to another
    FreesStatic, \* TRUE: the program frees digits and decimals too
    MaxTexts,    \* bound: strings built in one behaviour
    MaxDoubles   \* bound: decimals among them

ASSUME StringAssumption ==
    /\ Blocks \in Nat /\ DblSlots \in Nat \ {0}
    /\ Aliases \in BOOLEAN /\ FreesStatic \in BOOLEAN
    /\ MaxTexts \in Nat /\ MaxDoubles \in Nat

VARIABLES
    mem,     \* g_slab_region: each block holds a free-list link or a text
    free,    \* g_slab_free, 0 for NULL
    live,    \* g_slab_live
    bal,     \* g_bal_bytes
    dbl,     \* _plant_dbl_store
    dblIdx,  \* _plant_dbl_idx
    chunks,  \* strings malloc gave and nobody freed
    strs,    \* what the program's variables hold
    meant,   \* history: the text each variable was last given
    texts, doubles, \* strings and decimals built so far
    crashed  \* free was given something malloc never returned, or twice

svars == <<mem, free, live, bal, dbl, dblIdx, chunks, strs, meant, texts, doubles, crashed>>

Null == [kind |-> "null", at |-> 0]
Slab == [kind : {"slab"}, at : 1 .. Blocks]

\* Bytes of a concatenation that fits a block, and of one that does not.
SmallLen == 5
LargeLen == 65
BlockLen == 64

\* plant_slab_init: every block links to the one before it.
SlabInit == [b \in 1 .. Blocks |-> [link |-> b - 1, text |-> 0]]

StrInit ==
    /\ mem = SlabInit /\ free = Blocks /\ live = 0 /\ bal = 0
    /\ dbl = [s \in 0 .. DblSlots - 1 |-> 0] /\ dblIdx = 0
    /\ chunks = {}
    /\ strs = [v \in Vars |-> Null] /\ meant = [v \in Vars |-> 0]
    /\ texts = 0 /\ doubles = 0 /\ crashed = FALSE

Give(v, kind, at) ==
    /\ texts < MaxTexts /\ ~crashed
    /\ texts' = texts + 1
    /\ strs' = [strs EXCEPT ![v] = [kind |-> kind, at |-> at]]
    /\ meant' = [meant EXCEPT ![v] = texts']

\* Fault variant: the head of the free list stays where it is.
SlabAllocUnpopped ==
    /\ mem' = [mem EXCEPT ![free] = [link |-> mem[free].link, text |-> texts + 1]]
    /\ free' = free
    /\ live' = live + 1

\* plant_str_slab_alloc, for a length that fits; free # 0.
SlabAlloc ==
    /\ mem' = [mem EXCEPT ![free] = [link |-> 0, text |-> texts + 1]]
    /\ free' = mem[free].link
    /\ live' = live + 1

\* _cat, _cat3 and _cat4.
Cat(v, len) ==
    /\ bal' = bal + len
    /\ IF len <= BlockLen /\ free # 0
       THEN Give(v, "slab", free) /\ SlabAlloc /\ UNCHANGED chunks
       ELSE /\ Give(v, "heap", texts + 1)
            /\ chunks' = chunks \cup {texts + 1}
            /\ UNCHANGED <<mem, free, live>>
    /\ UNCHANGED <<dbl, dblIdx, doubles, crashed>>

\* _from_digit: 0 to 9 come from a static table, the rest from the heap
\* with a tag before them.
FromDigit(v, single) ==
    /\ Give(v, IF single THEN "digit" ELSE "tagged", texts + 1)
    /\ chunks' = IF single THEN chunks ELSE chunks \cup {texts + 1}
    /\ UNCHANGED <<mem, free, live, bal, dbl, dblIdx, doubles, crashed>>

\* _from_double: the next of the static slots.
FromDouble(v) ==
    /\ doubles < MaxDoubles
    /\ doubles' = doubles + 1
    /\ Give(v, "double", dblIdx)
    /\ dbl' = [dbl EXCEPT ![dblIdx] = texts + 1]
    /\ dblIdx' = (dblIdx + 1) % DblSlots
    /\ UNCHANGED <<mem, free, live, bal, chunks, crashed>>

\* SET b = a copies the pointer.
Copy(v, w) ==
    /\ Aliases /\ ~crashed /\ v # w
    /\ strs' = [strs EXCEPT ![v] = strs[w]]
    /\ meant' = [meant EXCEPT ![v] = meant[w]]
    /\ UNCHANGED <<mem, free, live, bal, dbl, dblIdx, chunks, texts, doubles, crashed>>

SlabFree(b) ==
    /\ mem' = [mem EXCEPT ![b] = [link |-> free, text |-> 0]]
    /\ free' = b
    /\ live' = live - 1

\* plant_mem_free, whose result the code generator stores in the variable.
FreeVar(v) ==
    /\ ~crashed /\ strs[v].kind # "null"
    /\ strs[v].kind \in {"digit", "double"} => FreesStatic
    /\ strs' = [strs EXCEPT ![v] = Null]
    /\ meant' = [meant EXCEPT ![v] = 0]
    /\ IF strs[v].kind = "slab"
       THEN SlabFree(strs[v].at) /\ bal' = bal - BlockLen /\ UNCHANGED <<chunks, crashed>>
       ELSE /\ chunks' = chunks \ {strs[v].at}
            /\ crashed' = ~(strs[v].kind \in {"heap", "tagged"} /\ strs[v].at \in chunks)
            /\ UNCHANGED <<mem, free, live, bal>>
    /\ UNCHANGED <<dbl, dblIdx, texts, doubles>>

StrNext ==
    \E v \in Vars :
        \/ \E len \in {SmallLen, LargeLen} : Cat(v, len)
        \/ \E single \in BOOLEAN : FromDigit(v, single)
        \/ FromDouble(v) \/ FreeVar(v)
        \/ \E w \in Vars : Copy(v, w)

StrSpec == StrInit /\ [][StrNext]_svars

----------------------------------------------------------------------------
(* Properties *)

\* The blocks met along the first n links of the free list.
Walk[n \in 0 .. Blocks] ==
    IF n = 0 THEN <<free>>
    ELSE LET last == Walk[n - 1][n]
         IN Append(Walk[n - 1], IF last = 0 THEN 0 ELSE mem[last].link)

FreeBlocks == {Walk[Blocks][i] : i \in 1 .. Blocks + 1} \ {0}

\* Type invariant.
StrTypeOK ==
    /\ mem \in [1 .. Blocks -> [link : 0 .. Blocks, text : Nat]]
    /\ free \in 0 .. Blocks /\ live \in Int /\ bal \in Int
    /\ dblIdx \in 0 .. DblSlots - 1 /\ chunks \subseteq Nat
    /\ \A v \in Vars : strs[v].kind \in {"null", "slab", "heap", "tagged", "digit", "double"}

\* The free list ends, holds no block a variable still uses, and together with
\* the live count accounts for every block: the pool re-issues none.
SlabPartition ==
    /\ Walk[Blocks][Blocks + 1] = 0
    /\ live = Blocks - Cardinality(FreeBlocks)
    /\ \A v \in Vars : strs[v].kind = "slab" => strs[v].at \notin FreeBlocks

ReadText(v) ==
    CASE strs[v].kind = "slab" -> mem[strs[v].at].text
      [] strs[v].kind = "double" -> dbl[strs[v].at]
      [] strs[v].kind \in {"heap", "tagged"} -> IF strs[v].at \in chunks THEN strs[v].at ELSE 0
      [] OTHER -> meant[v]

\* A string a variable holds reads as it was built, until the variable is
\* given another or freed, whatever is built and freed meanwhile.
TextKept == \A v \in Vars : ReadText(v) = meant[v]

\* FREE only hands to free what malloc returned, and once.
FreesSound == ~crashed

\* plant_mem_report's "balanced" live bytes are a number of bytes.
BalancedBytes == bal >= 0
=============================================================================
