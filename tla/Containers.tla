----------------------------- MODULE Containers -----------------------------
(***************************************************************************)
(* What the native containers of a PlantLang program promise, whatever     *)
(* buffer holds them: a set, a map, a queue and a stack, as mathematics    *)
(* has them. Each behaviour uses one container, named by kind.             *)
(***************************************************************************)
EXTENDS Integers, Sequences

CONSTANTS Values, NoValue

VARIABLES kind, view, out

Empty(k) == CASE k = "set" -> {}
              [] k \in {"hash", "pairs"} -> [x \in {} |-> NoValue]
              [] k \in {"queue", "stack"} -> <<>>

ContainersInit ==
    /\ kind \in {"set", "hash", "pairs", "queue", "stack"}
    /\ view = Empty(kind)
    /\ out = <<>>

\* Answers are texts.
Text(b) == IF b THEN "1" ELSE "0"

Sets(v) ==
    /\ kind = "set"
    /\ \/ view' = view \union {v} /\ out' = <<"add", v, Text(v \notin view)>>
       \/ view' = view \ {v} /\ out' = <<"remove", v, Text(v \in view)>>
       \/ view' = view /\ out' = <<"has", v, Text(v \in view)>>

Maps(k, v) ==
    /\ kind \in {"hash", "pairs"}
    /\ \/ /\ view' = [x \in DOMAIN view \union {k} |-> IF x = k THEN v ELSE view[x]]
          /\ out' = <<"put", k, v>>
       \/ /\ view' = view
          /\ out' = <<"get", k, IF k \in DOMAIN view THEN view[k] ELSE NoValue>>

\* A queue gives back its oldest value, a stack its newest.
Push(v) ==
    /\ kind \in {"queue", "stack"}
    /\ view' = Append(view, v) /\ out' = <<"push", v, NoValue>>

Popped(x) == <<"pop", NoValue, x>>
Pop ==
    /\ kind \in {"queue", "stack"}
    /\ \/ view = <<>> /\ view' = <<>> /\ out' = Popped(NoValue)
       \/ /\ view # <<>> /\ kind = "queue"
          /\ view' = Tail(view) /\ out' = Popped(Head(view))
       \/ /\ view # <<>> /\ kind = "stack"
          /\ view' = SubSeq(view, 1, Len(view) - 1) /\ out' = Popped(view[Len(view)])

ContainersNext ==
    /\ UNCHANGED kind
    /\ \/ \E v \in Values : Sets(v) \/ Push(v)
       \/ \E k, v \in Values : Maps(k, v)
       \/ Pop

ContainersSpec == ContainersInit /\ [][ContainersNext]_<<kind, view, out>>
=============================================================================
