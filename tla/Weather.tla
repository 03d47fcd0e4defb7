------------------------------ MODULE Weather ------------------------------
(***************************************************************************)
(* WEATHER / SHELTER / CALM: the frame stack of runtime/c/plant_runtime.c  *)
(* driven by the code gen_weather_stmt emits around it.  The program is    *)
(* arbitrary: it calls, loops, opens WEATHER blocks, registers handles,    *)
(* throws, and leaves blocks by their end or by GIVE, BREAK and CONTINUE.  *)
(*                                                                         *)
(* A frame is numbered when it is entered and never renumbered, so a       *)
(* pointer to a frame whose block has closed is visible.  The first use of *)
(* such a pointer ends the behaviour.  Handles are freed in one step, so   *)
(* the deferred-first order of a teardown and the telemetry are left out.  *)
(***************************************************************************)
EXTENDS Integers, FiniteSets, SequencesExt

CONSTANTS
    Storms,     \* the storm types the program throws
    AnyStorm,   \* ANY_STORM, the catch-all of shelters
    Clauses,    \* the sets of SHELTER clauses its blocks have
    Handles,    \* resource handles the program may register
    Objects,    \* factory storm objects
    ExitMax,    \* PLANT_WEATHER_EXIT_MAX
    MaxFrames,  \* bound: WEATHER blocks entered
    MaxDepth,   \* bound: nested calls, loops and blocks when one is opened
    Uses        \* what the program does: see May

ASSUME WeatherAssumption ==
    /\ AnyStorm \notin Storms /\ Clauses \subseteq SUBSET (Storms \cup {AnyStorm})
    /\ Handles \cap Objects = {}
    /\ ExitMax \in Nat /\ MaxFrames \in Nat /\ MaxDepth \in Nat
    /\ Uses \subseteq {"nested", "loop", "calm", "handler", "dispatch", "give", "async", "leased"}

Fid == 1 .. MaxFrames
Null == 0           \* no frame
NoObject == "message"   \* the storm is a classic one: it carries a string

\* The machine is one record:
\*   ctl       the open regions of code, outermost first
\*   fr, used  the frames and how many have been entered
\*   head, handling    _plant_weather_head and _plant_weather_handling
\*   heap      the live handles and storm objects
\*   queue     the ARC heap's deferred deallocations
\*   twice     history: something was freed that was not live
\*   end       "" while the program runs
\*   abortDue  history: the frame the storm that ended the program was due at
VARIABLE st

vars == <<st>>

\* calms and due are history: the runs of the frame's CALM body, and the frame
\* whose handler the storm raised at this frame should reach.
NoFrame == [next |-> Null, raised |-> FALSE, handled |-> FALSE, type |-> AnyStorm, obj |-> NoObject,
            list |-> <<>>, mark |-> 0, shelters |-> {}, calms |-> 0, due |-> Null]

\* A region of running code.  lex is the exit list the code generator threads
\* into it (mexit and wexit): the frames a GIVE or BREAK finalizes, each with
\* its CALM body or without.  An exit region runs step i of such a list; a
\* return region evaluates the value of a GIVE.  Both then close down to to.
Region(kind, f, lex) ==
    [kind |-> kind, f |-> f, lex |-> lex, chain |-> <<>>, i |-> 0,
     to |-> 0, gives |-> FALSE]

\* The runs of a CALM body, counted up to two.
Again(n) == IF n < 2 THEN n + 1 ELSE n

\* Fault variant: an exit closes the frames and runs no CALM body.
FinalizeBare(f, withCalm) == [f |-> f, calm |-> FALSE]

Finalize(f, withCalm) == [f |-> f, calm |-> withCalm]

Top(s) == Last(s.ctl)
Push(s, region) == [s EXCEPT !.ctl = Append(@, region)]
Retop(s, region) == [s EXCEPT !.ctl = Append(Front(@), region)]
Cut(s, n) == [s EXCEPT !.ctl = SubSeq(@, 1, n)]
Levels(s, kinds) == {k \in DOMAIN s.ctl : s.ctl[k].kind \in kinds}
Blocks == {"body", "handler", "calm"}
LevelsOf(s, f) == {k \in Levels(s, Blocks) : s.ctl[k].f = f}

----------------------------------------------------------------------------
(* Runtime *)

Free(s, hs) == [s EXCEPT !.heap = @ \ hs, !.twice = @ \/ ~(hs \subseteq s.heap)]

DrainQueue(s) == [Free(s, s.queue) EXCEPT !.queue = {}]

\* Fault variant: exit_count is not reset.
KeepList(s, f) == [s EXCEPT !.fr[f].mark = 0]

ClearList(s, f) == [s EXCEPT !.fr[f].list = <<>>, !.fr[f].mark = 0]

Teardown(s, f) == DrainQueue(ClearList(Free(s, ToSet(s.fr[f].list)), f))

\* Fault variant: the frame is torn down but not popped.
LeaveUnpopped(s, f) == Teardown(s, f)

Leave(s, f) ==
    Teardown([s EXCEPT !.head = IF @ = f THEN s.fr[f].next ELSE @], f)

Match(type, shelters) == AnyStorm \in shelters \/ type \in shelters

HandlingBegin(s, f) == [s EXCEPT !.handling = f]

HandlingEnd(s, f) == [s EXCEPT !.handling = IF @ = f THEN Null ELSE @]

\* The CALM body, inline after the block's dispatch.
StartCalm(s) ==
    LET f == Top(s).f IN
    Retop([s EXCEPT !.fr[f].calms = Again(@)],
          [Top(s) EXCEPT !.kind = "calm", !.lex = Append(Front(@), Finalize(f, FALSE))])

\* The else branch of the setjmp: pop the frame, then run the first shelter
\* that matches, or close the dispatch and fall through to CALM.
Dispatch(s, f) ==
    LET popped == HandlingBegin(Leave(s, f), f)
    IN IF Match(s.fr[f].type, s.fr[f].shelters)
       THEN Retop([popped EXCEPT !.fr[f].handled = TRUE, !.fr[f].mark = Len(popped.fr[f].list)],
                  [Top(s) EXCEPT !.kind = "handler", !.lex = Append(Front(@), Finalize(f, TRUE))])
       ELSE StartCalm(HandlingEnd(popped, f))

\* plant_throw and plant_throw_obj: the storm goes to the head frame.
Raise(s, type, obj, due) ==
    LET f == s.head IN
    IF f = Null THEN [s EXCEPT !.end = "abort", !.abortDue = due]
    ELSE IF LevelsOf(s, f) = {} THEN [s EXCEPT !.end = "stale"]
    ELSE LET at == CHOOSE k \in LevelsOf(s, f) : \A j \in LevelsOf(s, f) : j <= k
             armed == [s EXCEPT !.fr[f].raised = TRUE, !.fr[f].type = type,
                                !.fr[f].obj = obj, !.fr[f].due = due]
         IN Dispatch(Cut(armed, at), f)

\* Fault variant: a storm whose dispatch ran counts as handled.
PendingNever(s, f) == FALSE

Pending(s, f) == s.fr[f].raised /\ ~s.fr[f].handled

\* plant_calm: leave, and re-raise an unhandled storm: it then does not return.
PlantCalm(s, f) ==
    IF Pending(s, f) THEN Raise(Leave(s, f), s.fr[f].type, s.fr[f].obj, s.fr[f].due)
    ELSE Leave(s, f)

\* The first word a storm object's payload holds is the array magic.
FirstWord(o) == "magic"

\* plant_storm_release: drop the wrapper whose payload's first word is the object.
StormRelease(s, obj) == Free(s, {o \in Objects \cap s.heap : FirstWord(o) = obj})

\* plant_weather_shelter_leave
ShelterLeave(s, f) ==
    LET kept == s.fr[f].mark
        temps == SubSeq(s.fr[f].list, kept + 1, Len(s.fr[f].list))
    IN [Free(s, ToSet(temps)) EXCEPT !.fr[f].list = SubSeq(@, 1, kept), !.fr[f].mark = 0]

\* The frame plant_weather_register_handle registers on.
Target(s) == IF s.handling # Null THEN s.handling ELSE s.head

----------------------------------------------------------------------------
(* Generated exits *)

\* Step i of an exit list: the CALM body of its frame, if it has one there.
ExitStep(s, chain, i, to, gives) ==
    LET e == chain[i]
        lex == Append(SubSeq(chain, 1, i - 1), Finalize(e.f, FALSE))
    IN [Push(s, [Region("exit", e.f, lex) EXCEPT !.chain = chain, !.i = i, !.to = to,
                                                    !.gives = gives])
          EXCEPT !.fr[e.f].calms = IF e.calm THEN Again(@) ELSE @]

\* GIVE, BREAK and CONTINUE: run the exit list, then close the regions above to.
Exit(s, to, gives) ==
    IF Top(s).lex = <<>> THEN Cut(s, to) ELSE ExitStep(s, Top(s).lex, 1, to, gives)

\* The value of a GIVE is evaluated by the return statement, after the list.
AfterExit(s, r) ==
    IF r.gives THEN Retop(s, [r EXCEPT !.kind = "return", !.chain = <<>>, !.i = 0])
    ELSE Cut(s, r.to)

----------------------------------------------------------------------------
(* Program *)

Running == st.end = "" /\ st.ctl # <<>>
InCode ==
    /\ Running /\ Top(st).kind # "return"
    /\ Top(st).kind = "exit" => Top(st).chain[Top(st).i].calm

\* Opening a block inside a running handler or CALM body.
MayOpen ==
    /\ Levels(st, {"handler"}) = {} \/ "dispatch" \in Uses
    /\ Levels(st, {"calm", "exit"}) = {} \/ "calm" \in Uses

\* Besides, the value of a GIVE may call an action ("give").
\*
\* Closing every region above level n by a jump.  The jump may run the exit
\* list of several frames, leave a handler, leave a CALM body, or leave a loop
\* that lies inside the block whose frame it finalizes.
May(n) ==
    /\ Len(Top(st).lex) > 1 => "nested" \in Uses
    /\ (\E k \in Levels(st, {"handler"}) : k > n) => "handler" \in Uses
    /\ (\E k \in Levels(st, {"calm", "exit"}) : k > n) => "calm" \in Uses

Init ==
    st = [ctl |-> <<Region("call", Null, <<>>)>>, fr |-> [f \in Fid |-> NoFrame], used |-> 0,
          head |-> Null, handling |-> Null, heap |-> {}, queue |-> {},
          twice |-> FALSE, end |-> "", abortDue |-> Null]

\* A statement calls an action, or the value of a GIVE does.
Call ==
    /\ InCode \/ (Running /\ Top(st).kind = "return" /\ "give" \in Uses)
    /\ Len(st.ctl) < MaxDepth
    /\ st' = Push(st, Region("call", Null, <<>>))

Loop ==
    /\ InCode /\ Len(st.ctl) < MaxDepth
    /\ st' = Push(st, Region("loop", Null, Top(st).lex))

\* Fault variant: the frame does not link to the one it nests in.
EnterUnlinked(s, f, shelters) ==
    [s EXCEPT !.fr[f] = [NoFrame EXCEPT !.shelters = shelters], !.used = f, !.head = f]

\* WEATHER: plant_weather_enter and the first return of setjmp.
Enter(s, f, shelters) ==
    [s EXCEPT !.fr[f] = [NoFrame EXCEPT !.next = s.head, !.shelters = shelters],
              !.used = f, !.head = f]

Open ==
    /\ InCode /\ Len(st.ctl) < MaxDepth /\ st.used < MaxFrames /\ MayOpen
    /\ \E shelters \in Clauses :
         st' = Push(Enter(st, st.used + 1, shelters),
                    Region("body", st.used + 1, Append(Top(st).lex, Finalize(st.used + 1, TRUE))))

\* A handle the program allocates and registers with the runtime.
Register(h) ==
    /\ InCode /\ h \in Handles \ st.heap
    /\ LET f == Target(st) IN
       st' = IF f # Null /\ LevelsOf(st, f) = {} THEN [st EXCEPT !.end = "stale"]
             ELSE IF f = Null \/ Len(st.fr[f].list) = ExitMax THEN st
             ELSE [st EXCEPT !.heap = @ \cup {h}, !.fr[f].list = Append(@, h)]

\* plant_lease_evict queues an object that no program variable refers to, a
\* registered one too ("leased").
QueueEvicted(h) ==
    /\ Running /\ h \in Handles \ st.queue
    /\ h \in st.heap => "leased" \in Uses
    /\ st' = [st EXCEPT !.heap = @ \cup {h}, !.queue = @ \cup {h}]

\* The frame whose handler should get a storm: the innermost block whose body
\* is running and whose shelters match.
Due(s, type) ==
    LET able == {k \in Levels(s, {"body"}) : Match(type, s.fr[s.ctl[k].f].shelters)}
    IN IF able = {} THEN Null ELSE s.ctl[CHOOSE k \in able : \A j \in able : j <= k].f

\* THROW jumps to the region of the head frame.
ThrowTo == IF st.head = Null THEN Len(st.ctl)
           ELSE LET ls == LevelsOf(st, st.head)
                IN IF ls = {} THEN 0 ELSE (CHOOSE k \in ls : \A j \in ls : j <= k) - 1

MayThrow ==
    /\ (\E k \in Levels(st, {"handler"}) : k > ThrowTo) => "handler" \in Uses
    /\ (\E k \in Levels(st, {"calm", "exit"}) : k > ThrowTo) => "calm" \in Uses

Throw(type) ==
    /\ InCode /\ MayThrow
    /\ st' = Raise(st, type, NoObject, Due(st, type))

ThrowObject(type, o) ==
    /\ InCode /\ MayThrow /\ o \notin st.heap
    /\ st' = Raise([st EXCEPT !.heap = @ \cup {o}], type, o, Due(st, type))

InCall == CHOOSE k \in Levels(st, {"call"}) : \A j \in Levels(st, {"call"}) : j <= k

Give ==
    /\ InCode /\ May(InCall - 1)
    /\ st' = Exit(st, InCall - 1, TRUE)

\* GIVE in the step function of an ASYNC action: it returns without the exit
\* list, also from inside a block ("async").
GiveAsync ==
    /\ InCode /\ May(InCall - 1)
    /\ Top(st).lex # <<>> => "async" \in Uses
    /\ st' = Cut(st, InCall - 1)

\* The innermost loop of the running call, if there is one.
LoopLevels == {k \in Levels(st, {"loop"}) : k > InCall}

LoopInside(k) == \E n \in InCall .. k : st.ctl[n].kind \in Blocks

Jump(after) ==
    /\ InCode /\ LoopLevels # {}
    /\ LET k == CHOOSE k \in LoopLevels : \A j \in LoopLevels : j <= k IN
       /\ May(k) /\ (LoopInside(k) => "loop" \in Uses)
       /\ st' = Exit(st, k - after, FALSE)

Break == Jump(1)
Continue == Jump(0)

\* The end of a call or of a loop.
EndPlain ==
    /\ Running /\ Top(st).kind \in {"call", "loop"}
    /\ st' = Cut(st, Len(st.ctl) - 1)

EndReturn ==
    /\ Running /\ Top(st).kind = "return"
    /\ st' = Cut(st, Top(st).to)

EndBody ==
    /\ Running /\ Top(st).kind = "body"
    /\ st' = StartCalm(st)

EndHandler ==
    /\ Running /\ Top(st).kind = "handler"
    /\ LET f == Top(st).f
           purged == ShelterLeave(StormRelease(st, st.fr[f].obj), f)
       IN st' = StartCalm(HandlingEnd(purged, f))

EndCalm ==
    /\ Running /\ Top(st).kind = "calm"
    /\ LET f == Top(st).f
           left == PlantCalm(st, f)
       IN st' = IF Pending(st, f) THEN left ELSE Cut(left, Len(left.ctl) - 1)

EndExit ==
    /\ Running /\ Top(st).kind = "exit"
    /\ LET r == Top(st)
           left == PlantCalm(st, r.f)
       IN st' = IF Pending(st, r.f) THEN left
                ELSE IF r.i < Len(r.chain)
                THEN ExitStep(Cut(left, Len(left.ctl) - 1), r.chain, r.i + 1, r.to, r.gives)
                ELSE AfterExit(left, r)

Next ==
    \/ Call \/ Loop \/ Open
    \/ \E h \in Handles : Register(h) \/ QueueEvicted(h)
    \/ \E type \in Storms : Throw(type) \/ \E o \in Objects : ThrowObject(type, o)
    \/ Give \/ GiveAsync \/ Break \/ Continue
    \/ EndPlain \/ EndReturn \/ EndBody \/ EndHandler \/ EndCalm \/ EndExit

Spec == Init /\ [][Next]_vars

----------------------------------------------------------------------------
(* Properties *)

\* The frames a throw can reach, from the head.
Active ==
    LET reach[f \in 0 .. MaxFrames] ==
          IF f = Null THEN {} ELSE {f} \cup reach[st.fr[f].next]
    IN reach[st.head]

\* The state is well typed: frames link to older frames, lists fit.
TypeOK ==
    /\ st.head \in 0 .. st.used /\ st.handling \in 0 .. st.used /\ st.used <= MaxFrames
    /\ st.heap \subseteq Handles \cup Objects /\ st.queue \subseteq Handles
    /\ st.end \in {"", "abort", "stale"}
    /\ \A f \in Fid : /\ st.fr[f].next \in 0 .. f - 1
                      /\ ToSet(st.fr[f].list) \subseteq Handles
                      /\ st.fr[f].mark <= Len(st.fr[f].list)
                      /\ Len(st.fr[f].list) <= ExitMax

\* A storm can only be sent to a WEATHER block that is still open: however the
\* blocks are left, no frame of a closed block stays on the active stack.
HeadIsOpen ==
    /\ st.end # "stale"
    /\ Running => \A f \in Active : LevelsOf(st, f) # {}

\* A thrown storm is handled by the innermost running block whose shelters
\* match it, through every CALM and frame between; the program aborts on a
\* storm only when no running block has a shelter for it.
StormsDelivered ==
    /\ \A k \in Levels(st, {"handler"}) : st.fr[st.ctl[k].f].due = st.ctl[k].f
    /\ st.end = "abort" => st.abortDue = Null

Unanswered(f) == st.fr[f].raised /\ ~st.fr[f].handled

\* A block that closed on a storm it did not handle passed it on: the block
\* the storm was due at received it, or it is on its way there.
StormsPassedOn ==
    Running => \A f \in 1 .. st.used :
        Unanswered(f) /\ LevelsOf(st, f) = {} =>
            \/ st.fr[f].due # Null /\ st.fr[st.fr[f].due].raised
            \/ \E g \in 1 .. st.used : /\ Unanswered(g) /\ LevelsOf(st, g) # {}
                                       /\ st.fr[g].due = st.fr[f].due

\* A block's CALM body runs exactly once by the time the block has closed, on
\* every path out of it.
CalmOnce ==
    Running => \A f \in 1 .. st.used :
        st.fr[f].calms <= 1 /\ (LevelsOf(st, f) = {} => st.fr[f].calms = 1)

\* Every registered handle waits on the exit list of a block that is still
\* open, so that leaving the block frees it.
NothingLeaks ==
    Running => \A h \in Handles \cap st.heap :
        h \in st.queue \/ \E f \in 1 .. st.used :
            LevelsOf(st, f) # {} /\ h \in ToSet(st.fr[f].list)

\* No handle is freed twice, through teardown, shelter purge and queue drain.
FreedOnce == ~st.twice

\* A registered handle is freed once: never twice, and never forgotten while
\* the program could still leave a block that owns it.
HandlesFreedOnce == NothingLeaks /\ FreedOnce

\* While the code of a handler runs, handles are registered on the handler's
\* own frame, and outside handlers never on a frame that was left.
HandlerTracked ==
    Running => /\ Top(st).kind = "handler" => st.handling = Top(st).f
               /\ Levels(st, {"handler"}) = {} => st.handling = Null

\* A factory storm lives only while a block still carries it unhandled or
\* runs its handler.
StormsFinalized ==
    Running => \A o \in Objects \cap st.heap :
        \E f \in 1 .. st.used : st.fr[f].obj = o /\ LevelsOf(st, f) # {}
=============================================================================
