--------------------------- MODULE MCAsyncEngine ---------------------------
(***************************************************************************)
(* Two programs on the engine, one behaviour for each: one that cancels,   *)
(* with the constants of the cfg, and one that fills the ready queue past  *)
(* the threshold where the engine changes its mode, and cancels nothing.   *)
(***************************************************************************)
EXTENDS AsyncEngine

CONSTANTS ModeTasks, ModeThreshold, ModePrios

VARIABLE part

Modes == INSTANCE AsyncEngine
         WITH MaxTasks <- ModeTasks, Threshold <- ModeThreshold, Prios <- ModePrios,
              Acts <- {"a"}, Ctxs <- {}, Cancels <- {}

MCInit ==
    \/ part = "cancel" /\ Init
    \/ part = "modes" /\ Modes!Init

Cancelling(A) == part = "cancel" /\ A /\ UNCHANGED part
MCNext ==
    \/ Cancelling(Next)
    \/ part = "modes" /\ Modes!Next /\ UNCHANGED part

mcvars == <<part, vars>>

\* The fairness of FairSpec, for the program that cancels.
MCSpec ==
    /\ MCInit /\ [][MCNext]_mcvars
    /\ WF_mcvars(Cancelling(EndMain))
    /\ WF_mcvars(Cancelling(Stop \/ Pop))
    /\ WF_mcvars(Cancelling(Return))

----------------------------------------------------------------------------

\* In the program that cancels, a task that is live once main drains ends, and
\* its record is freed.
TasksEnd == part = "cancel" => EveryTaskEnds
=============================================================================
