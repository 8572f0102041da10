----------------------------- MODULE MCManagement -----------------------------
(***************************************************************************)
(* The long-running management operations on a running cache, side by      *)
(* side: the life of its cores, and the flushes.  The part named by `part` *)
(* runs, the other one stays in its initial state.                         *)
(***************************************************************************)
EXTENDS CoreLife, TLC

VARIABLES
    part,
    owner, fdirty, req, bg, dirtyFrz, metaFrz, noDirty, mutex, interrupted, fop, fc,
    dropped, bug, events, calls

NamesAndDevices == {<<"n1", "d1">>, <<"n2", "d2">>, <<"n1", "d2">>}

Flushers == {"f1", "f2"}
Cores == {"a", "b"}

FLUSH == INSTANCE Flush WITH
    Size <- 3, Batch <- 2, FlushMin <- 1, FlushMax <- 2,
    Ranges <- {<<1, 3>>, <<1, 1>>},
    Asks <- [f1 |-> {"flush_cache", "purge_cache", "purge_core", "detach_range"},
             f2 |-> {"flush_core"}],
    MaxEvents <- 2, MaxCalls <- 2,
    core <- owner, dirty <- fdirty, op <- fop, lost <- dropped

flushVars == <<owner, fdirty, req, bg, dirtyFrz, metaFrz, noDirty, mutex, interrupted,
               fop, fc, dropped, bug, events, calls>>

MCInit ==
    /\ part \in {"core", "flush"}
    /\ Init
    /\ owner = (0 :> "a" @@ 1 :> "a" @@ 2 :> "b") /\ fdirty = [l \in 0 .. 2 |-> TRUE]
    /\ FLUSH!Init

MCNext ==
    \/ part = "core" /\ Next /\ UNCHANGED <<part, flushVars>>
    \/ part = "flush" /\ FLUSH!Next /\ UNCHANGED <<part, vars>>

(* The fairness of the part that runs. *)
MCFairness ==
    /\ WF_vars(part = "core" /\ OpStep)
    /\ \A l \in Lines : WF_vars(part = "core" /\ LineStep(l))
    /\ WF_flushVars(part = "flush" /\ FLUSH!RequestEnd)
    /\ WF_flushVars(part = "flush" /\ FLUSH!CleanerEnd)
    /\ \A f \in Flushers :
         /\ WF_flushVars(part = "flush" /\ FLUSH!Pipeline(f))
         /\ \A c \in Cores : WF_flushVars(part = "flush" /\ FLUSH!Cleaning(f, c))

MCSpec == MCInit /\ [][MCNext]_<<part, vars, flushVars>> /\ MCFairness

\* Flush: what was flushed is clean, what is purged was clean, no assertion fires,
\* and freezes and mutex belong to who took them.
FlushSound == part = "flush" => FLUSH!FlushSound

\* CoreLife and Flush: every operation on a core and every flush ends.
ManagementEnds == OperationEnds /\ FLUSH!FlushEnds
===============================================================================
