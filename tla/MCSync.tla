------------------------------- MODULE MCSync -------------------------------
(***************************************************************************)
(* What synchronises the management layer and the policies, side by side:  *)
(* the reference counter, the asynchronous lock, the switch of the         *)
(* cleaning policy under a frozen counter, the cleaner with its counted    *)
(* requests, and the promotion policy's table.  The part named by `part`   *)
(* runs, the others stay in an initial state.                              *)
(***************************************************************************)
EXTENDS RefCnt, AsyncLock, TLC

CONSTANTS
    Run,        \* the parts to run
    Lines

VARIABLES
    part,
    policy, ctx, count, froze, attached, disabled, mlock, sw, io, cleaner, leaked,
    bad, bug, fails,
    type, threshold, hashMap, lock, ring, rbPointer, thr, asked, begun, changes,
    map, valid, dirty, data, core, media, latest, writer, locking, fire, req,
    remaining, refs, err, cmpl, owed, early, freed, events, failed

SWITCH == INSTANCE PolicySwitch WITH
    Threads <- {"t1", "t2"}, MaxFail <- 2,
    frozen <- froze, lock <- mlock, run <- cleaner

NHIT == INSTANCE Nhit WITH
    CoreLines <- {"a", "b", "c", "d"}, Hash <- [a |-> 0, b |-> 1, c |-> 0, d |-> 1],
    NumHash <- 2, RbEntries <- 2, Threads <- {"t1", "t2"},
    Requests <- {<<"c">>, <<"d">>, <<"a", "d">>}, Warm <- <<"a", "b">>,
    MaxThreshold <- 3, MaxCalls <- [t1 |-> 1, t2 |-> 2], MaxChanges <- 1,
    calls <- begun

Targets == 0 .. 3
TwoCores == [cl \in Targets |-> IF cl = 2 THEN "b" ELSE "a"]
InOrder == <<0, 1, 2>>
ZeroAndOne == {0, 1}

CLEANER == INSTANCE Cleaner WITH
    Blocks <- ZeroAndOne, CoreLines <- Targets, Spare <- 3, Core <- TwoCores,
    Order <- InOrder, MaxCount <- 2, LowCount <- 1, MaxEvents <- 2, MaxFail <- 1,
    fails <- failed

switchVars == <<policy, ctx, count, froze, attached, disabled, mlock, sw, io, cleaner,
                leaked, bad, bug, fails>>
nhitVars == <<type, threshold, hashMap, lock, ring, rbPointer, thr, asked, begun, changes>>
cleanerVars == <<map, valid, dirty, data, core, media, latest, writer, locking, fire,
                 req, remaining, refs, err, cmpl, owed, early, freed, events, failed>>

(* The cleaner gets a dirty line, a clean one and a half dirty one. *)
CleanerInit ==
    /\ map = [l \in Lines |-> l] /\ valid = (0 :> {0} @@ 1 :> {0} @@ 2 :> {0, 1})
    /\ dirty = (0 :> {0} @@ 1 :> {} @@ 2 :> {0})
    /\ CLEANER!Init
    /\ part # "cleaner" => locking

SyncInit ==
    /\ part \in Run
    /\ Init /\ LockInit /\ SWITCH!Init /\ NHIT!Init /\ CleanerInit

SyncNext ==
    \/ part = "refcnt" /\ Next /\ UNCHANGED <<part, lockVars, switchVars, nhitVars, cleanerVars>>
    \/ part = "lock" /\ LockNext /\ UNCHANGED <<part, vars, switchVars, nhitVars, cleanerVars>>
    \/ part = "switch" /\ SWITCH!Next /\ UNCHANGED <<part, vars, lockVars, nhitVars, cleanerVars>>
    \/ part = "nhit" /\ NHIT!Next /\ UNCHANGED <<part, vars, lockVars, switchVars, cleanerVars>>
    \/ part = "cleaner" /\ CLEANER!Next /\ UNCHANGED <<part, vars, lockVars, switchVars, nhitVars>>

(* The fairness of the part that runs. *)
SyncFairness ==
    /\ \A u \in Users : WF_vars(part = "refcnt" /\ (IncCount(u) \/ IncRecheck(u)))
    /\ \A t \in Threads : WF_vars(part = "refcnt" /\ Dec(t))
    /\ \A m \in Managers : WF_vars(part = "refcnt" /\ Register(m))
    /\ \A c \in Clients : /\ WF_lockVars(part = "lock" /\ Callback(c))
                          /\ WF_lockVars(part = "lock" /\ Unlock(c))
    /\ WF_switchVars(part = "switch" /\ SWITCH!Switch)
    /\ \A t \in {"t1", "t2"} : /\ WF_switchVars(part = "switch" /\ SWITCH!Call(t))
                               /\ WF_nhitVars(part = "nhit" /\ NHIT!Step(t))
    /\ WF_cleanerVars(part = "cleaner" /\ CLEANER!Firing)
    /\ \A i \in 1 .. 3 : WF_cleanerVars(part = "cleaner" /\ CLEANER!Step(i))
    /\ WF_cleanerVars(part = "cleaner" /\ \E b \in {0, 1} : CLEANER!WriteEnd(b))

SyncSpec ==
    /\ SyncInit /\ [][SyncNext]_<<part, vars, lockVars, switchVars, nhitVars, cleanerVars>>
    /\ SyncFairness

\* PolicySwitch: the context is there for everyone who uses it, the one of the
\* active policy, and gone with it.
ContextSound == part = "switch" => SWITCH!ContextSound

\* Nhit: sound chains, slots moved by one thread, used only while the table exists,
\* and counters that requests have earned since the last purge that found them.
RingSound == part = "nhit" => NHIT!RingSound

\* Cleaner: an order cleans what it promised, marks clean only what the core has
\* durably, loses no data, and completes once.
OrderSound == part = "cleaner" => CLEANER!OrderSound

\* All parts: callbacks run, queued clients get the lock, switches, requests and
\* cleaning orders end.
SyncEnds ==
    /\ CallbackRuns /\ Answered /\ SWITCH!SwitchEnds /\ NHIT!RequestEnds
    /\ []<>(part # "cleaner" \/ CLEANER!OrderOver)

\* Cleaner: the master request outlives its requests and completes once.
MasterAlive == part = "cleaner" => CLEANER!MasterAlive
=============================================================================
