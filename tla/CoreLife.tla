----------------------------- MODULE CoreLife -----------------------------
(***************************************************************************)
(* The life of the cores of an attached cache: adding a core, attaching    *)
(* the volume of a core that metadata knows already ("try add"), removing  *)
(* and detaching one (mngt/ocf_mngt_core.c, mngt/ocf_mngt_common.c), the   *)
(* pool of volumes waiting for a cache (mngt/ocf_mngt_core_pool.c), and    *)
(* the part of a load that brings the cores and their dirty lines back     *)
(* after a crash (mngt/ocf_mngt_cache.c).                                  *)
(*                                                                         *)
(* One management operation runs at a time, under the cache lock of module *)
(* MngtCacheLock.  Beside it the users write, the cleaners write dirty     *)
(* lines back and eviction unmaps clean ones.  Besides memory there is the *)
(* cache device: the superblock, with the list of cores, and the mapping   *)
(* of the lines, of which a recovery only looks at the dirty ones.  Every  *)
(* write to either may fail, and the machine may crash between any two     *)
(* steps.                                                                  *)
(***************************************************************************)
EXTENDS Integers, FiniteSets, FiniteSetsExt

CONSTANTS
    Slots,      \* the core ids, 0 .. OCF_CORE_NUM - 1
    Configs,    \* the <<name, volume>> pairs a user may ask to add
    Lines,      \* the cache lines
    MaxFail,    \* a bound on the failures
    MaxCrash    \* a bound on the crashes

None == "none"
NoSlot == -1
NoEntry == <<>>
Devs == {c[2] : c \in Configs}

VARIABLES
    core,       \* the core structures of the cache
    count,      \* conf_meta->core_count
    inactive,   \* ocf_core_inactive_count
    incomplete, \* the bit ocf_cache_state_incomplete
    dirtyClines,\* runtime_meta->dirty_clines of every core
    line,       \* the mapping of every line in memory
    disk,       \* the dirty mappings on the cache device
    sb,         \* the cores the superblock on the device lists
    busy,       \* who holds a line: a write, or a cleaner and how far it is
    evictor,    \* the lines cleaned on behalf of eviction
    frozen,     \* the cleaning counters of the partitions are frozen
    pool,       \* the volumes in the core pool
    up,         \* the cache is running
    op,         \* the management operation in progress
    ahead,      \* ghost: the superblock may list cores differently from memory
    unclean,    \* ghost: lines whose "clean" never reached the device
    torn,       \* ghost: cores a failed try-add took apart
    leaked,     \* ghost: front volumes left open by the removal of a core
    fails, crashes

vars == <<core, count, inactive, incomplete, dirtyClines, line, disk, sb, busy,
          evictor, frozen, pool, up, op, ahead, unclean, torn, leaked, fails,
          crashes>>

counters == <<count, inactive, incomplete>>
data == <<line, disk, busy, evictor, dirtyClines, unclean>>

NoCore == [valid |-> FALSE, added |-> FALSE, opened |-> FALSE, vol |-> "none",
           front |-> "none", detect |-> FALSE, counters |-> FALSE,
           policy |-> FALSE, name |-> None, dev |-> None]
\* (The name and the UUID of a core that is not valid are never read.)
Free == [slot |-> NoSlot, dev |-> None, dirty |-> FALSE]
Idle == [kind |-> "idle", slot |-> NoSlot, step |-> "none", cfg |-> <<None, None>>,
         open |-> FALSE]

\* What the superblock of a running cache says of its cores: name and volume.
Config == [i \in Slots |->
             IF core[i].valid THEN <<core[i].name, core[i].dev>> ELSE NoEntry]

TypeOK ==
    /\ core \in [Slots -> [valid : BOOLEAN, added : BOOLEAN, opened : BOOLEAN,
                           vol : {"none", "init", "open"}, front : {"none", "open"},
                           detect : BOOLEAN, counters : BOOLEAN, policy : BOOLEAN,
                           name : {c[1] : c \in Configs} \cup {None},
                           dev : Devs \cup {None}]]
    /\ count \in 0 .. Cardinality(Slots)
    /\ inactive \in 0 .. Cardinality(Slots) /\ incomplete \in BOOLEAN
    /\ dirtyClines \in [Slots -> Nat]
    /\ line \in [Lines -> [slot : Slots \cup {NoSlot}, dev : Devs \cup {None},
                           dirty : BOOLEAN]]
    /\ disk \in [Lines -> (Slots \X Devs) \cup {NoEntry}]
    /\ sb \in [Slots -> Configs \cup {NoEntry}]
    /\ busy \in [Lines -> {"no", "write", "data", "meta"}]
    /\ evictor \subseteq Lines /\ unclean \subseteq Lines
    /\ frozen \in BOOLEAN /\ up \in BOOLEAN /\ ahead \in BOOLEAN
    /\ pool \subseteq Devs
    /\ op.kind \in {"idle", "add", "try", "remove", "detach", "load"}
    /\ torn \subseteq Slots /\ leaked \subseteq Slots
    /\ fails \in 0 .. MaxFail /\ crashes \in 0 .. MaxCrash

Init ==
    /\ core = [i \in Slots |-> NoCore]
    /\ count = 0 /\ inactive = 0 /\ incomplete = FALSE
    /\ dirtyClines = [i \in Slots |-> 0]
    /\ line = [l \in Lines |-> Free]
    /\ disk = [l \in Lines |-> NoEntry]
    /\ sb = [i \in Slots |-> NoEntry]
    /\ busy = [l \in Lines |-> "no"]
    /\ evictor = {} /\ frozen = FALSE /\ pool = {} /\ up = TRUE
    /\ op = Idle
    /\ ahead = FALSE /\ unclean = {} /\ torn = {} /\ leaked = {}
    /\ fails = 0 /\ crashes = 0

Step(kind, s) == up = (kind # "load") /\ op.kind = kind /\ op.step = s
Goto(s) == op' = [op EXCEPT !.step = s]
Fail == fails < MaxFail /\ fails' = fails + 1

(***************************************************************************)
(* Adding a core.                                                          *)
(***************************************************************************)
FindFirstFree(free) == IF free \ {0} # {} THEN Min(free \ {0}) ELSE Min(free)


\* ocf_mngt_cache_add_core_prepare: the name and the volume must be new.
AddPrepare(c) ==
    LET free == {i \in Slots : ~core[i].valid} IN
    /\ up /\ op = Idle
    /\ \A i \in Slots : core[i].added => core[i].name # c[1]
    /\ \A i \in Slots : core[i].valid => core[i].dev # c[2]
    /\ free # {}
    /\ op' = [Idle EXCEPT !.kind = "add", !.slot = FindFirstFree(free),
                          !.step = "insert", !.cfg = c]
    /\ UNCHANGED <<core, counters, data, sb, frozen, pool, up, ahead, torn, leaked,
                   fails, crashes>>

\* The places where ocf_mngt_cache_add_core_insert may fail, in their order,
\* before the superblock is written; "seq": the sequence numbers ran out.
InsertFails == <<"uuid", "open", "clean", "detect", "counters", "seq">>
Passed(p, q) ==
    \/ p = "ok"
    \/ \E m, n \in DOMAIN InsertFails : InsertFails[m] = q /\ InsertFails[n] = p /\ m < n

\* The core as the insertion leaves it when it stops at p.
Inserted(c, p) ==
    [valid |-> Passed(p, "counters"), added |-> Passed(p, "counters"),
     opened |-> Passed(p, "counters"),
     vol |-> IF Passed(p, "open") THEN "open"
             ELSE IF Passed(p, "uuid") THEN "init" ELSE "none",
     front |-> "none", detect |-> Passed(p, "detect"),
     counters |-> Passed(p, "counters"), policy |-> Passed(p, "clean"),
     name |-> c[1], dev |-> c[2]]

\* _ocf_mngt_cache_add_core_handle_error undoes what the flags of the context
\* say was done.  A try-add sets no flag, and has its detector destroyed.
HandleError(r) ==
    IF op.kind = "add" THEN NoCore ELSE [r EXCEPT !.detect = FALSE]

AddInsert ==
    /\ Step("add", "insert")
    /\ core' = [core EXCEPT ![op.slot] = Inserted(op.cfg, "ok")]
    /\ count' = count + 1
    /\ dirtyClines' = [dirtyClines EXCEPT ![op.slot] = 0]
    /\ Goto("flush")
    /\ UNCHANGED <<inactive, incomplete, line, disk, busy, evictor, unclean, sb,
                   frozen, pool, up, ahead, torn, leaked, fails, crashes>>

AddInsertFails(p) ==
    /\ Step("add", "insert") /\ Fail
    /\ core' = [core EXCEPT ![op.slot] = HandleError(Inserted(op.cfg, p))]
    /\ dirtyClines' = IF Passed(p, "counters")
                      THEN [dirtyClines EXCEPT ![op.slot] = 0] ELSE dirtyClines
    /\ op' = Idle
    /\ UNCHANGED <<counters, line, disk, busy, evictor, unclean, sb, frozen, pool,
                   up, ahead, torn, leaked, crashes>>

\* ocf_metadata_flush_superblock; when it fails the device holds either version.
FlushSb ==
    /\ Step("add", "flush")
    /\ sb' = Config /\ ahead' = FALSE
    /\ Goto("front")
    /\ UNCHANGED <<core, counters, data, frozen, pool, up, torn, leaked, fails, crashes>>

FlushSbFails ==
    /\ Step("add", "flush") /\ Fail
    /\ sb' \in {sb, Config} /\ ahead' = TRUE
    /\ core' = [core EXCEPT ![op.slot] = HandleError(@)]
    /\ count' = count - 1
    /\ op' = Idle
    /\ UNCHANGED <<inactive, incomplete, data, frozen, pool, up, torn, leaked, crashes>>

\* ocf_mngt_cache_add_core_init_front_volume, the last step of both pipelines.
InitFront ==
    /\ Step(op.kind, "front") /\ op.kind \in {"add", "try"}
    /\ core' = [core EXCEPT ![op.slot].front = "open"]
    /\ op' = Idle
    /\ UNCHANGED <<counters, data, sb, frozen, pool, up, ahead, torn, leaked, fails,
                   crashes>>

InitFrontFails ==
    /\ Step(op.kind, "front") /\ op.kind \in {"add", "try"} /\ Fail
    /\ core' = [core EXCEPT ![op.slot] = HandleError(@)]
    /\ count' = IF op.kind = "add" THEN count - 1 ELSE count
    /\ ahead' = (ahead \/ op.kind = "add")
    /\ torn' = IF op.kind = "try" THEN torn \cup {op.slot} ELSE torn
    /\ op' = Idle
    /\ UNCHANGED <<inactive, incomplete, data, sb, frozen, pool, up, leaked, crashes>>

(***************************************************************************)
(* Attaching the volume of an inactive core.                               *)
(***************************************************************************)
TryAddPrepare(c) ==
    /\ up /\ op = Idle
    /\ \E i \in Slots :
         /\ core[i].added /\ core[i].name = c[1]
         /\ ~core[i].opened /\ core[i].dev = c[2]
         /\ op' = [Idle EXCEPT !.kind = "try", !.slot = i, !.step = "insert", !.cfg = c]
    /\ UNCHANGED <<core, counters, data, sb, frozen, pool, up, ahead, torn, leaked,
                   fails, crashes>>

TryAddInsert ==
    /\ Step("try", "insert")
    /\ core' = [core EXCEPT ![op.slot] = [@ EXCEPT !.vol = "open", !.opened = TRUE]]
    /\ inactive' = inactive - 1
    /\ incomplete' = (incomplete /\ inactive' # 0)
    /\ Goto("front")
    /\ UNCHANGED <<count, data, sb, frozen, pool, up, ahead, torn, leaked, fails, crashes>>

\* The volume does not open, or has another size: it is closed again.
TryAddInsertFails ==
    /\ Step("try", "insert") /\ Fail
    /\ core' = [core EXCEPT ![op.slot] = HandleError(@)]
    /\ torn' = torn \cup {op.slot}
    /\ op' = Idle
    /\ UNCHANGED <<counters, data, sb, frozen, pool, up, ahead, leaked, crashes>>

(***************************************************************************)
(* Removing and detaching a core.  Both first freeze the cleaning counters *)
(* of the partitions and wait until eviction cleans no line.               *)
(***************************************************************************)
RemoveStart(i) ==
    /\ up /\ op = Idle /\ core[i].added
    /\ frozen' = TRUE
    /\ op' = [Idle EXCEPT !.kind = "remove", !.slot = i, !.step = "wait"]
    /\ UNCHANGED <<core, counters, data, sb, pool, up, ahead, torn, leaked, fails, crashes>>

DetachStart(i) ==
    /\ up /\ op = Idle /\ core[i].added
    /\ frozen' = TRUE
    /\ op' = [Idle EXCEPT !.kind = "detach", !.slot = i, !.step = "wait"]
    /\ UNCHANGED <<core, counters, data, sb, pool, up, ahead, torn, leaked, fails, crashes>>

WaitCleaning ==
    /\ Step(op.kind, "wait") /\ op.kind \in {"remove", "detach"}
    /\ evictor = {}
    /\ Goto(IF op.kind = "remove" THEN "mapping" ELSE "close")
    /\ UNCHANGED <<core, counters, data, sb, frozen, pool, up, ahead, torn, leaked,
                   fails, crashes>>

OfCore(i) == {l \in Lines : line[l].slot = i}

\* ocf_metadata_sparse_cache_line: the line goes, the count of the dirty lines
\* of the core stays.
CountedDown(l) ==
    IF line[l].dirty THEN [dirtyClines EXCEPT ![line[l].slot] = @ - 1] ELSE dirtyClines
Counted(l) == dirtyClines

\* cache_mngt_core_deinit_attached_meta: line by line, waiting for a locked one.
DropLine(l) ==
    /\ Step("remove", "mapping") /\ l \in OfCore(op.slot)
    /\ busy[l] = "no"
    /\ line' = [line EXCEPT ![l] = Free]
    /\ dirtyClines' = Counted(l)
    /\ UNCHANGED <<core, counters, disk, busy, evictor, unclean, sb, frozen, pool, up,
                   op, ahead, torn, leaked, fails, crashes>>

MappingDone ==
    /\ Step("remove", "mapping") /\ OfCore(op.slot) = {}
    /\ Goto(IF dirtyClines[op.slot] = 0 THEN "remove" ELSE "collision")
    /\ UNCHANGED <<core, counters, data, sb, frozen, pool, up, ahead, torn, leaked,
                   fails, crashes>>

\* ocf_metadata_flush_collision: the whole mapping goes to the device.
FlushCollision ==
    /\ Step("remove", "collision")
    /\ disk' = [l \in Lines |-> IF line[l].dirty THEN <<line[l].slot, line[l].dev>>
                                ELSE NoEntry]
    /\ unclean' = unclean \cap {l \in Lines : line[l].slot # NoSlot}
    /\ Goto("remove")
    /\ UNCHANGED <<core, counters, line, busy, evictor, dirtyClines, sb, frozen, pool,
                   up, ahead, torn, leaked, fails, crashes>>

\* The core stays, with its lines gone from memory and still on the device.
FlushCollisionFails ==
    /\ Step("remove", "collision") /\ Fail
    /\ frozen' = FALSE /\ op' = Idle
    /\ UNCHANGED <<core, counters, data, sb, pool, up, ahead, torn, leaked, crashes>>

\* cache_mngt_core_deinit closes the volumes of an open core.
Deinit(c) == [NoCore EXCEPT !.front = IF c.opened THEN "none" ELSE c.front]

\* cache_mngt_core_remove_from_cache: one inactive core less.
RemoveFromCache(c) ==
    /\ inactive' = IF c.opened THEN inactive ELSE inactive - 1
    /\ incomplete' = (incomplete /\ (c.opened \/ inactive' # 0))

\* _ocf_mngt_cache_remove_core up to the superblock: out of the cleaning policy,
\* of the metadata and of the cache; then the volumes.
RemoveCore ==
    LET i == op.slot IN
    /\ Step("remove", "remove")
    /\ core' = [core EXCEPT ![i] = Deinit(@)]
    /\ count' = count - 1
    /\ RemoveFromCache(core[i])
    /\ leaked' = IF core'[i].front = "open" THEN leaked \cup {i} ELSE leaked
    /\ torn' = torn \ {i}
    /\ Goto("sb")
    /\ UNCHANGED <<data, sb, frozen, pool, up, ahead, fails, crashes>>

RemoveFlushNothing ==
    /\ Step("remove", "sb")
    /\ frozen' = FALSE /\ op' = Idle
    /\ UNCHANGED <<core, counters, data, sb, ahead, pool, up, torn, leaked, fails, crashes>>
RemoveFlushSb ==
    /\ Step("remove", "sb")
    /\ sb' = Config /\ ahead' = FALSE
    /\ frozen' = FALSE /\ op' = Idle
    /\ UNCHANGED <<core, counters, data, pool, up, torn, leaked, fails, crashes>>

RemoveFlushSbFails ==
    /\ Step("remove", "sb") /\ Fail
    /\ sb' \in {sb, Config} /\ ahead' = TRUE
    /\ frozen' = FALSE /\ op' = Idle
    /\ UNCHANGED <<core, counters, data, pool, up, torn, leaked, crashes>>

\* _ocf_mngt_cache_detach_core; an inactive core is refused.
DetachCore ==
    LET i == op.slot IN
    /\ Step("detach", "close")
    /\ IF core[i].opened
       THEN /\ core' = [core EXCEPT ![i] =
                          [@ EXCEPT !.front = "none", !.vol = "init", !.opened = FALSE]]
            /\ inactive' = inactive + 1 /\ incomplete' = TRUE
       ELSE UNCHANGED <<core, inactive, incomplete>>
    /\ frozen' = FALSE /\ op' = Idle
    /\ UNCHANGED <<count, data, sb, pool, up, ahead, torn, leaked, fails, crashes>>

(***************************************************************************)
(* The core pool, a crash, and the load that follows it.                   *)
(***************************************************************************)
PoolAdd(d) ==
    /\ ~up /\ op = Idle /\ d \notin pool
    /\ pool' = pool \cup {d}
    /\ UNCHANGED <<core, counters, data, sb, frozen, up, op, ahead, torn, leaked,
                   fails, crashes>>

\* Memory after a crash, or after a failed load has been cleaned up.
Down ==
    /\ core' = [i \in Slots |-> NoCore]
    /\ count' = 0 /\ inactive' = 0 /\ incomplete' = FALSE
    /\ dirtyClines' = [i \in Slots |-> 0]
    /\ line' = [l \in Lines |-> Free]
    /\ busy' = [l \in Lines |-> "no"]
    /\ evictor' = {} /\ frozen' = FALSE /\ up' = FALSE /\ op' = Idle
    /\ torn' = {} /\ leaked' = {}

Crash ==
    /\ crashes < MaxCrash /\ crashes' = crashes + 1
    /\ Down
    /\ pool' = {}
    /\ UNCHANGED <<disk, sb, ahead, unclean, fails>>

LoadStart(open) ==
    /\ ~up /\ op = Idle
    /\ op' = [Idle EXCEPT !.kind = "load", !.step = "cores", !.open = open]
    /\ core' = [i \in Slots |-> IF sb[i] = NoEntry THEN NoCore
                                ELSE [NoCore EXCEPT !.valid = TRUE, !.name = sb[i][1],
                                                    !.dev = sb[i][2]]]
    /\ count' = Cardinality({i \in Slots : sb[i] # NoEntry})
    /\ UNCHANGED <<inactive, incomplete, data, sb, frozen, pool, up, ahead, torn,
                   leaked, fails, crashes>>

ToLoad == {i \in Slots : core[i].valid /\ ~core[i].added}

\* One core of _ocf_mngt_load_add_cores: its volume comes from the pool, or is
\* opened when the user asked for it, or the core is added as inactive.
LoadAddCore(i, opens) ==
    LET d == core[i].dev
        open == d \in pool \/ opens
    IN
    /\ Step("load", "cores") /\ i \in ToLoad /\ i = Min(ToLoad)
    /\ opens => op.open
    /\ core' = [core EXCEPT ![i] =
                  [@ EXCEPT !.added = TRUE, !.opened = open, !.front = "open",
                            !.vol = IF open THEN "open" ELSE "init",
                            !.counters = TRUE, !.detect = TRUE]]
    /\ pool' = pool \ {d}
    /\ inactive' = IF open THEN inactive ELSE inactive + 1
    /\ incomplete' = (incomplete \/ ~open)
    /\ UNCHANGED <<count, data, sb, frozen, up, op, ahead, torn, leaked, fails, crashes>>

\* A failure in it - no memory, or a volume of another size - ends the load:
\* _ocf_mngt_deinit_added_cores, and the user stops the cache.
LoadFails ==
    /\ Step("load", "cores") /\ ToLoad # {} /\ Fail
    /\ Down
    /\ pool' = pool \ {core[Min(ToLoad)].dev}
    /\ UNCHANGED <<disk, sb, ahead, unclean, crashes>>

StaleMapping == \E l \in Lines : disk[l] # NoEntry /\ ~core[disk[l][1]].valid

\* ocf_mngt_rebuild_metadata: the dirty lines come back, the others are free.
Rebuild ==
    /\ Step("load", "cores") /\ ToLoad = {}
    /\ ~StaleMapping
    /\ line' = [l \in Lines |->
                  IF disk[l] = NoEntry THEN Free
                  ELSE [slot |-> disk[l][1], dev |-> disk[l][2], dirty |-> TRUE]]
    /\ dirtyClines' = [i \in Slots |->
                         Cardinality({l \in Lines : disk[l] # NoEntry /\ disk[l][1] = i})]
    /\ core' = [i \in Slots |-> [core[i] EXCEPT !.policy = @ \/ core[i].valid]]
    /\ up' = TRUE /\ op' = Idle /\ ahead' = FALSE
    /\ UNCHANGED <<counters, disk, busy, evictor, unclean, sb, frozen, pool, torn,
                   leaked, fails, crashes>>

\* "Stale mapping in on-disk metadata - refusing to recover cache."
RebuildRefuses ==
    /\ Step("load", "cores") /\ ToLoad = {} /\ StaleMapping
    /\ Down
    /\ UNCHANGED <<pool, disk, sb, ahead, unclean, fails, crashes>>

(***************************************************************************)
(* The users, the cleaners and eviction.  Nobody uses a core that is being *)
(* removed or detached: its owner closed it for its users before.          *)
(***************************************************************************)
Usable(i) ==
    /\ up /\ core[i].added /\ core[i].opened /\ core[i].front = "open" /\ core[i].detect
    /\ op.slot # i

\* A write-back write makes a line dirty in memory under its lock, and answers
\* when the device knows.
Write(l, i) ==
    /\ Usable(i) /\ busy[l] = "no" /\ line[l].slot \in {NoSlot, i}
    /\ ~line[l].dirty
    /\ line' = [line EXCEPT ![l] = [slot |-> i, dev |-> core[i].dev, dirty |-> TRUE]]
    /\ dirtyClines' = [dirtyClines EXCEPT ![i] = @ + 1]
    /\ busy' = [busy EXCEPT ![l] = "write"]
    /\ UNCHANGED <<core, counters, disk, evictor, unclean, sb, frozen, pool, up, op,
                   ahead, torn, leaked, fails, crashes>>

WriteEnds(l) ==
    /\ busy[l] = "write"
    /\ disk' = [disk EXCEPT ![l] = <<line[l].slot, line[l].dev>>]
    /\ unclean' = unclean \ {l}
    /\ busy' = [busy EXCEPT ![l] = "no"]
    /\ UNCHANGED <<core, counters, line, evictor, dirtyClines, sb, frozen, pool, up, op,
                   ahead, torn, leaked, fails, crashes>>

\* A cleaner of the policy only takes lines of open cores; one that eviction
\* starts holds a counter the removal has to wait for.
CleanStart(l, evicting) ==
    /\ up /\ line[l].dirty /\ busy[l] = "no"
    /\ IF evicting THEN ~frozen ELSE core[line[l].slot].opened
    /\ busy' = [busy EXCEPT ![l] = "data"]
    /\ evictor' = IF evicting THEN evictor \cup {l} ELSE evictor
    /\ UNCHANGED <<core, counters, line, disk, dirtyClines, unclean, sb, frozen, pool,
                   up, op, ahead, torn, leaked, fails, crashes>>

\* The data is on the core: the line is clean in memory, not yet on the device.
CleanData(l) ==
    /\ busy[l] = "data" /\ core[line[l].slot].vol = "open"
    /\ line' = [line EXCEPT ![l].dirty = FALSE]
    /\ dirtyClines' = [dirtyClines EXCEPT ![line[l].slot] = @ - 1]
    /\ busy' = [busy EXCEPT ![l] = "meta"]
    /\ UNCHANGED <<core, counters, disk, evictor, unclean, sb, frozen, pool, up, op,
                   ahead, torn, leaked, fails, crashes>>

\* The volume refuses the data: the line stays dirty.
CleanFails(l) ==
    /\ busy[l] = "data" /\ core[line[l].slot].vol # "open"
    /\ busy' = [busy EXCEPT ![l] = "no"]
    /\ evictor' = evictor \ {l}
    /\ UNCHANGED <<core, counters, line, disk, dirtyClines, unclean, sb, frozen, pool,
                   up, op, ahead, torn, leaked, fails, crashes>>

CleanEnds(l, written) ==
    /\ busy[l] = "meta"
    /\ IF written THEN /\ disk' = [disk EXCEPT ![l] = NoEntry]
                       /\ UNCHANGED <<unclean, fails>>
       ELSE Fail /\ unclean' = unclean \cup {l} /\ UNCHANGED disk
    /\ busy' = [busy EXCEPT ![l] = "no"]
    /\ evictor' = evictor \ {l}
    /\ UNCHANGED <<core, counters, line, dirtyClines, sb, frozen, pool, up, op, ahead,
                   torn, leaked, crashes>>

Evict(l) ==
    /\ up /\ line[l].slot # NoSlot /\ ~line[l].dirty /\ busy[l] = "no"
    /\ line' = [line EXCEPT ![l] = Free]
    /\ UNCHANGED <<core, counters, disk, busy, evictor, dirtyClines, unclean, sb, frozen,
                   pool, up, op, ahead, torn, leaked, fails, crashes>>

LineStep(l) ==
    \/ WriteEnds(l) \/ CleanData(l) \/ CleanFails(l)
    \/ \E w \in BOOLEAN : CleanEnds(l, w)

OpStep ==
    \/ AddInsert \/ (\E p \in {InsertFails[n] : n \in DOMAIN InsertFails} : AddInsertFails(p))
    \/ FlushSb \/ FlushSbFails \/ InitFront \/ InitFrontFails
    \/ TryAddInsert \/ TryAddInsertFails
    \/ WaitCleaning \/ (\E l \in Lines : DropLine(l)) \/ MappingDone
    \/ FlushCollision \/ FlushCollisionFails
    \/ RemoveCore \/ RemoveFlushSb \/ RemoveFlushSbFails \/ DetachCore
    \/ (\E i \in Slots, o \in BOOLEAN : LoadAddCore(i, o)) \/ LoadFails
    \/ Rebuild \/ RebuildRefuses

Next ==
    \/ \E c \in Configs : AddPrepare(c) \/ TryAddPrepare(c)
    \/ \E i \in Slots : RemoveStart(i) \/ DetachStart(i)
    \/ OpStep
    \/ \E d \in Devs : PoolAdd(d)
    \/ Crash \/ (\E o \in BOOLEAN : LoadStart(o))
    \/ \E l \in Lines :
         \/ \E i \in Slots : Write(l, i)
         \/ \E e \in BOOLEAN : CleanStart(l, e)
         \/ LineStep(l)
         \/ Evict(l)

\* The management queue runs the pipelines and every submitted I/O ends.
Fairness == WF_vars(OpStep) /\ \A l \in Lines : WF_vars(LineStep(l))

Spec == Init /\ [][Next]_vars /\ Fairness

-----------------------------------------------------------------------------
\* The counters say what the cores are: core_count counts the valid ones, the
\* inactive counter those added without an open volume, and the cache is
\* "incomplete" exactly while that counter is not zero.
CountsExact ==
    up => /\ count = Cardinality({i \in Slots : core[i].valid})
          /\ inactive = Cardinality({i \in Slots : core[i].added /\ ~core[i].opened})
          /\ incomplete = (inactive # 0)

\* Between operations a core is there as a whole or not at all, whatever failed:
\* a valid one has its statistics, its place in the cleaning policy, its stream
\* detector and, when it is open, its volumes; a slot without one holds no
\* resource.  Excused are the cores a failed try-add took apart and the front
\* volume that the removal of an inactive core leaves open.
WholeCore ==
    up /\ op = Idle =>
      \A i \in Slots :
        LET c == core[i] IN
        /\ c.valid = c.added /\ c.valid = c.counters /\ c.valid = c.policy
        /\ c.valid => c.detect \/ i \in torn
        /\ c.valid => c.vol = (IF c.opened THEN "open" ELSE "init")
        /\ c.opened => c.front = "open" \/ i \in torn
        /\ ~c.valid => ~c.opened /\ c.vol = "none" /\ ~c.detect
        /\ ~c.valid /\ c.front = "open" => i \in leaked

\* No two cores share a name or a volume, through adds, removals and loads.
UniqueCores ==
    \A i, j \in Slots :
      i # j /\ core[i].valid /\ core[j].valid =>
        core[i].name # core[j].name /\ core[i].dev # core[j].dev

\* A mapped line holds data of the volume of its core: no cleaner ever writes
\* the data of a removed core to the one that got its id.  (A line whose "clean"
\* never reached the device may come back wrongly from a recovery.)
OwnData ==
    up => \A l \in Lines :
            line[l].slot # NoSlot /\ l \notin unclean =>
              core[line[l].slot].added /\ core[line[l].slot].dev = line[l].dev

\* At every moment at which the machine may crash the device names, for each of
\* its dirty lines, a core that its superblock lists with the volume the data
\* belongs to, so that a load neither refuses the mapping as stale nor hands the
\* data to another core, even when a removal failed half-way and was repeated.
NoStaleMapping ==
    \A l \in Lines :
      disk[l] # NoEntry /\ l \notin unclean =>
        sb[disk[l][1]] # NoEntry /\ sb[disk[l][1]][2] = disk[l][2]

\* Between operations the superblock lists the cores of memory, unless the write
\* of it, or a step after it, failed.
ConfigSaved == up /\ op = Idle /\ ~ahead => sb = Config

\* Every management operation ends, whatever the cleaners do to the lines it
\* waits for.
OperationEnds == []<>(op = Idle)

\* The cores of a cache as a whole: counters, volumes, names and the stored
\* configuration agree with the cores that are there.
CoresSound == TypeOK /\ CountsExact /\ WholeCore /\ UniqueCores /\ ConfigSaved

\* No core ever gets a mapping, in memory or on the device, of another core's data.
DataOwned == OwnData /\ NoStaleMapping
=============================================================================
