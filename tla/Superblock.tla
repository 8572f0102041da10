----------------------------- MODULE Superblock -----------------------------
(***************************************************************************)
(* The durable metadata of a cache device and the pipelines that write and *)
(* read it: metadata_superblock.c, metadata_segment.c and the flush_all /  *)
(* load_all / recovery pipelines of metadata.c.                            *)
(*                                                                         *)
(* The configuration segments (part_config, core_config, core_uuid) have   *)
(* two slots on the device; the superblock's flapping index selects the    *)
(* live one.  A configuration change writes the spare slots, flushes the   *)
(* disk, and only then writes a superblock that points at them.  The       *)
(* runtime segments (collision, hash, eviction, ...) have one copy; they   *)
(* are trusted at load time only when the superblock says that the cache   *)
(* was shut down cleanly.                                                  *)
(*                                                                         *)
(* The contents of a segment are a version number; a CRC is the version it *)
(* was computed from, so it matches exactly the contents it covers.  The   *)
(* device has a volatile write cache: a write is pending until the next    *)
(* disk flush, and a crash keeps, for every location separately, the       *)
(* durable contents, one of the pending ones, or (segments, which span     *)
(* several pages) a torn mixture.                                          *)
(***************************************************************************)
EXTENDS Naturals, Sequences, FiniteSets, SequencesExt

CONSTANTS
    Flapped,      \* segments with two slots
    Runtime,      \* segments with one copy; "collision" is one of them
    MaxConf,      \* bound: configuration versions ever used
    MaxRun,       \* bound: versions of the mapping
    MaxCrash,     \* bound: power failures
    MaxError      \* bound: failing device requests

VARIABLES
    sb,       \* the superblock in memory (cache->conf_meta)
    conf,     \* version of the configuration in memory, 0 when there is none
    run,      \* version of the mapping that the runtime segments describe
    dirty,    \* some mapped line holds data its core does not have
    disk, view, pend,   \* segments: durable, last written, not yet flushed
    sbdisk, sbview, sbpend,              \* the same for the superblock
    op,       \* management operation in progress: [kind, old]
    todo,     \* the steps of its pipelines still to be run
    promise,  \* ghost: "firm" after a superblock flush that succeeded, "askew" when
              \* the next one failed, "none" when nothing is promised
    fresh,    \* ghost: highest configuration version ever used
    crashes, errors

dev == <<disk, view, pend, sbdisk, sbview, sbpend>>
vars == <<sb, conf, run, dirty, dev, op, todo, promise, fresh, crashes,
          errors>>

Torn == 0      \* contents no CRC matches; also a location never written
Segments == Flapped \cup Runtime
Locs == (Flapped \X {0, 1}) \cup (Runtime \X {0})

\* struct ocf_superblock_config: the fields the properties tell apart.
SuperblockConfig ==
    [magic   : BOOLEAN,            \* magic_number and the validated fields
     status  : {"dirty", "clean"}, \* clean_shutdown
     flushed : BOOLEAN,            \* dirty_flushed
     idx     : {0, 1},             \* flapping_idx
     cores   : Nat,                \* valid_core_bitmap, by version
     csum    : [Segments -> Nat],  \* checksum[]
     own     : BOOLEAN]            \* checksum[sb_config] matches the contents

ZeroSuperblock ==
    [magic |-> FALSE, status |-> "dirty", flushed |-> FALSE, idx |-> 0,
     cores |-> 0, csum |-> [s \in Segments |-> 0], own |-> FALSE]

NextFlappingIdx(b) == (b.idx + 1) % 2

\* (flapping_idx - 1) % 2 on an unsigned integer.
PrevFlappingIdx(b) == (b.idx + 1) % 2

\* Mutant: a configuration segment is rewritten in its live slot.
WriteLive(s, b) == <<s, IF s \in Flapped THEN b.idx ELSE 0>>

\* The place a segment is written to and the place it is read from.
WriteLoc(s, b) == <<s, IF s \in Flapped THEN NextFlappingIdx(b) ELSE 0>>
ReadLoc(s, b) == <<s, IF s \in Flapped THEN b.idx ELSE 0>>

\* The memory contents of a segment.
Contents(s) == IF s \in Flapped THEN conf ELSE run

Attached == conf # 0 /\ op.kind \in {"none", "config"}

-----------------------------------------------------------------------------
(* The pipelines, as sequences of steps.                                   *)

Step(k, s) == [k |-> k, s |-> s]
ForEach(k, S) == LET q == SetToSeq(S) IN [i \in DOMAIN q |-> Step(k, q[i])]

\* Mutant: no disk flush between the slots and the superblock.
FlushSuperblockOnce ==
    ForEach("crc", Flapped) \o ForEach("write", Flapped)
    \o <<Step("flap", "sb"), Step("crcsb", "sb"), Step("writesb", "sb"),
         Step("flush", "sb")>>

\* CRC of the flapped segments, their spare slots, disk flush, flap, CRC of
\* the superblock, the superblock, disk flush.
FlushSuperblock ==
    ForEach("crc", Flapped) \o ForEach("write", Flapped)
    \o <<Step("flush", "slots"), Step("flap", "sb"), Step("crcsb", "sb"),
         Step("writesb", "sb"), Step("flush", "sb")>>

SetShutdownStatus(st) == <<Step("status", st)>> \o FlushSuperblock

FlushAll ==
    ForEach("write", Runtime) \o ForEach("crc", Runtime)
    \o SetShutdownStatus("clean")

\* End of the attach pipeline: zero the superblock, flush, mark dirty.
AttachSteps ==
    <<Step("zero", "sb")>> \o FlushAll \o SetShutdownStatus("dirty")

\* Load pipeline: superblock, metadata, mark dirty, flush, mark dirty.
LoadSteps ==
    <<Step("load", "sb"), Step("load", "all")>>
    \o SetShutdownStatus("dirty") \o FlushAll \o SetShutdownStatus("dirty")

StopSteps == <<Step("checkdirty", "sb")>> \o FlushAll

DetachSteps == <<Step("zero", "sb")>>

\* Steps of the superblock flush: its pipeline has a finish routine that takes
\* the flapping index back when a step failed.
InFlushSuperblock(s) == s.k \in {"flush", "writesb"} \/ s.s \in Flapped
-----------------------------------------------------------------------------
(* Reading the metadata back.                                              *)

\* ocf_metadata_validate_superblock: magic number, fields in range, own CRC.
ValidateSuperblock(b) == b.magic /\ b.own

\* ocf_metadata_check_crc of one segment against the superblock's checksum.
CheckCrc(s, b, m) == m[ReadLoc(s, b)] = b.csum[s] /\ b.csum[s] # Torn

\* _ocf_metadata_validate_core_config: the core bitmap and the core table agree.
ValidateCoreConfig(b, m) == m[ReadLoc("core_config", b)] = b.cores

\* ocf_metadata_load_superblock and its recovery variant.
LoadSuperblockOk(b, m) ==
    /\ ValidateSuperblock(b)
    /\ \A s \in Flapped : CheckCrc(s, b, m)
    /\ ValidateCoreConfig(b, m)

\* ocf_metadata_load_all after a clean shutdown; the recovery path takes the
\* collision segment as it is, without a CRC, and rebuilds the others.
LoadAllOk(b, m) == b.status = "clean" => \A s \in Runtime : CheckCrc(s, b, m)

Loads(b, m) == LoadSuperblockOk(b, m) /\ LoadAllOk(b, m)

\* The configuration a load of the durable contents would find, 0 for none.
Recovered ==
    IF LoadSuperblockOk(sbdisk, disk)
    THEN disk[ReadLoc("core_config", sbdisk)] ELSE 0
-----------------------------------------------------------------------------
NoOp == [kind |-> "none", old |-> 0]

Init ==
    /\ sb = ZeroSuperblock /\ conf = 0 /\ run = 1 /\ dirty = FALSE
    /\ disk = [l \in Locs |-> Torn] /\ view = disk
    /\ pend = [l \in Locs |-> {}]
    /\ sbdisk = ZeroSuperblock /\ sbview = ZeroSuperblock /\ sbpend = {}
    /\ op = NoOp /\ todo = <<>> /\ promise = "none" /\ fresh = 0
    /\ crashes = 0 /\ errors = 0

\* The operations that reach this code; a management operation holds the
\* exclusive management lock, so at most one is in progress.
Begin(kind, steps) ==
    /\ op = NoOp
    /\ op' = [kind |-> kind, old |-> conf]
    /\ todo' = steps

\* ocf_mngt_cache_attach with the force flag: a new, empty cache.
Attach ==
    /\ conf = 0 /\ fresh < MaxConf /\ run < MaxRun
    /\ Begin("attach", AttachSteps)
    /\ fresh' = fresh + 1 /\ conf' = fresh' /\ run' = run + 1 /\ dirty' = FALSE
    /\ sb' = [sb EXCEPT !.cores = fresh', !.flushed = TRUE, !.own = FALSE]
    /\ promise' = "none"
    /\ UNCHANGED <<dev, crashes, errors>>

\* ocf_mngt_cache_load: the superblock is refused when its properties are bad.
Load ==
    /\ conf = 0 /\ ValidateSuperblock(sbview)
    /\ Begin("load", LoadSteps)
    /\ UNCHANGED <<sb, conf, run, dirty, dev, promise, fresh, crashes, errors>>

\* Adding or removing a core, changing a core or partition setting: the
\* configuration changes in memory and the superblock is flushed.
Configure ==
    /\ conf # 0 /\ fresh < MaxConf
    /\ Begin("config", FlushSuperblock)
    /\ fresh' = fresh + 1 /\ conf' = fresh'
    /\ sb' = [sb EXCEPT !.cores = fresh', !.own = FALSE]
    /\ UNCHANGED <<run, dirty, dev, promise, crashes, errors>>

\* ocf_mngt_cache_save: the same flush, nothing changed.
Save ==
    /\ conf # 0
    /\ Begin("config", FlushSuperblock)
    /\ UNCHANGED <<sb, conf, run, dirty, dev, promise, fresh, crashes, errors>>

Stop ==
    /\ conf # 0
    /\ Begin("stop", StopSteps)
    /\ UNCHANGED <<sb, conf, run, dirty, dev, promise, fresh, crashes, errors>>

\* ocf_mngt_cache_detach, after its flush left no dirty line.
Detach ==
    /\ conf # 0 /\ ~dirty
    /\ Begin("detach", DetachSteps)
    /\ promise' = "none"
    /\ UNCHANGED <<sb, conf, run, dirty, dev, fresh, crashes, errors>>

\* I/O changes the mapping while the cache is attached; a line becomes dirty
\* or the last dirty line is cleaned.
MapChange ==
    /\ Attached /\ run < MaxRun
    /\ run' = run + 1 /\ dirty' \in BOOLEAN
    /\ UNCHANGED <<sb, conf, dev, op, todo, promise, fresh, crashes, errors>>

\* ocf_metadata_flush_do_asynch: I/O writes its collision pages in place.
MapFlush ==
    LET l == <<"collision", 0>> IN
    /\ Attached /\ view[l] # run
    /\ view' = [view EXCEPT ![l] = run]
    /\ pend' = [pend EXCEPT ![l] = @ \cup {run}]
    /\ UNCHANGED <<sb, conf, run, dirty, disk, sbdisk, sbview, sbpend, op,
                   todo, promise, fresh, crashes, errors>>
-----------------------------------------------------------------------------
(* The steps.                                                              *)

\* The pipeline moves on; after its last step the operation is over.  Stop
\* and detach leave no cache behind.
Advance ==
    /\ todo' = Tail(todo)
    /\ IF Len(todo) > 1 THEN UNCHANGED <<op, conf>>
       ELSE /\ op' = NoOp
            /\ conf' = IF op.kind \in {"stop", "detach"} THEN 0 ELSE conf

At(k) == todo # <<>> /\ Head(todo).k = k

CalculateCrc ==
    /\ At("crc")
    /\ sb' = [sb EXCEPT !.csum[Head(todo).s] = Contents(Head(todo).s),
                        !.own = FALSE]
    /\ Advance
    /\ UNCHANGED <<run, dirty, dev, promise, fresh, crashes, errors>>

FlushSegment ==
    LET s == Head(todo).s  l == WriteLoc(s, sb) IN
    /\ At("write")
    /\ view' = [view EXCEPT ![l] = Contents(s)]
    /\ pend' = [pend EXCEPT ![l] = @ \cup {Contents(s)}]
    /\ promise' = IF promise = "askew" THEN "none" ELSE promise
    /\ Advance
    /\ UNCHANGED <<sb, run, dirty, disk, sbdisk, sbview, sbpend, fresh, crashes,
                   errors>>

\* ocf_metadata_flush_disk: everything written so far becomes durable.
FlushDisk ==
    /\ At("flush")
    /\ disk' = view /\ pend' = [l \in Locs |-> {}]
    /\ sbdisk' = sbview /\ sbpend' = {}
    /\ promise' = IF Head(todo).s = "sb" THEN "firm" ELSE promise
    /\ Advance
    /\ UNCHANGED <<sb, run, dirty, view, sbview, fresh, crashes, errors>>

Flap ==
    /\ At("flap")
    /\ sb' = [sb EXCEPT !.idx = NextFlappingIdx(sb), !.own = FALSE]
    /\ Advance
    /\ UNCHANGED <<run, dirty, dev, promise, fresh, crashes, errors>>

CalculateCrcSbConfig ==
    /\ At("crcsb")
    /\ sb' = [sb EXCEPT !.own = TRUE]
    /\ Advance
    /\ UNCHANGED <<run, dirty, dev, promise, fresh, crashes, errors>>

WriteSuperblock(b) ==
    /\ sbview' = b /\ sbpend' = sbpend \cup {b}
    /\ Advance
    /\ UNCHANGED <<sb, run, dirty, disk, view, pend, sbdisk, promise, fresh,
                   crashes, errors>>

FlushSbConfig == At("writesb") /\ WriteSuperblock(sb)

\* ocf_metadata_zero_superblock: written, not flushed.
ZeroSb == At("zero") /\ WriteSuperblock(ZeroSuperblock)

SetStatus ==
    /\ At("status")
    /\ sb' = [sb EXCEPT !.status = Head(todo).s, !.magic = TRUE, !.own = FALSE]
    /\ Advance
    /\ UNCHANGED <<run, dirty, dev, promise, fresh, crashes, errors>>

\* ocf_mngt_cache_stop_check_dirty.
CheckDirty ==
    /\ At("checkdirty")
    /\ sb' = [sb EXCEPT !.flushed = ~dirty, !.own = FALSE]
    /\ Advance
    /\ UNCHANGED <<run, dirty, dev, promise, fresh, crashes, errors>>

\* A failed attach or load gives the device up; a stop ends even when its
\* flush failed; a failed configuration change is rolled back in memory (add
\* core) or kept (setters, remove core).  When a step of the superblock flush
\* failed, its finish routine moves the flapping index whether or not the
\* flap step had run.
Abort ==
    /\ todo' = <<>> /\ op' = NoOp
    /\ conf' \in (IF op.kind = "config" THEN {op.old, conf} ELSE {0})
    /\ sb' = [sb EXCEPT !.own = FALSE,
                !.cores = conf',
                !.idx = IF InFlushSuperblock(Head(todo))
                        THEN PrevFlappingIdx(sb) ELSE @]
    /\ promise' = IF ~InFlushSuperblock(Head(todo)) THEN promise
                  ELSE IF promise = "firm" THEN "askew" ELSE "none"

\* ocf_metadata_load_superblock, from what the device returns.
LoadSuperblock ==
    /\ At("load") /\ Head(todo).s = "sb"
    /\ \/ /\ LoadSuperblockOk(sbview, view)
          /\ sb' = sbview
          /\ conf' = view[ReadLoc("core_config", sbview)]
          /\ todo' = Tail(todo)
          /\ promise' = IF promise = "askew" /\ sbpend = {} THEN "firm" ELSE promise
          /\ UNCHANGED op
       \/ ~LoadSuperblockOk(sbview, view) /\ Abort
    /\ UNCHANGED <<run, dirty, dev, fresh, crashes, errors>>

\* ocf_metadata_load_all or ocf_metadata_load_recovery.
LoadAll ==
    /\ At("load") /\ Head(todo).s = "all"
    /\ \/ LoadAllOk(sb, view) /\ Advance /\ UNCHANGED <<sb, promise>>
       \/ ~LoadAllOk(sb, view) /\ Abort
    /\ UNCHANGED <<run, dirty, dev, fresh, crashes, errors>>

\* A device request of the current step fails.  A write that reports an error
\* may have reached the device (wholly or torn) or not.
FailingStep(s) == s.k \in {"write", "flush", "writesb", "zero", "load"}

IoError ==
    LET s == Head(todo)  l == WriteLoc(s.s, sb) IN
    /\ todo # <<>> /\ errors < MaxError /\ FailingStep(s)
    /\ errors' = errors + 1
    /\ IF s.k = "zero" /\ op.kind = "detach"     \* logged, detach goes on
       THEN Advance /\ UNCHANGED <<sb, promise>>
       ELSE Abort
    /\ \/ UNCHANGED dev
       \/ /\ s.k = "write"
          /\ \E v \in {Contents(s.s), Torn} :
                /\ view' = [view EXCEPT ![l] = v]
                /\ pend' = [pend EXCEPT ![l] = @ \cup {v}]
          /\ UNCHANGED <<disk, sbdisk, sbview, sbpend>>
       \/ /\ s.k \in {"writesb", "zero"}
          /\ sbview' = IF s.k = "zero" THEN ZeroSuperblock ELSE sb
          /\ sbpend' = sbpend \cup {sbview'}
          /\ UNCHANGED <<disk, view, pend, sbdisk>>
    /\ UNCHANGED <<run, dirty, fresh, crashes>>

\* Power fails.  Every location keeps its durable contents, one of its pending
\* ones or a torn mixture, the superblock (one page) is never torn; memory is
\* lost.
Survives(l) ==
    {disk[l]} \cup pend[l] \cup (IF pend[l] = {} THEN {} ELSE {Torn})

Remains ==
    LET Extend(l, images) == {[m EXCEPT ![l] = v] : m \in images, v \in Survives(l)}
    IN  FoldSet(Extend, {disk}, Locs)

Crash ==
    /\ crashes < MaxCrash
    /\ crashes' = crashes + 1
    /\ disk' \in Remains
    /\ view' = disk' /\ pend' = [l \in Locs |-> {}]
    /\ sbdisk' \in {sbdisk} \cup sbpend
    /\ sbview' = sbdisk' /\ sbpend' = {}
    /\ sb' = ZeroSuperblock /\ conf' = 0 /\ op' = NoOp /\ todo' = <<>>
    /\ UNCHANGED <<run, dirty, promise, fresh, errors>>

PipelineStep ==
    CalculateCrc \/ FlushSegment \/ FlushDisk \/ Flap \/ CalculateCrcSbConfig
    \/ FlushSbConfig \/ ZeroSb \/ SetStatus \/ CheckDirty \/ LoadSuperblock
    \/ LoadAll

Next ==
    \/ Attach \/ Load \/ Configure \/ Save \/ Stop \/ Detach
    \/ MapChange \/ MapFlush
    \/ PipelineStep \/ IoError \/ Crash

Spec == Init /\ [][Next]_vars
-----------------------------------------------------------------------------
TypeOK ==
    /\ sb \in SuperblockConfig /\ {sbdisk, sbview} \cup sbpend \subseteq SuperblockConfig
    /\ conf \in 0 .. MaxConf /\ run \in 1 .. MaxRun /\ dirty \in BOOLEAN
    /\ disk \in [Locs -> Nat] /\ view \in [Locs -> Nat]
    /\ pend \in [Locs -> SUBSET Nat]
    /\ op.kind \in {"none", "attach", "load", "config", "stop", "detach"}
    /\ todo = <<>> <=> op = NoOp

\* Crash recovery: once a superblock flush has succeeded, and until the cache
\* is reformatted, whatever survives a power failure at any point of any
\* operation (a second one during the recovery of the first included) passes
\* every check of the load pipeline.  A flush that reports an error breaks
\* nothing by itself; nothing is promised from the moment the flush after it
\* starts to write until a flush succeeds, because the finish routine of the
\* failed one turned the flapping index also when the flap step had not run, and
\* the flush after it may then overwrite the live slots.
Recoverable == promise # "none" => Loads(sbdisk, disk)

\* A device that says "clean shutdown" and passes the checks of a clean load
\* holds the mapping as it was when the cache stopped, in every runtime
\* segment: the flag is never durable before the segments are, and is taken
\* back before the mapping can change.  It ends where Recoverable does.
CleanIsTrue ==
    promise # "none" /\ conf = 0 /\ ValidateSuperblock(sbdisk)
        /\ sbdisk.status = "clean" /\ LoadAllOk(sbdisk, disk)
    => \A s \in Runtime : disk[<<s, 0>>] = run

\* The stored configuration changes atomically (module StableConfig), under
\* the mapping: what a load of the durable contents finds is the stored value.
\* A failed flush withdraws the promise, for either configuration may be stored
\* then, until a flush succeeds or the device is loaded again.
Stable == INSTANCE StableConfig WITH
            stored <- Recovered,
            goal <- IF conf = 0 THEN Recovered ELSE conf,
            promise <- promise = "firm"

AtomicConfig == Stable!Spec

\* What the probe status is documented to tell about a device that was shut
\* down cleanly: cache_dirty, "Cache contains dirty data".
ProbeTellsDirty ==
    promise = "firm" /\ conf = 0 /\ ValidateSuperblock(sbdisk)
        /\ sbdisk.status = "clean" /\ dirty
    => ~sbdisk.flushed

\* The device after a power failure: its configuration can be loaded, and a clean
\* shutdown mark vouches for the runtime segments, except between the start of a
\* flush that follows a failed one and the next success.
SuperblockSound == TypeOK /\ Recoverable /\ CleanIsTrue
=============================================================================
