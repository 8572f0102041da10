------------------------------ MODULE CacheLife ------------------------------
(***************************************************************************)
(* The life of one cache instance: attach, load, standby, activation,      *)
(* detach, drain and stop (ocf_mngt_cache.c), together with the requests   *)
(* that keep arriving while the device comes and goes (ocf_request.c,      *)
(* ocf_core.c, cache_engine.c).                                            *)
(*                                                                         *)
(* A management operation is a pipeline: a sequence of steps, one action   *)
(* each, ended by a finish routine that undoes a failed operation from     *)
(* flags recorded on the way.  What a step sets up is a resource: has is   *)
(* the set of resources that exist, flags the set the operation's context  *)
(* remembers.  Requests do not take the cache lock that serialises the     *)
(* operations.  They are held back by four counters that an operation can  *)
(* freeze: metadata (requests that use the cache), d2c (requests that go   *)
(* straight to the core), dirty (lazy writes) and cleaner (cleaning by     *)
(* eviction).  The counter itself is RefCnt; here taking a reference is    *)
(* one step that fails when the counter is frozen.                         *)
(***************************************************************************)
EXTENDS Naturals, Sequences, FiniteSets, SequencesExt

CONSTANTS
    Reqs,       \* request slots
    MaxFail     \* bound: steps that fail (no memory, device errors)

VARIABLES
    st,       \* cache_state bits: subset of {running, standby, stopping, detached}
    has,      \* resources that exist
    frz,      \* how often each counter is frozen
    pt,       \* attach_pt: requests are served in pass-through
    op,       \* the operation in progress
    todo,     \* the steps still to be run
    err,      \* the operation failed
    flags,    \* what the operation's context says must be undone
    closing,  \* close_volume of the standby stop context
    dirty,    \* some cache line is dirty
    flushed,  \* conf_meta->dirty_flushed
    req,      \* state of every request slot
    lost,     \* ghost: resources nobody can release any more
    twice,    \* ghost: resources released when they did not exist
    half,     \* ghost: an activation failed after it had opened the cache
    fails

ctl == <<op, todo, err>>
vars == <<st, has, frz, pt, ctl, flags, closing, dirty, flushed, req, lost,
          twice, half, fails>>

Counters == {"metadata", "d2c", "dirty", "cleaner"}

\* struct ocf_cache_attach_context, the flags: what an operation may set up.
Resources ==
    {"device", "vol", "open", "front", "frontopen", "meta", "conc", "cleaner",
     "promo", "clean", "evict", "cores", "mpool", "pio", "stop"}

\* Requests that hold a reference on each of the counters.
Holders(c) ==
    {r \in Reqs : req[r] \in
        CASE c = "metadata" -> {"new", "pt", "cached", "lazy", "clean", "front",
                                "late", "sunk"}
          [] c = "d2c"      -> {"d2c", "stray", "leak"}
          [] c = "dirty"    -> {"lazy"}
          [] c = "cleaner"  -> {"clean"}}

Frozen(c) == frz[c] > 0
Freeze(c) == frz' = [frz EXCEPT ![c] = @ + 1]
Unfreeze(C) == frz' = [c \in Counters |-> IF c \in C THEN frz[c] - 1 ELSE frz[c]]

Init ==
    /\ st = {"detached"} /\ has = {} /\ pt = FALSE
    /\ frz = [c \in Counters |-> IF c \in {"metadata", "cleaner"} THEN 1 ELSE 0]
    /\ op = "none" /\ todo = <<>> /\ err = FALSE /\ flags = {}
    /\ closing = FALSE /\ dirty = FALSE /\ flushed = TRUE
    /\ req = [r \in Reqs |-> "idle"]
    /\ lost = {} /\ twice = {} /\ half = FALSE /\ fails = 0

-----------------------------------------------------------------------------
(* The pipelines.                                                          *)

AttachSteps ==
    <<"cache_device", "init_properties", "attach_read_properties",
      "check_ram", "prepare_metadata", "test_volume", "update_cores_atomic",
      "init_cleaner", "init_promotion", "init_eviction", "init_metadata",
      "populate_free", "init_services", "zero_superblock", "flush_metadata",
      "discard", "flush", "shutdown_status", "switch_to_pt", "wait_d2c",
      "disable_pt">>

LoadSteps ==
    <<"cache_device", "init_properties", "load_read_properties", "check_ram",
      "prepare_metadata", "test_volume", "load_superblock", "init_cleaner",
      "init_eviction", "init_promotion", "load_add_cores",
      "load_init_structures", "load_metadata", "rebuild_metadata",
      "load_init_cleaning", "shutdown_status", "flush_metadata",
      "shutdown_status", "switch_to_pt", "wait_d2c", "disable_pt">>

StandbyAttachSteps ==
    <<"cache_device", "attach_read_properties", "init_properties",
      "front_volume", "check_ram", "prepare_metadata", "test_volume",
      "init_cleaner", "init_eviction", "init_structures", "populate_free",
      "prepare_mempool", "init_pio", "zero_superblock", "flush_metadata",
      "discard", "flush", "post_init">>

StandbyLoadSteps ==
    <<"cache_device", "front_volume", "init_properties", "check_ram",
      "test_volume", "prepare_metadata", "load_superblock", "load_metadata",
      "init_cleaner", "init_eviction", "prepare_mempool", "init_pio",
      "rebuild_metadata", "post_init">>

ActivateSteps ==
    <<"set_cache_device", "init_properties", "compare_superblock",
      "load_superblock", "check_superblock", "init_properties",
      "test_volume", "init_eviction", "init_promotion", "load_add_cores",
      "init_structures", "rebuild_metadata", "load_init_cleaning",
      "shutdown_status", "switch_to_pt", "wait_d2c", "disable_pt">>

\* Mutant: stop does not wait for the requests.
StopNoWait ==
    <<"freeze_metadata", "check_dirty", "deinit_services",
      "remove_cores", "stop_flush_metadata", "close_volume",
      "deinit_metadata", "deinit_volume", "put_io_queues">>

StopSteps ==
    <<"freeze_metadata", "wait_metadata", "check_dirty", "deinit_services",
      "remove_cores", "stop_flush_metadata", "close_volume",
      "deinit_metadata", "deinit_volume", "put_io_queues">>

StopStandbySteps ==
    <<"stop_prepare", "freeze_metadata", "wait_metadata", "stop_cleaner",
      "standby_close_volume", "deinit_metadata", "standby_deinit_volume",
      "put_io_queues", "deinit_pio">>

DetachSteps ==
    <<"begin_flush", "wait_dirty", "flush_cache", "freeze_metadata",
      "wait_metadata", "freeze_cleaner", "wait_cleaner", "check_dirty",
      "detach_deinit_services", "detach_remove_cores",
      "detach_zero_superblock", "close_volume", "deinit_metadata",
      "deinit_volume">>

StandbyDetachSteps == <<"freeze_metadata", "wait_metadata", "standby_close">>
DrainSteps == <<"freeze_metadata", "wait_metadata">>

CompositeDetachSteps ==
    <<"wait_dirty", "begin_flush", "wait_dirty", "flush_cache",
      "freeze_metadata", "wait_metadata", "detach_cline_range",
      "composite_close">>

-----------------------------------------------------------------------------
(* Steps: what a step of a pipeline may do to the operation and to the     *)
(* resources.                                                              *)

rest == <<st, pt, closing, dirty, flushed, req, half>>

At(s) == todo # <<>> /\ Head(todo) = s
Go == todo' = Tail(todo) /\ UNCHANGED <<op, err, fails>>
Fail ==
    /\ fails < MaxFail /\ fails' = fails + 1
    /\ todo' = <<>> /\ err' = TRUE /\ UNCHANGED op

\* Setting up what already exists loses the older one.
Take(R) ==
    /\ has' = has \cup R /\ flags' = flags \cup R
    /\ lost' = lost \cup (R \cap has) /\ UNCHANGED twice
Release(R) ==
    /\ has' = has \ R /\ twice' = twice \cup (R \ has)
    /\ UNCHANGED <<lost, flags>>

\* A step that sets up the resources of q in turn and fails at the first one
\* that cannot be had; a step that only looks, and may fail.
Acquire(s, q) ==
    /\ At(s)
    /\ \/ Go /\ Take(Range(q))
       \/ \E n \in 0 .. Len(q) - 1 : Fail /\ Take(Range(SubSeq(q, 1, n)))
    /\ UNCHANGED <<rest, frz>>
Check(s) ==
    /\ At(s) /\ (Go \/ Fail)
    /\ UNCHANGED <<rest, frz, has, flags, lost, twice>>
Just(s) == At(s) /\ Go /\ UNCHANGED <<rest, frz, has, flags, lost, twice>>

\* ocf_pipeline_continue_on_zero_refcnt: the next step runs when the frozen
\* counter has drained.
WaitZero(c) ==
    /\ Holders(c) = {} /\ Just(CASE c = "metadata" -> "wait_metadata"
                                 [] c = "d2c"      -> "wait_d2c"
                                 [] c = "dirty"    -> "wait_dirty"
                                 [] c = "cleaner"  -> "wait_cleaner")

-----------------------------------------------------------------------------
(* Setting up: the steps of attach, load, standby and activation.          *)

\* Allocation, volume init, open; a device that is too small fails with all
\* three in place.
CacheDevice ==
    \/ Acquire("cache_device", <<"device", "vol", "open">>)
    \/ /\ At("cache_device") /\ Fail /\ Take({"device", "vol", "open"})
       /\ UNCHANGED <<rest, frz>>
SetCacheDevice == Acquire("set_cache_device", <<"vol", "open">>)
InitProperties == Just("init_properties")
AttachReadProperties == Check("attach_read_properties")
LoadReadProperties == Check("load_read_properties")
CheckRam == Check("check_ram")
PrepareMetadata == Acquire("prepare_metadata", <<"meta", "conc">>)
TestVolume == Check("test_volume")
UpdateCoresAtomic == Just("update_cores_atomic")
InitCleaner == Acquire("init_cleaner", <<"cleaner">>)
InitPromotion == Acquire("init_promotion", <<"promo">>)

\* The flag is set even when the policy could not be set up; its partial work
\* has been undone by then.  Every partition's runtime is allocated anew.
InitEviction ==
    /\ At("init_eviction")
    /\ \/ Go /\ Take({"evict"})
       \/ /\ Fail /\ flags' = flags \cup {"evict"} /\ has' = has \ {"evict"}
          /\ lost' = lost \cup ({"evict"} \cap has) /\ UNCHANGED twice
    /\ UNCHANGED <<rest, frz>>
InitMetadata == Check("init_metadata")
PopulateFree == Check("populate_free")

\* A failure to populate releases the counter but not the policy's data.
InitServices ==
    /\ At("init_services")
    /\ \/ Go /\ Take({"clean"}) /\ flushed' = TRUE
       \/ Fail /\ UNCHANGED <<has, flags, lost, twice, flushed>>
       \/ /\ Fail /\ lost' = lost \cup {"clean"}
          /\ UNCHANGED <<has, flags, twice, flushed>>
    /\ UNCHANGED <<st, pt, closing, dirty, req, half, frz>>
ZeroSuperblock == Check("zero_superblock")
FlushMetadata == Check("flush_metadata")
Discard == Just("discard")
FlushVolume == Just("flush")
ShutdownStatus == Check("shutdown_status")
LoadSuperblock == Check("load_superblock")

\* Cores that had been opened when one fails are closed again.
LoadAddCores == Acquire("load_add_cores", <<"cores">>)
LoadInitStructures == Check("load_init_structures")
LoadMetadata == Check("load_metadata")

\* What the device holds of dirty data becomes known.
RebuildMetadata ==
    /\ At("rebuild_metadata") /\ ((Go /\ dirty' \in BOOLEAN) \/ (Fail /\ UNCHANGED dirty))
    /\ UNCHANGED <<st, pt, closing, flushed, req, half, frz, has, flags, lost, twice>>

\* cleaning_initialized is not recorded: a later failure cannot undo this.
LoadInitCleaning ==
    /\ At("load_init_cleaning")
    /\ \/ Go /\ has' = has \cup {"clean"} /\ lost' = lost \cup ({"clean"} \cap has)
       \/ Fail /\ UNCHANGED <<has, lost>>
       \/ Fail /\ lost' = lost \cup {"clean"} /\ UNCHANGED has
    /\ UNCHANGED <<rest, frz, flags, twice>>
FrontVolume == Acquire("front_volume", <<"front", "frontopen">>)
InitStructures == Check("init_structures")
PrepareMempool == Acquire("prepare_mempool", <<"mpool">>)
InitPioConcurrency == Acquire("init_pio", <<"pio">>)
CompareSuperblock == Check("compare_superblock")
CheckSuperblock == Check("check_superblock")

PostInit ==
    /\ At("post_init") /\ Go /\ Unfreeze({"metadata"})
    /\ UNCHANGED <<rest, has, flags, lost, twice>>

\* New requests use the cache, in pass-through, while those that bypass it
\* drain.
SwitchToPt ==
    /\ At("switch_to_pt") /\ Go /\ pt' = TRUE
    /\ frz' = [frz EXCEPT !.cleaner = @ - 1, !.metadata = @ - 1, !.d2c = @ + 1]
    /\ UNCHANGED <<st, closing, dirty, flushed, req, half, has, flags, lost, twice>>

DisablePt ==
    /\ At("disable_pt") /\ Go /\ pt' = FALSE /\ Unfreeze({"d2c"})
    /\ UNCHANGED <<st, closing, dirty, flushed, req, half, has, flags, lost, twice>>

-----------------------------------------------------------------------------
(* Taking down: the steps of stop, detach and drain.                       *)

FreezeStep(s, c) ==
    /\ At(s) /\ Go /\ Freeze(c)
    /\ UNCHANGED <<rest, has, flags, lost, twice>>
StopWaitMetadataIo == FreezeStep("freeze_metadata", "metadata")
DetachStopCleanerIo == FreezeStep("freeze_cleaner", "cleaner")

ReleaseStep(s, R) == At(s) /\ Go /\ Release(R) /\ UNCHANGED <<rest, frz>>

StopCheckDirty ==
    /\ At("check_dirty") /\ Go /\ flushed' = ~dirty
    /\ UNCHANGED <<st, pt, closing, dirty, req, half, frz, has, flags, lost, twice>>

StopDeinitServices == ReleaseStep("deinit_services", {"cleaner", "clean", "promo"})
DetachDeinitServices ==
    ReleaseStep("detach_deinit_services", {"cleaner", "clean", "promo"})
StopRemoveCores ==
    /\ At("remove_cores") /\ Go /\ has' = has \ {"cores"}
    /\ UNCHANGED <<rest, frz, flags, lost, twice>>
StopFlushMetadata == Just("stop_flush_metadata")
DetachRemoveCores == Just("detach_remove_cores")
DetachZeroSuperblock == Just("detach_zero_superblock")
CloseCacheVolume == ReleaseStep("close_volume", {"open"})
DeinitMetadata ==
    /\ At("deinit_metadata") /\ Go /\ has' = has \ {"evict", "meta", "conc"}
    /\ twice' = twice \cup ({"meta", "conc"} \ has)
    /\ UNCHANGED <<rest, frz, lost, flags>>

\* The front volume lives inside the device and is not closed.
DeinitCacheVolume ==
    /\ At("deinit_volume") /\ Go
    /\ has' = has \ {"vol", "device", "front", "frontopen"}
    /\ lost' = lost \cup (has \cap {"front", "frontopen"})
    /\ twice' = twice \cup ({"vol", "device"} \ has)
    /\ UNCHANGED <<rest, frz, flags>>
PutIoQueues == Just("put_io_queues")

StandbyStopPrepare ==
    /\ At("stop_prepare") /\ Go /\ closing' = ~Frozen("metadata")
    /\ UNCHANGED <<st, pt, dirty, flushed, req, half, frz, has, flags, lost, twice>>
StandbyStopCleaner == ReleaseStep("stop_cleaner", {"cleaner"})
StandbyCloseVolume ==
    ReleaseStep("standby_close_volume", IF closing THEN {"open"} ELSE {})

\* The counter was frozen two steps earlier, so nothing is ever released.
StandbyDeinitVolume ==
    ReleaseStep("standby_deinit_volume",
                IF Frozen("metadata") THEN {} ELSE {"vol", "device"})
StandbyDeinitPio == ReleaseStep("deinit_pio", {"mpool", "pio"})
StandbyDetachClose == ReleaseStep("standby_close", {"open", "vol"})

\* ocf_mngt_cache_flush and its like: fails before anything is frozen, or
\* freezes dirty for its own duration.
BeginFlush ==
    \/ FreezeStep("begin_flush", "dirty")
    \/ /\ At("begin_flush") /\ Fail
       /\ UNCHANGED <<rest, frz, has, flags, lost, twice>>

FlushEnd(ok) ==
    /\ IF ok THEN Go /\ dirty' = FALSE ELSE Fail /\ UNCHANGED dirty
    /\ UNCHANGED <<st, pt, closing, flushed, req, half, has, flags, lost, twice>>

\* The flush of a composite detach goes on to detach the lines: it unfreezes
\* at its end, below.
FlushCache ==
    /\ At("flush_cache")
    /\ \/ FlushEnd(TRUE) /\ (IF op = "detach" THEN Unfreeze({"dirty"}) ELSE UNCHANGED frz)
       \/ FlushEnd(FALSE) /\ Unfreeze({"dirty"})

DetachClineRange ==
    /\ At("detach_cline_range") /\ (Go \/ Fail) /\ Unfreeze({"dirty", "metadata"})
    /\ UNCHANGED <<rest, has, flags, lost, twice>>
CompositeCloseVolume == Check("composite_close")

Step ==
    \/ CacheDevice \/ SetCacheDevice \/ InitProperties
    \/ AttachReadProperties \/ LoadReadProperties \/ CheckRam
    \/ PrepareMetadata \/ TestVolume \/ UpdateCoresAtomic \/ InitCleaner
    \/ InitPromotion \/ InitEviction \/ InitMetadata \/ PopulateFree
    \/ InitServices \/ ZeroSuperblock \/ FlushMetadata \/ Discard
    \/ FlushVolume \/ ShutdownStatus \/ LoadSuperblock \/ LoadAddCores
    \/ LoadInitStructures \/ LoadMetadata \/ RebuildMetadata
    \/ LoadInitCleaning \/ FrontVolume \/ InitStructures
    \/ PrepareMempool \/ InitPioConcurrency \/ CompareSuperblock
    \/ CheckSuperblock \/ PostInit \/ SwitchToPt \/ DisablePt
    \/ StopWaitMetadataIo \/ DetachStopCleanerIo \/ StopCheckDirty
    \/ StopDeinitServices \/ DetachDeinitServices \/ StopRemoveCores
    \/ StopFlushMetadata \/ DetachRemoveCores \/ DetachZeroSuperblock
    \/ CloseCacheVolume \/ DeinitMetadata \/ DeinitCacheVolume
    \/ PutIoQueues \/ StandbyStopPrepare \/ StandbyStopCleaner
    \/ StandbyCloseVolume \/ StandbyDeinitVolume \/ StandbyDeinitPio
    \/ StandbyDetachClose \/ BeginFlush \/ FlushCache
    \/ DetachClineRange \/ CompositeCloseVolume
    \/ \E c \in Counters : WaitZero(c)

-----------------------------------------------------------------------------
(* The operations.  The cache lock admits one at a time.  A cache whose     *)
(* activation failed half-way is followed no further.                      *)

Begin(o, steps) ==
    /\ op = "none" /\ ~half /\ op' = o /\ todo' = steps
    /\ err' = FALSE /\ flags' = {} /\ UNCHANGED fails

\* The pipeline that will stop the cache is created up front, so that stopping
\* cannot run out of memory.
BeginAttach(o, steps) ==
    /\ Begin(o, steps) /\ has' = has \cup {"stop"}
    /\ UNCHANGED <<rest, frz, lost, twice>>

\* load, standby attach and standby load do not ask whether a device or cores
\* are there already: that the caller offers them a fresh cache is assumed.
Fresh == st = {"detached"} /\ "cores" \notin has
Attach == st = {"detached"} /\ BeginAttach("attach", AttachSteps)
LoadCache == Fresh /\ BeginAttach("load", LoadSteps)
StandbyAttach == Fresh /\ BeginAttach("standby_attach", StandbyAttachSteps)
StandbyLoad == Fresh /\ BeginAttach("standby_load", StandbyLoadSteps)

BeginPlain(o, steps) ==
    Begin(o, steps) /\ UNCHANGED <<rest, frz, has, lost, twice>>
StandbyActivate ==
    /\ "standby" \in st /\ Frozen("metadata")
    /\ BeginPlain("activate", ActivateSteps)
StandbyDetach ==
    /\ "standby" \in st /\ ~Frozen("metadata")
    /\ BeginPlain("standby_detach", StandbyDetachSteps)
Drain == "standby" \notin st /\ BeginPlain("drain", DrainSteps)

\* Both freeze dirty before the pipeline starts.
Detach ==
    /\ "standby" \notin st /\ "device" \in has
    /\ Begin("detach", DetachSteps)
    /\ Freeze("dirty") /\ UNCHANGED <<rest, has, lost, twice>>
DetachComposite ==
    /\ "standby" \notin st /\ "device" \in has
    /\ Begin("detach_composite", CompositeDetachSteps)
    /\ Freeze("dirty") /\ UNCHANGED <<rest, has, lost, twice>>

\* Without a device the cache is removed at once; the callers have removed the
\* exported objects by then, so no request is in flight.
Stop ==
    /\ st' = IF "device" \in has THEN (st \cup {"stopping"}) \ {"running"}
             ELSE {"stopping"}
    /\ \/ /\ "device" \in has
          /\ Begin("stop", IF "standby" \in st THEN StopStandbySteps ELSE StopSteps)
          /\ UNCHANGED <<has, lost>>
       \/ /\ "device" \notin has /\ \A r \in Reqs : req[r] = "idle"
          /\ Begin("gone", <<>>) /\ has' = {} /\ lost' = lost \cup (has \ {"cores"})
    /\ UNCHANGED <<pt, closing, dirty, flushed, req, half, frz, twice>>

AddCores ==
    /\ op = "none" /\ ~half /\ "standby" \notin st /\ "cores" \notin has
    /\ has' = has \cup {"cores"}
    /\ UNCHANGED <<rest, frz, ctl, flags, lost, twice, fails>>

-----------------------------------------------------------------------------
(* The finish routines.                                                    *)

Done(O) ==
    /\ op \in O /\ todo = <<>> /\ op' = "none" /\ err' = FALSE
    /\ flags' = {} /\ UNCHANGED <<todo, fails, pt, closing, dirty, flushed, req>>

\* Mutant: a failed attach forgets the concurrency structures.
HandleErrorKeepsConc ==
    /\ has' = has \ ((flags \cup {"stop"}) \ {"conc"})
    /\ twice' = twice \cup (((flags \cup {"stop"}) \ {"evict"}) \ has)
    /\ UNCHANGED <<st, lost>>

\* Undo what the flags name; the eviction policy may be undone twice.
AttachHandleError ==
    /\ has' = has \ (flags \cup {"stop"})
    /\ twice' = twice \cup (((flags \cup {"stop"}) \ {"evict"}) \ has)
    /\ UNCHANGED <<st, lost>>

AttachFinish ==
    /\ Done({"attach", "load", "standby_attach", "standby_load"})
    /\ IF err THEN AttachHandleError
       ELSE /\ st' = IF op \in {"attach", "load"} THEN {"running"} ELSE {"standby"}
            /\ UNCHANGED <<has, lost, twice>>
    /\ UNCHANGED <<frz, half>>

ActivateHandleError ==
    LET R == flags \cap {"promo", "cores", "open", "vol"} IN
    has' = has \ R /\ twice' = twice \cup (R \ has)

\* A new stop pipeline is created last, when requests already use the cache.
ActivateFinish ==
    /\ op = "activate" /\ todo = <<>> /\ op' = "none" /\ err' = FALSE /\ flags' = {}
    /\ \/ err /\ ActivateHandleError /\ UNCHANGED <<st, half, fails>>
       \/ /\ ~err /\ fails < MaxFail /\ fails' = fails + 1
          /\ ActivateHandleError /\ half' = TRUE /\ UNCHANGED st
       \/ /\ ~err /\ st' = {"running"} /\ has' = has \ {"pio", "mpool"}
          /\ twice' = twice \cup ({"pio", "mpool"} \ has) /\ UNCHANGED <<half, fails>>
    /\ UNCHANGED <<todo, pt, closing, dirty, flushed, req, frz, lost>>

StopFinish ==
    /\ op = "stop" /\ todo = <<>> /\ op' = "gone"
    /\ has' = {} /\ lost' = lost \cup (has \ {"stop"})
    /\ UNCHANGED <<rest, todo, err, fails, flags, frz, twice>>

DetachFinish ==
    /\ Done({"detach"}) /\ Unfreeze({"dirty"})
    /\ IF err THEN UNCHANGED <<st, has>> ELSE st' = {"detached"} /\ has' = has \ {"stop"}
    /\ UNCHANGED <<half, lost, twice>>
DetachCompositeFinish ==
    /\ Done({"detach_composite"}) /\ Unfreeze({"dirty"})
    /\ UNCHANGED <<st, has, half, lost, twice>>
StandbyDetachFinish ==
    Done({"standby_detach"}) /\ UNCHANGED <<st, has, frz, half, lost, twice>>
DrainFinish ==
    /\ Done({"drain"}) /\ Unfreeze({"metadata"})
    /\ UNCHANGED <<st, has, half, lost, twice>>

-----------------------------------------------------------------------------
(* Requests.                                                               *)

Becomes(r, s) ==
    /\ req' = [req EXCEPT ![r] = s]
    /\ UNCHANGED <<st, has, frz, pt, ctl, flags, closing, flushed, lost, twice, half>>

\* Exported objects exist once the operation that adds the cores is over and
\* until the cache is stopped.
Exported == "cores" \in has /\ "stopping" \notin st /\ op \notin {"load", "activate"}

\* ocf_req_new: a request uses the cache unless that is frozen.
NewReq(r) ==
    /\ req[r] = "idle" /\ Exported
    /\ Becomes(r, IF Frozen("metadata") THEN "tried" ELSE "new")
    /\ UNCHANGED <<dirty, fails>>

\* ... and goes straight to the core otherwise.  It strays when the cache is in
\* use by then: the reference is taken in a second step, or the cache is only
\* being drained or is about to be stopped.  A request that cannot be allocated keeps its reference.
InUse ==
    \/ ~Frozen("metadata")
    \/ "device" \in has /\ op \in {"drain", "detach_composite", "stop"}
NewReqD2c(r) ==
    /\ req[r] = "tried" /\ UNCHANGED dirty
    /\ \/ Frozen("d2c") /\ Becomes(r, "bug") /\ UNCHANGED fails
       \/ ~Frozen("d2c") /\ Becomes(r, IF InUse THEN "stray" ELSE "d2c") /\ UNCHANGED fails
       \/ ~Frozen("d2c") /\ fails < MaxFail /\ fails' = fails + 1 /\ Becomes(r, "leak")

\* ocf_resolve_effective_cache_mode: pass-through while a device is being
\* attached; a lazy write needs a reference on dirty, and is written through
\* without one.
Submit(r) ==
    /\ req[r] = "new"
    /\ \/ pt /\ Becomes(r, "pt")
       \/ ~pt /\ Becomes(r, "cached")
       \/ ~pt /\ ~Frozen("dirty") /\ Becomes(r, "lazy")
    /\ UNCHANGED <<dirty, fails>>

\* Eviction on behalf of a request has dirty lines cleaned.
CleanForEviction(r) ==
    /\ req[r] = "idle" /\ \E q \in Reqs : req[q] \in {"cached", "lazy"}
    /\ dirty /\ ~Frozen("cleaner") /\ ~Frozen("metadata")
    /\ Becomes(r, "clean") /\ UNCHANGED <<dirty, fails>>

\* I/O to the front volume of a standby cache.  A request that finds the cache
\* activated is refused and keeps its reference.
NewReqCache(r) ==
    /\ req[r] = "idle" /\ "front" \in has /\ "stopping" \notin st
    /\ ~Frozen("metadata")
    /\ \/ "standby" \in st /\ Becomes(r, IF op = "activate" THEN "late" ELSE "front")
       \/ "running" \in st /\ Becomes(r, "sunk")
    /\ UNCHANGED <<dirty, fails>>

Complete(r) ==
    /\ req[r] \in {"pt", "cached", "lazy", "d2c", "stray", "clean", "front", "late"}
    /\ Becomes(r, "idle") /\ UNCHANGED fails
    /\ dirty' \in CASE req[r] = "lazy"  -> {TRUE}
                     [] req[r] = "clean" -> {dirty, FALSE}
                     [] OTHER            -> {dirty}

Operation ==
    \/ Attach \/ LoadCache \/ StandbyAttach \/ StandbyLoad \/ StandbyActivate
    \/ StandbyDetach \/ Drain \/ Detach \/ DetachComposite \/ Stop \/ AddCores
Finish ==
    \/ AttachFinish \/ ActivateFinish \/ StopFinish \/ DetachFinish
    \/ DetachCompositeFinish \/ StandbyDetachFinish \/ DrainFinish
Next ==
    \/ Step \/ Operation \/ Finish
    \/ \E r \in Reqs : \/ NewReq(r) \/ NewReqD2c(r) \/ Submit(r) \/ Complete(r)
                       \/ CleanForEviction(r) \/ NewReqCache(r)

\* Devices answer, the management queue runs its pipelines, and a request that
\* was started is carried to its end.
Fairness ==
    /\ WF_vars(Step) /\ WF_vars(Finish)
    /\ \A r \in Reqs : WF_vars(NewReqD2c(r) \/ Submit(r) \/ Complete(r))
Spec == Init /\ [][Next]_vars /\ Fairness

-----------------------------------------------------------------------------
(* Properties.                                                             *)

\* Every variable stays in its domain; a counter is never frozen more than the
\* operations nest.
TypeOK ==
    /\ st \subseteq {"running", "standby", "stopping", "detached"}
    /\ has \subseteq Resources /\ flags \subseteq Resources
    /\ frz \in [Counters -> 0 .. 2] /\ pt \in BOOLEAN
    /\ req \in [Reqs -> {"idle", "new", "tried", "pt", "cached", "lazy", "d2c",
                         "stray", "leak", "bug", "clean", "front", "late", "sunk"}]
    /\ fails \in 0 .. MaxFail

Cached == Holders("metadata") \ {r \in Reqs : req[r] \in {"late", "sunk"}}

\* A request that holds a reference on the metadata counter finds everything it
\* works on: the open device, the metadata, the concurrency structures and the
\* eviction policy, and, on a standby cache, the pages' locks
\* (ocf_mngt_cache.c:2345, 2169-2197, 4221).  Excused: an activation that fails
\* after it has let requests in, a front-volume request that starts in the middle
\* of an activation ("late"), and one that was refused and does nothing ("sunk").
IoHasDevice ==
    half \/ \A r \in Cached :
        /\ {"device", "vol", "open", "meta", "conc", "evict"} \subseteq has
        /\ req[r] = "front" => {"mpool", "pio"} \subseteq has
        /\ req[r] \in {"cached", "lazy", "clean"} => {"promo", "clean"} \subseteq has

\* Requests that began without a device are drained before any request uses the
\* cache for real: until then requests run in pass-through
\* (_ocf_mngt_attach_switch_to_pt, _ocf_mngt_attach_disable_pt,
\* ocf_mngt_cache.c:2169-2197).  A detach lets the two overlap, on a cache that is
\* about to be dropped.  Requests that strayed are excepted: whoever found the
\* metadata counter frozen and takes its d2c reference when the cache is in use
\* again, or still (ocf_request.c:198-204), overlaps the others freely.
D2cApart ==
    \A r, q \in Reqs : req[r] = "d2c" /\ req[q] \in {"cached", "lazy"} => op = "detach"

\* When an operation is over, however it ended, the counters are frozen exactly
\* as the state of the cache demands, and pass-through is off
\* (ocf_mngt_cache.c:2169, 2199, 4290, 4675; ocf_mngt_flush.c:680).
FreezesBalance ==
    op = "none" /\ ~half =>
        /\ frz["d2c"] = 0 /\ frz["dirty"] = 0 /\ ~pt
        /\ Frozen("cleaner") = ("running" \notin st)
        /\ Frozen("metadata") = ("open" \notin has)
        /\ \A c \in Counters : frz[c] < 2

\* What the detach path asserts with ENV_BUG_ON (ocf_mngt_cache.c:4283): once
\* requests have drained after the flush, nothing has become dirty again.
DetachClean == At("detach_deinit_services") => flushed

\* Whatever step fails, what was set up is released in the end: only the cleaning
\* and eviction policies' data, the front volume and the device of a standby
\* cache can be lost (_ocf_mngt_attach_handle_error, ocf_mngt_cache.c:2199).
\* When the cache is idle, it holds nothing it does not need.
NothingLost ==
    /\ lost \subseteq {"clean", "evict", "front", "frontopen", "device", "vol"}
    /\ op = "none" /\ "detached" \in st => has \subseteq {"cores", "clean"}

\* Nothing is released that is not there, whatever step failed before.
NeverTwice == half \/ twice = {}

\* Every operation ends: the drains it waits for complete.  Excused: a reference
\* that a failed allocation or a refused front-volume request keeps forever.
OperationEnds ==
    []<>(op \in {"none", "gone"} \/ \E r \in Reqs : req[r] \in {"leak", "sunk"})

\* What ocf_req_new asserts with ENV_BUG (ocf_request.c:202-204): when the
\* metadata counter is frozen, the d2c counter is not.
NoBug == \A r \in Reqs : req[r] # "bug"

\* Requests during the operations of ocf_mngt_cache.c: each finds what it works on
\* (except around an activation), those that began without the cache are kept apart
\* from those that use it (except strays, and in a detach), and a detach leaves
\* nothing dirty.
RequestsServed == TypeOK /\ IoHasDevice /\ D2cApart /\ DetachClean

\* The finish routines of ocf_mngt_cache.c undo a failed operation: the counters are
\* frozen exactly as the state demands, nothing is released twice, and nothing is
\* lost but the data of the cleaning and eviction policies, the front volume and
\* the device of a standby cache, which the code does lose.  An activation that
\* fails after it opened the cache (`half') is excused from the first two.
RollbackExact == FreezesBalance /\ NothingLost /\ NeverTwice
=============================================================================
