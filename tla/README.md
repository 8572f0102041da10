# A TLA+ model of the Open CAS Framework

OCF is a block cache in library form: it puts a fast *cache device* in front of
slower *core devices*. This directory holds TLA+ modules that model it, the TLC
configurations that check them, and TLAPS proofs. Paths below are relative to the
library's `src/` (`engine/engine_wb.c`, `utils/utils_alock.c`, ...) unless they
start with `env/` or `inc/`.

## 1. The system

A request submitted to a core's front volume goes to the engine of its cache mode.
The engine locks the hash buckets of its core lines, looks them up in the collision
table, asks the promotion policy whether missing ones may enter, maps them to free
or evicted cache lines, takes the cache line locks and drops the bucket locks; it
does its device I/O under the line locks alone, then changes valid and dirty bits
under the bucket lock again and, where dirty bits changed, waits for the collision
page to be on the cache device before it answers. The cleaner, driven by a cleaning
policy or a flush, takes the same line locks for reading. Management operations are
pipelines of steps under the cache's management lock; they freeze reference counters
and go on when the zero callback runs, and save what changed in the superblock.

| Module | Models | State |
|---|---|---|
| `RefCnt` | `env/posix/ocf_env_refcnt.c` | the three atomics of a counter |
| `Alock` | `utils/utils_alock.c`, `concurrency/ocf_cache_line_concurrency.c` | `access[]`, waiter lists, what each request holds |
| `AsyncLock`, `MngtCacheLock` | `utils/utils_async_lock.c`, `mngt/ocf_mngt_common.c`, the end of `ocf_mngt_cache_stop` | readers, writer, queue; counters of lock and cache |
| `HashTable` | `concurrency/ocf_metadata_concurrency.c`, `metadata/metadata_collision.c`, the prepare path of `engine/engine_common.c` | bucket words, global semaphores, chains |
| `Engine` | `engine/`, `ocf_core.c`, `utils/utils_cache_line.c`, one-line cleaning and page flush | data on both devices, collision table in memory and on the device, requests |
| `Space` | `ocf_space.c`, `utils/utils_user_part.c`, `req_clines` of both policies | partitions, freelist, line and bucket locks |
| `Striping`, `LruList`, `LfuList` | `eviction/ocf_lru.c`, `eviction/ocf_lfu.c`, `utils/utils_generator.c` | doubly linked lists, hot pointers, frequencies |
| `Cleaner` | `utils/utils_cleaner.c` | master and slave requests of an order, volatile device caches |
| `Acp`, `Alru` | `cleaning/acp.c`, `cleaning/alru.c` | chunks and buckets; lists by age |
| `PolicySwitch` | `cleaning/cleaning.c`, `cleaning/cleaning_ops.h`, `ocf_mngt_cache_cleaning_set_policy` of `mngt/ocf_mngt_flush.c` | policy, context, frozen counter |
| `Nhit` | `promotion/` | ring of slots, chains, counters |
| `SeqDetect` | `ocf_seq_detect.c`, `ocf_seq_cutoff.c`, search and insertion of `utils/utils_rbtree.c` | streams of queues and cores, nodes and lists of their trees |
| `Flush` | `mngt/ocf_mngt_flush.c` | flush mutex, containers, dirty lines |
| `CoreLife` | `mngt/ocf_mngt_core.c`, `mngt/ocf_mngt_core_pool.c`, loading of cores | cores in memory, superblock and mappings on the device |
| `CacheLife` | the pipelines of `mngt/ocf_mngt_cache.c`, `ocf_req_new` | resources set up, state bits, frozen counters, requests |
| `Superblock`, `StableConfig` | `metadata/metadata_superblock.c`, `metadata_segment.c`, flush and load of `metadata.c` | two copies of each segment, shutdown status, pending writes |
| `MetadataIo` | `metadata/metadata_io.c`, `metadata_raw.c`, `ocf_mio_concurrency.c` | asynchronous page I/O and its three counters |
| `MetadataLayout` | the size computation of `metadata/metadata.c` | number of lines, sizes of the segments |

## 2. How the modules correspond to the code

An action is one atomic access, one critical section of a spinlock, or one handler
between two waits, with everything the handler changes. Loops under one lock are one
step. Device I/O takes effect when it completes. History variables (named in each
module's header or at their declaration) only record what a property needs.

**RefCnt** has one action per atomic access: `IncReadFreeze`, `IncCount`,
`IncRecheck` are `env_refcnt_inc`; `DecCount` and `DecFire` the decrement and the
compare-and-exchange of `env_refcnt_dec`; `RegisterPin`, `RegisterArm` and a
`DecCount` are `env_refcnt_register_zero_cb`. `calls` and `stale` count the
callbacks of a registration and remember the threads that had brought the counter
to zero before the callback was armed.

**Alock**: `access`, `waiters`, `mutex`, `waiting` are the fields of `struct
ocf_alock`; `locked` and `remaining` the request's `alock_status` and
`lock_remaining`. The fast path (`Fast...`), the slow path under the mutex
(`Slow...`), backing out after a failed allocation (`RemoveEntry`, `SlowFail`) and
the unlock that hands a line over (`UnlockIndex`) interleave at every atomic
operation or waiter-list section.

**AsyncLock** has one action per critical section of `waiters_lock` and one per
callback. **MngtCacheLock** EXTENDS it with the two reference counters of a cache and
the end of a stop: lookup by name, get and put, the three kinds of lock call,
`_ocf_mngt_cache_lock_complete`, the freeze and drain of both counters,
`ocf_async_lock_deinit` and the deallocation. A counter is atomic here, as its
interface promises; RefCnt looks inside that promise.

**HashTable**: `Lookup`, `LookupAgain`, `MapFree`, `TakeVictim`, `Remap`, `MapFails`
are what `ocf_engine_prepare_clines` does between its bucket locks; `LockRd`,
`LockWr`, `Advance` walk the buckets with `_ocf_req_lock_hb`'s macros (`HashNext`,
`GapStart`, `InRange`, ...), which are translated one by one. Managers take all
global semaphores or try to.

**Engine** - the I/O path. State: data on the two devices (`core`, `data`), the
collision table in memory and on the device (`line`, `disk`), the metadata page
in flight (`page`), the line locks (`lock`), `cached_clines` (`cached`) and the
requests. Every handler and completion of the engines is an action:

| Actions | Code |
|---|---|
| `Submit`, `TriesFast`, `EngineOf` | `ocf_core.c`, `cache_engine.c` |
| `PrepareLookup`, `PrepareMap`, `Refresh` | `ocf_engine_prepare_clines`, `ocf_engine_on_resume` |
| `Free`, `Victims`, `Remap` | `ocf_remap_do`, `ocf_lru_req_clines` |
| `EnterFast`, `EnterPt`, `EnterWo`, `EnterWa`, `EnterWi` | the entry of each engine |
| `DoRead`, `HitComplete`, `MissComplete`, `PtComplete`, `WoCoreComplete`, `WoCacheComplete` | read engines |
| `Backfill`, `BackfillUpdateMetadata`, `Invalidate` | `engine_bf.c`, `engine_inv.c` |
| `DoWt`, `WtIoComplete`, `WtFlushMetadata` | `engine_wt.c` |
| `WbComplete`, `WbFlushMetadata` | `engine_wb.c` (write-only mode and the fast path use it too) |
| `WiCoreWrite`, `WiFlushMetadata`, `WiNextPass` | `engine_wi.c` |
| `DiscardCoreComplete`, `DiscardStep`, `DiscardStepDo` | `engine_discard.c` |
| `EnterClean`, `CleanLine`, `CleanUpdateMetadata`, `CleanEnd` | `utils_cleaner.c`, `ocf_engine_clean` |
| `FlushFill`, `FlushComplete` | `_raw_ram_flush_do_asynch`, `metadata_io.c` |
| `Recovered` | `ocf_mngt_rebuild_metadata_handle`, as what a crash now would leave |

What runs under one hold of the bucket lock is one step, and a device I/O takes
effect in the step of its completion (an I/O that fails may or may not have taken
effect). The line lock is the FIFO lock that Alock describes in detail. A request
covers some sectors of one core line. The history variables are `live` (the
values a sector may return: what was settled, and every write submitted since),
`hurt` (sectors a failed write or a known defect has touched) and `drift`.


**Space** takes the lists as sequences (LruList and LfuList show that the pointer
code keeps such lists) and models how concurrent requests get lines: freelist,
overflown partitions, then partitions by priority, with quota and minimum, the
try-lock of line and bucket, and hits that arrive in between. **LruList** and
**LfuList** model each list operation at the level of its pointers; a hit reads
before it locks. `Restored` is the restore after a clean shutdown.

**Cleaner** cuts an order into requests; `Lock`, `LockFails`, `Resume`, the mapping
check, read, core write, core flush, metadata update, metadata flush and cache flush
of each are actions, with users, another cleaner and eviction in between. Data are
version numbers; the core has a volatile cache (`core` and `media`).

**Acp**, **Alru** share an environment: writes in two steps, cleaning by others,
remapping, cores opened and closed, and the policy left and entered. **PolicySwitch**
models who may use the context meanwhile.

**SeqDetect** keeps a detector's tree as the set of its nodes, each with its list of
streams of the same key. `Find` returns what the search of the code can return: a
stream of the list rather than the node, valid or not, and anything less when a node
is out of order (`misplaced`), which a promotion makes it. The detector of a queue is
shared by its threads and by all cores.

**Flush**, **CoreLife**, **CacheLife** and **Superblock** have one action per pipeline
step; a step may fail where the code has an error path, and the finish routines undo
what the context's flags say. CoreLife and Superblock crash between any two steps.
**MetadataIo** has one action per page taken, I/O ended and counter dropped.

The MC modules put components side by side: `part` chooses which one runs. They give
the constants values and restate a component's property under its own name.

## 3. Runs

Twelve runs: nine pass, three end in the violation of a property the code states.

| Run | Modules | What it shows |
|---|---|---|
| `locks` | Alock, HashTable | exact ownership of lines and buckets, no lost wake-up, writers not overtaken, chains sound and changed only under the bucket's lock, no core line mapped twice, every call returns |
| `sync` | RefCnt, AsyncLock, PolicySwitch, Nhit, Cleaner | exact counters, callbacks and completions once, first come first served, contexts there when used, slots of the ring owned by one thread and counters earned (but for a second slot a purge overlooks), only durable data marked clean; everything begun ends |
| `cache` | MngtCacheLock, CacheLife | a freed cache is out of reach and a destroyed lock is entered by nobody; requests find what they work on, failed operations undo what they did, counters are frozen exactly when the state demands it; stops and operations end (exceptions in section 4) |
| `management` | CoreLife, Flush | counters, superblock and mappings agree with the cores through failures and crashes; a flushed range is clean, a purge drops nothing dirty; operations end |
| `cleaning` | Acp, Alru | the policies know exactly the dirty lines, in sound structures; dirty lines are cleaned once writes stop, but for ACP chunks that failed once or were filed as clean (`lag`) |
| `eviction` | LruList, LfuList, Space, SeqDetect | lists exact, restored exactly; the scans of an allocation keep minima and spare lines somebody waits for (successor lines are taken regardless), and it fails only for a reason; streams and cutoffs earned |
| `metadata` | MetadataLayout, Superblock (refines StableConfig), MetadataIo | segments fit and cover; every crash leaves a loadable configuration, old or new, until a flush that follows a failed one starts to write; no completion lost but by a failed allocation or an error read twice |
| `engine` | Engine | coherence, crash safety and mapping invariants of the engines (below) |
| `engine_ends` | Engine | every request is answered and gives its lines back |
| `engine_drop` | Engine | violation: the second pass of a write-invalidate throws away newer dirty data |
| `cleaner_race` | Cleaner | violation: an order completes under its own requests |
| `cache_life_bug` | CacheLife | violation: a request meets two frozen counters |

### The engine properties

* `ReadFresh`: a read returns nothing that was overwritten before the read was
  submitted, nothing of another core line, and no leftover of a cache line.
* `CoherentWhenQuiet`: with no request on a core line, cache and core together
  hold the last data written.
* `CleanMatchesCore`: with no request on it, a clean sector equals the core's.
* `CrashSafe`: in every state, what recovery would find is a value the sector may
  have.
* `MappingStable`: a line somebody waits for, or has just got, keeps its core line.
* `OneLinePerCoreLine`, `DirtyImpliesValid`, `CachedCounted`: the collision table
  and its counter.
* `EveryRequestEnds`: liveness.

Four effects of the code break these properties and are excepted exactly at the
sectors they touch, through the tags of `hurt`:

| Tag | Where | Remark |
|---|---|---|
| `blind` | `ocf_engine_update_req_info` looks at dirty bits only of a `LOOKUP_HIT` entry, and a refreshed entry may still be `LOOKUP_HIT_INVALID` (`engine_common.c:151`) | section 4 |
| `dropped` | second pass of write-invalidate purges dirty sectors (`engine_wi.c:41`) | run `engine_drop` |
| `overwritten` | the cleaner writes a fully valid line back whole, over core data an unlocked write-invalidate has just written (`utils_cleaner.c:458`) | hazard list |
| `unflushed` | an invalidation after a failed cache write is not flushed (`engine_inv.c:43`); a page write failed; an unlocked write is acknowledged while somebody else's purge of the line is still being flushed. Excepted in `CrashSafe` only | hazard list |

The tag `failed` marks sectors whose write was answered with an error: a block
device leaves them undefined. What a sector returns while it is being discarded
is undefined too.

`drift` counts evictions of lines that are mapped but hold no valid sector;
`ocf_lru_invalidate` takes each out of `cached_clines` although the purge that
emptied it already did (`eviction/ocf_lru.c:777`).

### Bounds, and why they are enough

* `locks`: three requests, two lines in both orders give the only cyclic waits;
  `WR` is 4 instead of 255, more than the readers there are. Five core lines hash
  to three buckets, so ranges wrap around once or fully; two are cached, one line is
  free; one manager, two semaphores. `MaxRd` is 1: a second reader has to spin.
* `sync`: a stale decrement needs two users and a manager; the second manager makes
  registrations follow one another, the freezer nests freezes. Four clients of the
  lock give a queue of two behind an owner. Nhit has two slots and two buckets, so
  every insertion displaces a slot and lock pairs cross. The cleaner gets a dirty, a
  clean and a half dirty line of two cores, cut into requests of at most two lines,
  two events of other actors and one failure.
* `cache`: three clients; write mode only, readers are covered in `sync`. Two
  requests and one failing step per behaviour.
* `management`: two core ids, two names and devices that may be confused, one line,
  one failure, one crash; the flush has three lines of two cores, containers of two.
* `cleaning`: three lines; ACP with a core of three lines and one of a single line
  and three buckets; ALRU with two classes.
* `eviction`: four lines for LRU in one user partition (the hot half rebalances both
  ways) and three that move between two; two lines in two partitions and three in one
  for LFU; three for Space with two requests, a hitter and partitions at minimum and
  maximum. SeqDetect has two threads of one queue, two cores, two streams per detector
  and five requests, three of them reads in sequence on one core, one that may take
  the place of the third on the other core, and a write: enough for lists, promotion
  to either core, a stream continued at its core, a promoted stream that is found again
  and a node out of order.
* `metadata`: every device size of 30 to 200 lines; for the superblock two
  configurations, two changes of the mapping, two crashes and one error; three pages,
  two jobs, two workers.
* `engine`: one core line, two sectors (part of a line and all of it), every pair
  of the ten kinds of operation, four cache states, one I/O that may fail; triples
  of requests over two core lines that compete for one cache line; pairs that insert
  one core line into an empty cache. All lines share one metadata page, so page
  flushes collide. `use_submit_io_fast` is on: it adds paths and removes none.
* Bounds that only end behaviours (`MaxCalls`, `MaxEvents`, `MaxChanges`, `MaxFail`,
  `MaxCrash`) are named in the modules. Because of them, and because a cache that was
  freed does nothing more, `CHECK_DEADLOCK FALSE` is set in the runs concerned; that
  nobody waits for ever is what the liveness properties say.

### Fairness

Weak fairness of a thread inside a call (spinlocks and scheduling of the
environment), of queues and devices (`ocf_queue_run` and the volume interface
require it of the user), of pipeline steps and callbacks. An owner of a management
lock gives it back: the caller's duty in `inc/ocf_mngt.h`. Strong fairness is assumed
of the slow path's mutex in Alock, which is held for a bounded number of steps, and
of the unlock call of a cache handle. Submitting requests, starting operations,
failing and crashing are never fair.

## 4. Findings and known defects

The violation runs; `findings` in PROJECT.json quotes the line each disagrees with.

1. `engine_drop`, `NoLostWrite`: the second pass of a write-invalidate purges dirty
   data written after it (`engine/engine_wi.c:41`).
2. `cleaner_race`, `MasterAlive`: a request of a cleaning order is counted only
   after its lock call returned; one that had to wait and was resumed and ended by
   another thread by then completes the order early and frees its master
   (`utils/utils_cleaner.c:645`).
3. `cache_life_bug`, `NoBug`: `ocf_req_new` tests two counters in two steps; between
   them an attach may swap which one is frozen (`ocf_request.c:202`).

These properties were refuted by TLC as well and stay in the modules without a run:

* `Engine.ReadCurrent`: a read that waited as `LOOKUP_HIT_INVALID` overlooks sectors
  that became dirty (`engine/engine_common.c:151`).
* `MngtCacheLock.UnreferencedIsFreed`: a trylock refused because the cache is stopping
  keeps its reference (`mngt/ocf_mngt_common.c`).
* `LfuList.NeverPanics`: reattaching a range puts lines on a freelist that an
  assertion wants elsewhere (`eviction/ocf_lfu.c:1034`).
* `Superblock.ProbeTellsDirty`: `dirty_flushed` is set in two places only, so a probe
  after a crash may call a dirty cache clean (`metadata/metadata.c:2046`).
* `Acp.BackoffKept`: a chunk whose cleaning failed is never tried again once its
  back-off time is over (`cleaning/acp.c:679`).

Other effects are excused by history variables exactly where they bite, so that the
properties hold for everything else:

* `RefCnt.stale`: a decrement delayed between its two atomics fires a callback armed
  later; `RefCnt.Drained`, without the exception, is refuted.
* `Alock`: the undo of a wait on a list shared by several lines (constant `ListOf`; the
  runs use one list per line).
* `MngtCacheLock`: `ocf_mngt_cache_remove` destroys the lock while its stopper still
  owns it (`mngt/ocf_mngt_cache.c:2559`). The stopper's unlock and those of clients
  granted the lock of a stopping cache and refused for it (`mngt/ocf_mngt_common.c`) do
  run on the destroyed lock, in a cache that is still allocated;
  `DeadLockLeft` says that nothing else does. `kept` counts the references that refused
  trylocks never give back.
* `CacheLife`: `"stray"`, a request that found the metadata counter frozen and takes its
  direct-to-core reference when the cache is in use again (`ocf_request.c:198`), and so
  overlaps requests that use the cache; `"late"`, a front-volume request that starts
  while a standby cache is activated; `"sunk"` and `"leak"`, requests refused or failed
  after they took a reference, which they keep, so that an operation waiting for the
  counter does not end; `half`, an activation that failed after it had let requests in,
  followed no further; `lost`, the data of the cleaning and eviction policies, the front
  volume and the device of a standby cache, which some error paths lose.
* `PolicySwitch.leaked`; `CoreLife.unclean` and `torn` (a removal that skips the
  collision flush; a failed try add that destroys the sequential detector).
* `Acp.lag`: `cleaning/acp.c` files a populated chunk by a rule of its own, which may put
  a chunk with dirty lines into the bucket of clean ones; nobody cleans it before its
  next update.
* `Nhit`: a line may get a second slot, whose counter a purge of the line leaves.
* `Superblock.promise`: when a superblock flush fails, its finish routine turns the
  flapping index, also if the flap step had not run (`metadata/metadata_superblock.c:491`);
  the flush after it may then overwrite the live slots, so nothing is claimed from its
  first write until a flush succeeds. After the failure itself, and until then, what is
  on the device still loads. Atomicity (StableConfig) is claimed only up to the failure.
* `MetadataIo.lost`: a flush one of whose ranges or workers could not be started, or a
  worker that reads the error of another between its two looks, never completes.
* `LfuList.raced`; `Space.stolen` (the successor path of an eviction takes a line
  somebody waits for, and any partition's last lines).
* `Engine.hurt` and `drift`, see section 3.

## 5. Proofs

RefCntProofs proves, for any finite sets of users, managers and freezers with
users and managers disjoint (`ThreadsAssumption`):

* `TypeCorrect`, `CountsExact`: the counters are exactly the outstanding
  increments and freezes, so the `ENV_BUG_ON(val < 0)` of `env_refcnt_dec` never
  triggers;
* `CallbackRunsOnce`;
* `DrainedWhenCalled`: unless a decrement was stale, nobody holds a reference when
  the callback has run;
* `FrozenGivesNothing`: an action property.

`DrainedUnlessStale` is not inductive. `IInv` adds that at most one manager is
registering and then the phase is "closing" (`OneRegistration`), and that a thread
which brought the counter to zero while the callback was armed leaves no holder
behind (`ZeroMeansDrained`): with the counter exact, zero means that nobody pins
it, and with the freeze count positive nobody can start to. The lemmas
`FreezerCount` and `PinningCount` carry the cardinality arguments; then there is
one lemma per group of actions.

MetadataLayoutProofs proves, for every device size, page size and entry size
(`LayoutFits`, `LayoutCovers`), that the segments computed for the metadata leave
room for the lines they describe and hold an entry for each of them. The first needs
that a line count the loop settles on was computed from itself (`Settled`).

AsyncLockProofs proves, for any finite set of clients, `LockIsSound` (the counters of
the lock are exactly its owners, a writer is alone, the queue holds exactly the
unanswered calls and its head has somebody to wait for) and `LockIsFair` (nobody is
granted the lock before a client that queued earlier).

MngtCacheLockProofs proves `HandleIsSound` for any finite set of clients one of which
may stop the cache: owners and references are counted exactly (the references that
refused trylocks keep included), only the stopper is told that it owns a stopping
cache, a freed cache is out of everybody's reach, and a destroyed lock has no waiters
and is entered by nobody. Its inductive invariant `HandleInv` adds what the phases of a
stop imply: which counter is frozen, and that the lock is destroyed only when its
counter is zero, so that nobody is inside a lock call, and the cache is freed only
after that.

CountingProofs holds the lemmas on cardinalities that these proofs share: the first
n entries of a queue without repetition are n clients (`PrefixCount`), and one element
in or out of a finite set counts as one (`CountOne`).

Everything else is model-checked only. Liveness under fairness and ENABLED are out of
the prover's reach, and so is induction over data.

## 6. Not modelled

Statistics, logging, getters and registration tables; the device-to-core, flush and
zero engines (one forwarded I/O); readahead; the queues' own lists; composite
volumes; passive updates of a standby cache; the atomic-volume variants of the
metadata, which no engine path of a normal volume takes; the collision page locks of
`ocf_metadata_concurrency.c`. Engine takes a completed write as durable; the volatile
write caches of the devices are in Cleaner (core) and Superblock (cache). PROJECT.json
lists every part with what is left out of it.
