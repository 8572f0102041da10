--------------------------------- MODULE Acp ---------------------------------
(* The "aggressive" cleaning policy of src/src/cleaning/acp.c.  Every core is
   cut into chunks of consecutive lines.  A chunk counts its dirty lines and
   sits in a bucket that stands for a range of that count; the cleaner takes
   the chunks of the fullest bucket first, scans the lines of one chunk and
   flushes the dirty ones it can lock.

   Requests write, map and evict lines while the cleaner scans, other cleaners
   clean lines behind its back, cores are detached, removed and added, and the
   policy is left and entered again while requests run: everything a request
   does to the policy is skipped while the cleaner's counter is frozen
   (cleaning_ops.h), and the policy has to catch up afterwards.               *)
EXTENDS Integers, Sequences, FiniteSets, SequencesExt, FiniteSetsExt

CONSTANTS
    Lines,           \* the cache lines
    CoreSize,        \* the cores, and the number of lines of each of them
    LinesPerChunk,   \* ACP_CHUNK_SIZE / ocf_line_size(cache)
    Percent,         \* ACP_BUCKET_DEFAULTS
    FlushMax,        \* config->flush_max_buffers
    MaxWrites,       \* bound: writes of the requests
    MaxChanges,      \* bound: cores detached, removed, policies left
    MaxErrors        \* bound: flushes that fail

VARIABLES
    mapped,          \* the core line in every cache line, or None
    dirty,           \* the dirty bit of every cache line
    held,            \* the lock of every cache line: "none", "wr", "rd"
    meta,            \* acp_meta->dirty of every cache line
    chunk,           \* chunk_info of the cores that were added to the policy
    bucket,          \* bucket_info[..].chunk_list
    added, opened,   \* the cores of the cache, and those that are opened
    mode,            \* "load", "off", "update", "run" or "panic"
    todo,            \* core lines whose hash bucket update has yet to visit
    state, flush,    \* acp->state and acp->flush
    pc,              \* where the cleaner is in perform_cleaning
    lag,             \* ghost: chunks in the bucket populate put them in
    bug,             \* the ENV_BUG_ON that fired, or "no"
    writes, changes, errors

vars == <<mapped, dirty, held, meta, chunk, bucket, added, opened, mode, todo,
          state, flush, pc, lag, bug, writes, changes, errors>>
policy == <<meta, chunk, bucket, lag, bug>>
cleaner == <<state, flush, pc>>
bounds == <<writes, changes, errors>>

None == <<>>
Cores == DOMAIN CoreSize
CoreLines == UNION {{c} \X (0 .. CoreSize[c] - 1) : c \in Cores}
Buckets == 0 .. Len(Percent) - 1

(* The thresholds cleaning_policy_acp_initialize computes. *)
Threshold(b) == (LinesPerChunk * Percent[b + 1]) \div 100

NumChunks(c) == (CoreSize[c] + LinesPerChunk - 1) \div LinesPerChunk
ChunksOf(c) == {c} \X (0 .. NumChunks(c) - 1)

(* _acp_get_chunk *)
GetChunk(cl) == <<cl[1], cl[2] \div LinesPerChunk>>

Idle == [chunk |-> None, iter |-> 0, busy |-> FALSE]
NoFlush == [chunk |-> None, data |-> <<>>]

------------------------------------------------------------------------------
(* The policy's structures as an image [meta, chunk, bucket, lag, bug].       *)

Image == [meta |-> meta, chunk |-> chunk, bucket |-> bucket, lag |-> lag, bug |-> bug]

Store(m) ==
    /\ meta' = m.meta /\ chunk' = m.chunk /\ bucket' = m.bucket
    /\ lag' = m.lag /\ bug' = m.bug

Without(m, x) == [b \in Buckets |-> SelectSeq(m.bucket[b], LAMBDA y : y # x)]
ToTail(m, x, b) ==
    [m EXCEPT !.chunk[x].bucket = b, !.bucket = [Without(m, x) EXCEPT ![b] = Append(@, x)]]
ToHead(m, x, b) ==
    [m EXCEPT !.chunk[x].bucket = b, !.bucket = [Without(m, x) EXCEPT ![b] = <<x>> \o @]]

UpdateBucketStrictly(m, x) ==
    LET b == m.chunk[x].bucket
        n == m.chunk[x].dirty
        t == [m EXCEPT !.lag = @ \ {x}]
    IN  IF n > Threshold(b) /\ b # Len(Percent) - 1 THEN ToTail(t, x, b + 1)
        ELSE IF b > 0 /\ n < Threshold(b - 1) THEN ToHead(t, x, b - 1)
        ELSE t

(* _acp_update_bucket: one bucket up, to its tail, or one down, to its head. *)
UpdateBucket(m, x) ==
    LET b == m.chunk[x].bucket
        n == m.chunk[x].dirty
        t == [m EXCEPT !.lag = @ \ {x}]
    IN  IF n > Threshold(b)
        THEN IF b = Len(Percent) - 1 THEN [t EXCEPT !.bug = "bucket"]
             ELSE ToTail(t, x, b + 1)
        ELSE IF b > 0 /\ n <= Threshold(b - 1) THEN ToHead(t, x, b - 1)
        ELSE t

(* cleaning_policy_acp_set_hot_cache_line *)
SetHot(m, l) ==
    LET x == GetChunk(mapped[l])
    IN  UpdateBucket(IF m.meta[l] THEN m
                     ELSE [m EXCEPT !.meta[l] = TRUE, !.chunk[x].dirty = @ + 1], x)

(* cleaning_policy_acp_purge_block *)
PurgeBlock(m, l) ==
    LET x == GetChunk(mapped[l])
    IN  UpdateBucket(IF m.meta[l]
                     THEN [m EXCEPT !.meta[l] = FALSE, !.chunk[x].dirty = @ - 1]
                     ELSE m, x)

(* cleaning_policy_acp_init_cache_block *)
InitCacheBlock(m, l) == [m EXCEPT !.meta[l] = FALSE]

(* cleaning_policy_acp_add_core: the chunks, all clean, one after the other to
   the head of bucket 0.                                                      *)
AddCore(m, c) ==
    IF \E x \in DOMAIN m.chunk : x[1] = c THEN [m EXCEPT !.bug = "added"]
    ELSE LET fresh == [dirty |-> 0, bucket |-> 0, until |-> "unset"]
             ids == [i \in 1 .. NumChunks(c) |-> <<c, NumChunks(c) - i>>]
         IN  [m EXCEPT !.chunk = [x \in DOMAIN @ \cup ChunksOf(c) |->
                                     IF x[1] = c THEN fresh ELSE @[x]],
                       !.bucket[0] = ids \o @]

(* cleaning_policy_acp_remove_core: what becomes of the tables. *)
RemoveCore(m, c) ==
    IF \A x \in DOMAIN m.chunk : x[1] # c THEN [m EXCEPT !.bug = "removed"]
    ELSE [m EXCEPT !.chunk = [x \in {y \in DOMAIN @ : y[1] # c} |-> @[x]],
                   !.bucket = [b \in Buckets |->
                                  SelectSeq(@[b], LAMBDA y : y[1] # c)],
                   !.lag = {x \in @ : x[1] # c}]

(* ... and of the cleaner's position, if it is in a chunk of the core. *)
StateWithout(c) == IF state.busy /\ state.chunk[1] = c THEN Idle ELSE state

(* The wrappers of cleaning_ops.h: nothing is called while the counter is
   frozen.                                                                    *)
Guarded(m) == IF mode \in {"update", "run"} THEN m ELSE Image

------------------------------------------------------------------------------
(* Requests. *)

(* The write of a request: the line is locked, the data written, and then the
   dirty bit set and the policy told (set_cache_line_dirty), or, for a line a
   read filled, nothing is.                                                   *)
StartWrite(l) ==
    /\ mode # "load" /\ writes < MaxWrites
    /\ mapped[l] # None /\ mapped[l][1] \in opened /\ held[l] = "none"
    /\ held' = [held EXCEPT ![l] = "wr"]
    /\ writes' = writes + 1
    /\ UNCHANGED <<mapped, dirty, policy, added, opened, mode, todo, cleaner,
                   changes, errors>>

(* ocf_map_cache_line, for a line that was free or has just been evicted. *)
MapLine(l, cl) ==
    /\ mode # "load" /\ writes < MaxWrites
    /\ ~dirty[l] /\ held[l] = "none" /\ cl[1] \in opened
    /\ \A k \in Lines : mapped[k] # cl
    /\ mapped' = [mapped EXCEPT ![l] = cl]
    /\ held' = [held EXCEPT ![l] = "wr"]
    /\ Store(Guarded(InitCacheBlock(Image, l)))
    /\ writes' = writes + 1
    /\ UNCHANGED <<dirty, added, opened, mode, todo, cleaner, changes, errors>>

EndWrite(l, dirties) ==
    /\ held[l] = "wr"
    /\ held' = [held EXCEPT ![l] = "none"]
    /\ dirty' = [dirty EXCEPT ![l] = @ \/ dirties]
    /\ Store(IF dirties THEN Guarded(SetHot(Image, l)) ELSE Image)
    /\ UNCHANGED <<mapped, added, opened, mode, todo, cleaner, bounds>>

(* ocf_user_part_move of a dirty line: it leaves the policy and comes back. *)
Move(l) ==
    /\ mode # "load" /\ dirty[l] /\ held[l] = "none" /\ mapped[l][1] \in opened
    /\ Store(Guarded(SetHot(PurgeBlock(Image, l), l)))
    /\ UNCHANGED <<mapped, dirty, held, added, opened, mode, todo, cleaner, bounds>>

(* set_cache_line_clean, by the cleaner of an eviction or of a flush. *)
CleanElsewhere(l) ==
    /\ mode # "load" /\ dirty[l] /\ held[l] # "wr"
    /\ mapped[l][1] \in opened
    /\ dirty' = [dirty EXCEPT ![l] = FALSE]
    /\ Store(Guarded(PurgeBlock(Image, l)))
    /\ UNCHANGED <<mapped, held, added, opened, mode, todo, cleaner, bounds>>

------------------------------------------------------------------------------
(* The cleaner's thread. *)

(* _acp_can_clean_chunk, as the code has it. *)
CanCleanChunk(x) ==
    x[1] \in opened /\ chunk[x].until \in {"pending", "unset"}

(* The places of _acp_get_cleaning_candidate: every bucket but 0. *)
Candidates ==
    {<<b, i>> \in (Buckets \ {0}) \X (1 .. Cardinality(DOMAIN chunk)) :
        i <= Len(bucket[b]) /\ CanCleanChunk(bucket[b][i])}

First(s) == CHOOSE p \in s : \A q \in s : p[1] > q[1] \/ (p[1] = q[1] /\ p[2] <= q[2])

(* cleaning_policy_acp_perform_cleaning: go on with the chunk in progress, or
   take the first of the fullest bucket; with none, come back later.          *)
PerformCleaning ==
    /\ mode = "run" /\ pc = "idle"
    /\ state.busy \/ Candidates # {}
    /\ LET p == First(Candidates)
       IN  state' = IF state.busy THEN state
                    ELSE [chunk |-> bucket[p[1]][p[2]], iter |-> 0, busy |-> TRUE]
    /\ flush' = [chunk |-> state'.chunk, data |-> <<>>]
    /\ pc' = "scan"
    /\ UNCHANGED <<mapped, dirty, held, policy, added, opened, mode, todo, bounds>>

ScanLine == <<state.chunk[1], state.chunk[2] * LinesPerChunk + state.iter>>
Scanned == state.iter = LinesPerChunk \/ Len(flush.data) = FlushMax

(* _acp_prepare_flush_data, one line: _acp_trylock_dirty. *)
Scan ==
    /\ pc = "scan" /\ ~Scanned
    /\ state' = [state EXCEPT !.iter = @ + 1]
    /\ LET hits == {l \in Lines : mapped[l] = ScanLine /\ dirty[l] /\ held[l] # "wr"}
       IN  /\ flush' = [flush EXCEPT !.data = @ \o SetToSeq(hits)]
           /\ held' = [l \in Lines |-> IF l \in hits THEN "rd" ELSE held[l]]
    /\ UNCHANGED <<mapped, dirty, policy, added, opened, mode, todo, pc, bounds>>

(* Its end: a chunk scanned to its end is no longer in progress; with nothing
   to flush, _acp_flush_end at once.                                          *)
PrepareFlushData ==
    /\ pc = "scan" /\ Scanned
    /\ state' = [state EXCEPT !.busy = @ /\ state.iter # LinesPerChunk]
    /\ pc' = IF flush.data = <<>> THEN "idle" ELSE "flush"
    /\ UNCHANGED <<mapped, dirty, held, policy, added, opened, mode, todo, flush, bounds>>

(* ocf_cleaner_do_flush_data_async: the lines become clean one by one. *)
FlushLine(l) ==
    /\ pc = "flush" /\ l \in Range(flush.data)
    /\ dirty[l] /\ flush.chunk[1] \in opened
    /\ dirty' = [dirty EXCEPT ![l] = FALSE]
    /\ Store(Guarded(PurgeBlock(Image, l)))
    /\ UNCHANGED <<mapped, held, added, opened, mode, todo, cleaner, bounds>>

(* _acp_flush_end and _acp_handle_flush_error: the chunk backs off.  A flush
   of a closed core can only fail.                                            *)
FlushEnd(err) ==
    /\ pc = "flush"
    /\ err => errors < MaxErrors \/ flush.chunk[1] \notin opened
    /\ ~err => \A l \in Range(flush.data) : ~dirty[l]
    /\ held' = [l \in Lines |-> IF l \in Range(flush.data) THEN "none" ELSE held[l]]
    /\ chunk' = IF err THEN [chunk EXCEPT ![flush.chunk].until = "pending"] ELSE chunk
    /\ errors' = IF err /\ flush.chunk[1] \in opened THEN errors + 1 ELSE errors
    /\ pc' = "idle"
    /\ UNCHANGED <<mapped, dirty, meta, bucket, added, opened, mode, todo, state,
                   flush, lag, bug, writes, changes>>

(* ACP_CHUNK_CLEANING_BACKOFF_TIME passes. *)
BackoffOver(x) ==
    /\ x \in DOMAIN chunk /\ chunk[x].until = "pending"
    /\ chunk' = [chunk EXCEPT ![x].until = "expired"]
    /\ UNCHANGED <<mapped, dirty, held, meta, bucket, added, opened, mode, todo,
                   cleaner, lag, bug, bounds>>

------------------------------------------------------------------------------
(* Management, under the cache lock: the cleaner, which runs with that lock
   (ocf_cleaner_run), is idle.                                                *)

Manage == mode \in {"run", "off"} /\ pc = "idle" /\ changes < MaxChanges

(* ocf_mngt_cache_detach_core and the try_add that opens the core again. *)
DetachCore(c) ==
    /\ Manage /\ c \in opened
    /\ opened' = opened \ {c} /\ changes' = changes + 1
    /\ UNCHANGED <<mapped, dirty, held, policy, added, mode, todo, cleaner, writes, errors>>

ReopenCore(c) ==
    /\ mode \in {"run", "off"} /\ pc = "idle" /\ c \in added \ opened
    /\ opened' = opened \cup {c}
    /\ UNCHANGED <<mapped, dirty, held, policy, added, mode, todo, cleaner, bounds>>

LinesOf(c) == {l \in Lines : mapped[l] # None /\ mapped[l][1] = c}

(* cache_mngt_core_deinit_attached_meta purges the dirty lines of the core and
   drops its mapping; then the core leaves the policy.                        *)
RemoveTheCore(c) ==
    LET gone == LinesOf(c)
        purged == FoldSet(LAMBDA l, m : PurgeBlock(m, l), Image,
                          {l \in gone : dirty[l]})
    IN  /\ Manage /\ c \in added
        /\ \A l \in gone : held[l] = "none"
        /\ mapped' = [l \in Lines |-> IF l \in gone THEN None ELSE mapped[l]]
        /\ dirty' = [l \in Lines |-> l \notin gone /\ dirty[l]]
        /\ Store(Guarded(RemoveCore(purged, c)))
        /\ state' = IF mode = "run" THEN StateWithout(c) ELSE state
        /\ added' = added \ {c} /\ opened' = opened \ {c}
        /\ changes' = changes + 1
        /\ UNCHANGED <<held, mode, todo, flush, pc, writes, errors>>

AddTheCore(c) ==
    /\ mode \in {"run", "off"} /\ pc = "idle" /\ c \in Cores \ added
    /\ added' = added \cup {c} /\ opened' = opened \cup {c}
    /\ Store(Guarded(AddCore(Image, c)))
    /\ UNCHANGED <<mapped, dirty, held, mode, todo, cleaner, bounds>>

(* cleaning_policy_acp_deinitialize: all cores leave, the context is freed. *)
Deinitialize ==
    /\ Manage /\ mode = "run"
    /\ Store(FoldSet(LAMBDA c, m : RemoveCore(m, c), Image, added))
    /\ state' = Idle /\ flush' = NoFlush
    /\ mode' = "off" /\ changes' = changes + 1
    /\ UNCHANGED <<mapped, dirty, held, added, opened, todo, pc, writes, errors>>

Empty == [Image EXCEPT !.chunk = <<>>, !.bucket = [b \in Buckets |-> <<>>], !.lag = {}]

(* cleaning_policy_acp_initialize with _acp_load_cores: an allocation may fail
   for the core `fail`; then all cores are removed, the one without a table
   included.                                                                  *)
LoadCores(fail) ==
    LET before == {c \in added : c < fail}
    IN  IF fail \in added
        THEN FoldSet(LAMBDA c, m : RemoveCore(m, c),
                     FoldSet(LAMBDA c, m : AddCore(m, c), Empty, before), added)
        ELSE FoldSet(LAMBDA c, m : AddCore(m, c), Empty, added)

(* cleaning_policy_acp_prepopulate *)
Prepopulate(m) == FoldSet(LAMBDA l, i : InitCacheBlock(i, l), m, Lines)

(* A switch to this policy: initialize and prepopulate while the counter is
   frozen, then unfreeze it.                                                  *)
Initialize(fail) ==
    /\ mode = "off" /\ pc = "idle"
    /\ LET m == LoadCores(fail)
       IN  IF m.bug # "no" THEN Store(m) /\ mode' = "panic"
           ELSE Store(Prepopulate(m)) /\ mode' = "update"
    /\ todo' = CoreLines
    /\ UNCHANGED <<mapped, dirty, held, added, opened, cleaner, bounds>>

(* ocf_acp_update_handle: the lines of one hash bucket; the shards visit them
   in no particular order.                                                    *)
UpdateHandle(cl) ==
    /\ mode = "update" /\ cl \in todo
    /\ todo' = todo \ {cl}
    /\ Store(FoldSet(LAMBDA l, m : SetHot(m, l), Image,
                     {l \in Lines : mapped[l] = cl /\ dirty[l]}))
    /\ UNCHANGED <<mapped, dirty, held, added, opened, mode, cleaner, bounds>>

UpdateFinish ==
    /\ mode = "update" /\ todo = {}
    /\ mode' = "run"
    /\ UNCHANGED <<mapped, dirty, held, policy, added, opened, todo, cleaner, bounds>>

(* ocf_acp_populate_handle: the count of a chunk at load. *)
PopulateCount(x) ==
    Cardinality({l \in Lines : dirty[l] /\ mapped[l] # None /\ GetChunk(mapped[l]) = x})

(* ocf_acp_populate_chunk: the bucket before the first whose threshold is
   above the count.                                                           *)
PopulateBucket(n) == Max({0} \cup {b \in Buckets : \A a \in 1 .. b : n >= Threshold(a)})

(* Where _acp_update_bucket keeps a chunk. *)
Steady(n) == Min({b \in Buckets : n <= Threshold(b)})

(* cleaning_policy_acp_populate, of a cache that is being loaded. *)
Populate ==
    /\ mode = "load"
    /\ LET ids == SetToSortSeq(DOMAIN chunk, LAMBDA x, y : x[1] < y[1] \/ (x[1] = y[1] /\ x[2] < y[2]))
           n == [x \in DOMAIN chunk |-> PopulateCount(x)]
       IN  /\ meta' = [l \in Lines |-> IF mapped[l] = None THEN meta[l] ELSE dirty[l]]
           /\ chunk' = [x \in DOMAIN chunk |->
                          [chunk[x] EXCEPT !.dirty = n[x], !.bucket = PopulateBucket(n[x])]]
           /\ bucket' = [b \in Buckets |-> SelectSeq(ids, LAMBDA x : PopulateBucket(n[x]) = b)]
           /\ lag' = {x \in DOMAIN chunk : PopulateBucket(n[x]) # Steady(n[x])}
    /\ mode' = "run"
    /\ UNCHANGED <<mapped, dirty, held, added, opened, todo, cleaner, bug, bounds>>

(* A cache that was loaded: the policy's own bits are what the disk had. *)
Init ==
    /\ mapped \in [Lines -> CoreLines \cup {None}]
    /\ \A k, l \in Lines : k # l /\ mapped[k] # None => mapped[k] # mapped[l]
    /\ dirty \in [Lines -> BOOLEAN]
    /\ \A l \in Lines : dirty[l] => mapped[l] # None
    /\ held = [l \in Lines |-> "none"]
    /\ meta = [l \in Lines |-> TRUE]
    /\ added = Cores /\ opened = Cores
    /\ LET fresh == [meta |-> meta, chunk |-> <<>>, bucket |-> [b \in Buckets |-> <<>>],
                     lag |-> {}, bug |-> "no"]
           m == FoldSet(LAMBDA c, i : AddCore(i, c), fresh, Cores)
       IN  chunk = m.chunk /\ bucket = m.bucket
    /\ mode = "load" /\ todo = {} /\ state = Idle /\ flush = NoFlush /\ pc = "idle"
    /\ lag = {} /\ bug = "no"
    /\ writes = 0 /\ changes = 0 /\ errors = 0

CleanerStep == PerformCleaning \/ Scan \/ PrepareFlushData
                   \/ (\E l \in Lines : FlushLine(l)) \/ FlushEnd(FALSE)

Next ==
    \/ Populate \/ CleanerStep \/ FlushEnd(TRUE)
    \/ \E l \in Lines : \/ StartWrite(l) \/ Move(l) \/ CleanElsewhere(l)
                        \/ \E d \in BOOLEAN : EndWrite(l, d)
                        \/ \E cl \in CoreLines : MapLine(l, cl)
    \/ \E x \in UNION {ChunksOf(c) : c \in Cores} : BackoffOver(x)
    \/ \E c \in Cores : DetachCore(c) \/ ReopenCore(c) \/ RemoveTheCore(c) \/ AddTheCore(c)
    \/ Deinitialize
    \/ \E fail \in Cores \cup {-1} : Initialize(fail)
    \/ \E cl \in CoreLines : UpdateHandle(cl)
    \/ UpdateFinish

(* The cleaner's thread is woken again and again and its flushes end; so do a
   load, a policy switch and the requests that hold a line.                   *)
Fairness ==
    /\ WF_vars(CleanerStep \/ (flush.chunk # None /\ flush.chunk[1] \notin opened /\ FlushEnd(TRUE)))
    /\ WF_vars(Populate)
    /\ WF_vars(UpdateFinish \/ \E cl \in CoreLines : UpdateHandle(cl))
    /\ \A l \in Lines : WF_vars(\E d \in BOOLEAN : EndWrite(l, d))

Spec == Init /\ [][Next]_vars /\ Fairness

------------------------------------------------------------------------------

\* The variables have their types.
TypeOK ==
    /\ mapped \in [Lines -> CoreLines \cup {None}]
    /\ dirty \in [Lines -> BOOLEAN] /\ meta \in [Lines -> BOOLEAN]
    /\ held \in [Lines -> {"none", "wr", "rd"}]
    /\ \A x \in DOMAIN chunk :
          /\ x[1] \in added /\ chunk[x].bucket \in Buckets
          /\ chunk[x].dirty \in 0 .. LinesPerChunk
    /\ opened \subseteq added /\ added \subseteq Cores
    /\ mode \in {"load", "off", "update", "run", "panic"}
    /\ pc \in {"idle", "scan", "flush"}

\* A chunk's count is the number of its lines that the policy has marked, with
\* requests, cleaners, moves between partitions and a half-done update all
\* raising and lowering it.
CountExact ==
    mode \in {"update", "run"} =>
        \A x \in DOMAIN chunk :
            chunk[x].dirty =
                Cardinality({l \in Lines : meta[l] /\ mapped[l] # None
                                           /\ GetChunk(mapped[l]) = x})

\* A policy that runs knows exactly the dirty lines, whatever was written,
\* cleaned or remapped while its counter was frozen, and whatever its bits
\* were from an earlier time as the active policy or on the disk.
DirtyKnown ==
    mode = "run" => \A l \in Lines : mapped[l] # None => (meta[l] <=> dirty[l])

\* A chunk is on the list of one bucket, its own, and that is the bucket of its
\* count (_acp_update_bucket moves a chunk by only one bucket), except for a
\* chunk nobody has touched since populate placed it one bucket too low.
BucketExact ==
    \A x \in DOMAIN chunk :
        /\ x \notin lag => chunk[x].bucket = Steady(chunk[x].dirty)
        /\ \A b \in Buckets :
              Cardinality({i \in DOMAIN bucket[b] : bucket[b][i] = x})
                  = IF b = chunk[x].bucket THEN 1 ELSE 0

\* Between two wake-ups the cleaner keeps a pointer into a chunk it has not
\* finished; the chunk is still there.  The lines it has locked are exactly
\* those of the flush it is working on.
CleanerSafe ==
    /\ mode \in {"update", "run"} /\ (state.busy \/ pc # "idle") =>
          state.chunk \in DOMAIN chunk
    /\ \A l \in Lines : held[l] = "rd" <=> pc # "idle" /\ l \in Range(flush.data)

\* No ENV_BUG_ON of the policy fires, unless the memory for a core's table
\* could not be had while the policy was entered.
NoBug == bug = "no" \/ mode = "panic"

Left(l) ==
    LET x == GetChunk(mapped[l])
    IN  \/ mode \in {"off", "panic"} \/ mapped[l][1] \notin opened
        \/ chunk[x].until # "unset"
        \/ x \in lag /\ chunk[x].bucket = 0

Drained == \A l \in Lines : dirty[l] => Left(l)

\* Once the writes stop, every dirty line is cleaned while the policy is active,
\* except the lines of a core that is closed, of a chunk whose cleaning has failed
\* once, and of a chunk that populate left in the bucket of the clean chunks (`lag').
Drains == <>[]Drained

\* A chunk whose cleaning failed is not chosen again before its back-off time
\* is over: "timeout after cleaning error expired or wasn't set in the first
\* place" (_acp_can_clean_chunk).
BackoffKept ==
    [][~state.busy /\ state'.busy => chunk[state'.chunk].until # "pending"]_vars

\* The policy of acp.c as a whole: chunks count their dirty lines and sit in the
\* bucket of that count (unless populate put them elsewhere and they have not changed
\* since), no dirty line is unknown, the cleaner's chunk is its own, and no ENV_BUG_ON
\* fires unless entering the policy ran out of memory.
AcpSound ==
    TypeOK /\ NoBug /\ CountExact /\ DirtyKnown /\ BucketExact /\ CleanerSafe
==============================================================================
