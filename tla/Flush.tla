------------------------------- MODULE Flush ---------------------------------
(* The management flush (mngt/ocf_mngt_flush.c): flushing and purging the cache
   or a core, and detaching a range of cache lines.  A flush takes the flush
   mutex, freezes the counter of the requests that may make lines dirty, waits
   for it to drop to zero, takes a snapshot of the dirty lines (letting go of
   the metadata lock now and then), and cleans the snapshot core by core,
   portion by portion.  Requests, the cleaner's thread, an interrupting user
   and ocf_mngt_cache_set_no_dirty run meanwhile.

   The cleaner itself (utils/utils_cleaner.c) is the subject of Cleaner: here a
   line of a portion is cleaned in one step.                                  *)
EXTENDS Integers, FiniteSets, Sequences, FiniteSetsExt, SequencesExt

CONSTANTS
    Size,        \* collision_table_entries
    Cores,
    Flushers,    \* callers of the management interface
    Batch,       \* lines scanned before the metadata lock is given up (131072)
    FlushMin,    \* OCF_MNG_FLUSH_MIN
    FlushMax,    \* OCF_MNG_FLUSH_MAX
    Ranges,      \* the ranges <<begin, end>> that may be detached
    Asks,        \* Asks[f]: the operations flusher f may call
    MaxEvents,   \* bound: requests, lines cleaned by the thread, no_dirty changes,
                 \* interrupts and failures (of allocations, of the cleaner)
    MaxCalls     \* bound: management calls

VARIABLES
    core,        \* the core of a line, "free" or "detached"
    dirty,       \* the line is valid and dirty
    req,         \* the request under way: its line (None: no request), dirty or not
    bg,          \* the line the cleaner's thread is cleaning, or None
    dirtyFrz,    \* how often cache->refcnt.dirty is frozen
    metaFrz,     \* how often cache->refcnt.metadata is frozen
    noDirty,     \* cache->no_dirty
    mutex,       \* who has flush_mutex, or "nobody"
    interrupted, \* cache->flushing_interrupted
    op,          \* the pipelines: where each one is, and its flush context
    fc,          \* the flush containers of the flusher that has the mutex
    lost,        \* ghost: a line was dropped while it was dirty
    bug,         \* an ENV_BUG_ON fired
    events, calls

requests == <<req, bg, noDirty>>
counters == <<events, calls>>
ghosts == <<lost, bug>>
lines == <<core, dirty>>
vars == <<lines, requests, dirtyFrz, metaFrz, mutex, interrupted, op, fc, ghosts, counters>>

Line == 0 .. Size - 1
None == -1
NoReq == [line |-> None, dirty |-> FALSE]

Kinds == {"flush_cache", "flush_core", "purge_cache", "purge_core", "detach_range"}
Pcs == {"idle", "begin", "wait", "collect", "scan", "flush", "invalidate", "freeze", "drain",
        "detach", "finish"}

(* struct flush_container: the snapshot of one core's dirty lines. *)
Container == [count : 0 .. Size, iter : 0 .. Size, done : 0 .. Size, data : Seq(Line),
              st : {"none", "step", "clean", "end"}]
NoContainer == [count |-> 0, iter |-> 0, done |-> 0, data |-> <<>>, st |-> "none"]

Idle == [pc |-> "idle", kind |-> "flush_cache", core |-> "free", begin |-> 0, end |-> 0,
         lock |-> FALSE, dirtyFrz |-> FALSE, metaFrz |-> FALSE, err |-> "none",
         seen |-> FALSE, pos |-> 0, total |-> 0]

(* A line lock is held by a request or by the cleaner. *)
Used(l) == l \in {req.line, bg}

(* core->runtime_meta->dirty_clines *)
DirtyClines(c) == Cardinality({l \in Line : core[l] = c /\ dirty[l]})

(* The first error is kept (env_atomic_cmpxchg(&error, 0, e)). *)
FirstError(old, new) == IF old = "none" THEN new ELSE old

Event == events < MaxEvents /\ events' = events + 1 /\ UNCHANGED calls

------------------------------------------------------------------------------
(* Requests, the cleaner's thread and the other users of the cache. *)

(* A request maps and locks its line.  It may write back only with a reference
   of refcnt.dirty (ocf_req_set_dirty); without one it writes through.        *)
Request(l, c, d) ==
    /\ req = NoReq /\ Event /\ metaFrz = 0
    /\ d => dirtyFrz = 0
    /\ l # bg /\ core[l] \in {c, "free"}
    /\ req' = [line |-> l, dirty |-> d]
    /\ core' = [core EXCEPT ![l] = c]
    /\ UNCHANGED <<dirty, bg, noDirty, dirtyFrz, metaFrz, mutex, interrupted, op, fc, ghosts>>

RequestEnd ==
    /\ req # NoReq
    /\ dirty' = [dirty EXCEPT ![req.line] = @ \/ req.dirty]
    /\ req' = NoReq
    /\ UNCHANGED <<core, bg, noDirty, dirtyFrz, metaFrz, mutex, interrupted, op, fc, ghosts,
                   counters>>

(* The cleaner's request has a metadata reference (ocf_req_new_cleaner). *)
CleanerStart(l) ==
    /\ bg = None /\ metaFrz = 0 /\ dirty[l] /\ l # req.line /\ Event
    /\ bg' = l
    /\ UNCHANGED <<lines, req, noDirty, dirtyFrz, metaFrz, mutex, interrupted, op, fc, ghosts>>

CleanerEnd ==
    /\ bg # None
    /\ dirty' = [dirty EXCEPT ![bg] = FALSE]
    /\ bg' = None
    /\ UNCHANGED <<core, req, noDirty, dirtyFrz, metaFrz, mutex, interrupted, op, fc, ghosts,
                   counters>>

(* ocf_mngt_cache_set_no_dirty: freezes without waiting. *)
SetNoDirty(b) ==
    /\ b # noDirty /\ Event
    /\ noDirty' = b
    /\ dirtyFrz' = IF b THEN dirtyFrz + 1 ELSE dirtyFrz - 1
    /\ UNCHANGED <<lines, req, bg, metaFrz, mutex, interrupted, op, fc, ghosts>>

Interrupt ==
    /\ ~interrupted /\ Event
    /\ interrupted' = TRUE
    /\ UNCHANGED <<lines, requests, dirtyFrz, metaFrz, mutex, op, fc, ghosts>>

------------------------------------------------------------------------------
(* The pipelines. *)

Purge(kind) == kind \in {"purge_cache", "purge_core"}
OneCore(kind) == kind \in {"flush_core", "purge_core"}

Call(f, kind, c, range) ==
    /\ op[f].pc = "idle" /\ calls < MaxCalls /\ kind \in Asks[f]
    /\ op' = [op EXCEPT ![f] = [Idle EXCEPT !.pc = "begin", !.kind = kind,
                                    !.core = c, !.begin = range[1], !.end = range[2]]]
    /\ calls' = calls + 1
    /\ UNCHANGED <<lines, requests, dirtyFrz, metaFrz, mutex, interrupted, fc, ghosts, events>>

(* ocf_mngt_cache_flush, ocf_mngt_cache_purge: all lines, all cores. *)
CacheFlush(f, kind) == kind \in {"flush_cache", "purge_cache"} /\ Call(f, kind, "free", <<0, Size>>)

(* ocf_mngt_core_flush, ocf_mngt_core_purge. *)
CoreFlush(f, kind, c) == OneCore(kind) /\ Call(f, kind, c, <<0, Size>>)

(* ocf_mngt_cache_detach_cline_range *)
DetachRange(f, range) == range[1] <= range[2] /\ Call(f, "detach_range", "free", range)

(* OCF_PL_FINISH_RET and the steps of the three pipelines. *)
Goto(f, pc) == op' = [op EXCEPT ![f].pc = pc]
FinishWith(f, e) == op' = [op EXCEPT ![f].pc = "finish", ![f].err = e]

BeginFlush(f) ==
    /\ op[f].pc = "begin"
    /\ \/ /\ mutex # "nobody"
          /\ FinishWith(f, "in_progress")
          /\ UNCHANGED <<mutex, dirtyFrz>>
       \/ /\ mutex = "nobody"
          /\ mutex' = f
          /\ dirtyFrz' = dirtyFrz + 1
          /\ op' = [op EXCEPT ![f].pc = "wait", ![f].lock = TRUE, ![f].dirtyFrz = TRUE]
    /\ UNCHANGED <<lines, requests, metaFrz, interrupted, fc, ghosts, counters>>

WaitDirtyNot(f) ==
    /\ op[f].pc = "wait"
    /\ interrupted' = FALSE
    /\ Goto(f, "collect")
    /\ UNCHANGED <<lines, requests, dirtyFrz, metaFrz, mutex, fc, ghosts, counters>>

(* ocf_pipeline_continue_on_zero_refcnt(refcnt.dirty), then the first lines of
   _ocf_mngt_cache_flush and _ocf_mngt_core_flush.                             *)
WaitDirty(f) ==
    /\ op[f].pc = "wait" /\ ~req.dirty
    /\ interrupted' = FALSE
    /\ Goto(f, "collect")
    /\ UNCHANGED <<lines, requests, dirtyFrz, metaFrz, mutex, fc, ghosts, counters>>

(* The cores a flush looks at. *)
Scope(f) == IF OneCore(op[f].kind) THEN {op[f].core} ELSE Cores

(* The flush part is over: _ocf_mngt_flush_all_cores_complete,
   _ocf_mngt_flush_core_complete.                                              *)
Flushed(f, e) ==
    op' = [op EXCEPT
        ![f].err = e, ![f].pos = 0, ![f].total = 0,
        ![f].pc = CASE e # "none" \/ op[f].kind \in {"flush_cache", "flush_core"} -> "finish"
                    [] Purge(op[f].kind) -> "invalidate"
                    [] OTHER -> "freeze"]

(* The heads of _ocf_mngt_get_flush_containers and _ocf_mngt_get_blocks: the
   tables get as many entries as the cores have dirty lines.                   *)
Collect(f) ==
    LET total == MapThenSumSet(DirtyClines, Scope(f)) IN
    /\ op[f].pc = "collect"
    /\ \/ /\ op[f].begin # op[f].end
          /\ Flushed(f, "no_mem") /\ Event /\ UNCHANGED fc
       \/ /\ total = 0 \/ op[f].begin = op[f].end
          /\ Flushed(f, "none") /\ UNCHANGED <<fc, counters>>
       \/ /\ total # 0 /\ op[f].begin # op[f].end
          /\ fc' = [c \in Cores |-> [NoContainer EXCEPT
                        !.count = IF c \in Scope(f) THEN DirtyClines(c) ELSE 0]]
          /\ op' = [op EXCEPT ![f].pc = "scan", ![f].pos = op[f].begin, ![f].total = total]
          /\ UNCHANGED counters
    /\ UNCHANGED <<lines, requests, dirtyFrz, metaFrz, mutex, interrupted, ghosts>>

(* One hold of the metadata lock: up to the next multiple of Batch, or less when as many
   dirty lines as there were are found.  ENV_BUG_ON(curr->iter >= curr->count). *)
Scan(f) ==
    LET found == MapThenSumSet(LAMBDA c : Len(fc[c].data), Cores)
        last == Min({(op[f].pos \div Batch + 1) * Batch, op[f].end})
        seen == SelectSeq([i \in 1 .. (last - op[f].pos) |-> op[f].pos + i - 1],
                          LAMBDA l : core[l] \in Scope(f) /\ dirty[l])
        new == SubSeq(seen, 1, Min({Len(seen), op[f].total - found}))
        over == last = op[f].end \/ found + Len(new) = op[f].total
        data == [c \in Cores |-> fc[c].data \o SelectSeq(new, LAMBDA l : core[l] = c)]
        short == found + Len(new) # op[f].total
        Count(c) == IF over /\ short THEN Len(data[c]) ELSE fc[c].count
    IN
    /\ op[f].pc = "scan"
    /\ fc' = [c \in Cores |-> [fc[c] EXCEPT
                 !.data = data[c],
                 !.count = Count(c),
                 !.st = IF over /\ Count(c) # 0 THEN "step" ELSE "none"]]
    /\ op' = [op EXCEPT ![f].pos = last, ![f].pc = IF over THEN "flush" ELSE "scan"]
    /\ bug' = (bug \/ \E c \in Cores : Len(data[c]) > fc[c].count)
    /\ UNCHANGED <<lines, requests, dirtyFrz, metaFrz, mutex, interrupted, lost, counters>>

(* _ocf_mngt_flush_container: no memory for the container's request. *)
ContainerNoMem(f, c) ==
    /\ op[f].pc = "flush" /\ fc[c].st = "step" /\ fc[c].iter = 0
    /\ Event
    /\ op' = [op EXCEPT ![f].err = FirstError(@, "no_mem")]
    /\ fc' = [fc EXCEPT ![c].st = "end"]
    /\ UNCHANGED <<lines, requests, dirtyFrz, metaFrz, mutex, interrupted, ghosts>>

(* _ocf_mngt_flush_portion_end with the container's table at iter. *)
PortionEnd(f, c, iter, e) ==
    LET one == FirstError(op[f].err, e)
        err == IF interrupted /\ ~op[f].seen THEN FirstError(one, "interrupted") ELSE one
    IN
    /\ op' = [op EXCEPT ![f].err = err, ![f].seen = @ \/ interrupted]
    /\ fc' = [fc EXCEPT ![c].iter = iter, ![c].done = iter,
                 ![c].st = IF iter = fc[c].count \/ err # "none" THEN "end" ELSE "step"]

(* _ofc_flush_container_step, _ocf_mngt_flush_portion: the size of the portion
   follows the speed of the device, within bounds.                             *)
PortionSize(c, size) ==
    \E p \in FlushMin .. FlushMax : size = Min({DirtyClines(c), p, fc[c].count - fc[c].iter})

FlushPortionAnyway(f, c) ==
    /\ op[f].pc = "flush" /\ fc[c].st = "step"
    /\ \E size \in 0 .. Size :
          /\ PortionSize(c, size)
          /\ bug' = (bug \/ size = 0)
          /\ fc' = [fc EXCEPT ![c].iter = @ + size, ![c].st = "clean"]
    /\ UNCHANGED <<lines, requests, dirtyFrz, metaFrz, mutex, interrupted, op, lost, counters>>

FlushPortion(f, c) ==
    /\ op[f].pc = "flush" /\ fc[c].st = "step"
    /\ \/ /\ DirtyClines(c) = 0
          /\ PortionEnd(f, c, fc[c].count, "none")
          /\ UNCHANGED bug
       \/ /\ DirtyClines(c) # 0
          /\ \E size \in 0 .. Size :
                /\ PortionSize(c, size)
                /\ bug' = (bug \/ size = 0)
                /\ fc' = [fc EXCEPT ![c].iter = @ + size, ![c].st = "clean"]
          /\ UNCHANGED op
    /\ UNCHANGED <<lines, requests, dirtyFrz, metaFrz, mutex, interrupted, lost, counters>>

(* What the cleaner still has to clean of a portion. *)
Left(c) == {l \in ToSet(SubSeq(fc[c].data, fc[c].done + 1, fc[c].iter)) :
              core[l] = c /\ dirty[l]}

(* ocf_cleaner_do_flush_data_async on one line of the portion: it waits for the
   line, and leaves it alone when it is no longer dirty.                       *)
CleanLine(f, c, l) ==
    /\ op[f].pc = "flush" /\ fc[c].st = "clean" /\ l \in Left(c) /\ l # req.line
    /\ dirty' = [dirty EXCEPT ![l] = FALSE]
    /\ UNCHANGED <<core, requests, dirtyFrz, metaFrz, mutex, interrupted, op, fc, ghosts,
                   counters>>

PortionDone(f, c) ==
    /\ op[f].pc = "flush" /\ fc[c].st = "clean" /\ Left(c) = {}
    /\ PortionEnd(f, c, fc[c].iter, "none")
    /\ UNCHANGED <<lines, requests, dirtyFrz, metaFrz, mutex, interrupted, ghosts, counters>>

PortionFails(f, c) ==
    /\ op[f].pc = "flush" /\ fc[c].st = "clean" /\ Event
    /\ PortionEnd(f, c, fc[c].iter, "io")
    /\ UNCHANGED <<lines, requests, dirtyFrz, metaFrz, mutex, interrupted, ghosts>>

(* _ocf_flush_container_complete: the last container ends the flush. *)
ContainersEnd(f) ==
    /\ op[f].pc = "flush" /\ \A c \in Cores : fc[c].st \in {"none", "end"}
    /\ Flushed(f, op[f].err)
    /\ fc' = [c \in Cores |-> NoContainer]
    /\ UNCHANGED <<lines, requests, dirtyFrz, metaFrz, mutex, interrupted, ghosts, counters>>

Drop(S, to) ==
    /\ core' = [l \in Line |-> IF l \in S THEN to ELSE core[l]]
    /\ dirty' = [l \in Line |-> dirty[l] /\ l \notin S]
    /\ lost' = (lost \/ \E l \in S : dirty[l])

(* _ocf_mngt_cache_invalidate: ocf_metadata_sparse_range leaves the lines that
   are locked and then returns an error.                                       *)
Invalidate(f) ==
    LET all == {l \in Line : core[l] \in Scope(f)}
        used == {l \in all : Used(l)}
    IN
    /\ op[f].pc = "invalidate"
    /\ Drop(all \ used, "free")
    /\ FinishWith(f, IF used = {} THEN "none" ELSE "again")
    /\ UNCHANGED <<requests, dirtyFrz, metaFrz, mutex, interrupted, fc, bug, counters>>

(* _ocf_mngt_begin_cache_lines_invalidate *)
FreezeMetadata(f) ==
    /\ op[f].pc = "freeze"
    /\ metaFrz' = metaFrz + 1
    /\ op' = [op EXCEPT ![f].pc = "drain", ![f].metaFrz = TRUE]
    /\ UNCHANGED <<lines, requests, dirtyFrz, mutex, interrupted, fc, ghosts, counters>>

WaitMetadata(f) ==
    /\ op[f].pc = "drain" /\ req = NoReq /\ bg = None
    /\ Goto(f, "detach")
    /\ UNCHANGED <<lines, requests, dirtyFrz, metaFrz, mutex, interrupted, fc, ghosts, counters>>

(* _ocf_mngt_cache_detach_cline_range: ENV_BUG_ON a locked line. *)
Detach(f) ==
    LET all == op[f].begin .. op[f].end - 1 IN
    /\ op[f].pc = "detach"
    /\ Drop(all, "detached")
    /\ bug' = (bug \/ \E l \in all : Used(l))
    /\ FinishWith(f, "none")
    /\ UNCHANGED <<requests, dirtyFrz, metaFrz, mutex, interrupted, fc, counters>>

Unfreeze(f) ==
    /\ metaFrz' = IF op[f].metaFrz THEN metaFrz - 1 ELSE metaFrz
    /\ dirtyFrz' = IF op[f].dirtyFrz THEN dirtyFrz - 1 ELSE dirtyFrz

(* _ocf_mngt_flush_finish: undo what the flags say was done. *)
Finish(f) ==
    /\ op[f].pc = "finish"
    /\ Unfreeze(f)
    /\ mutex' = IF op[f].lock THEN "nobody" ELSE mutex
    /\ op' = [op EXCEPT ![f] = Idle]
    /\ UNCHANGED <<lines, requests, interrupted, fc, ghosts, counters>>

------------------------------------------------------------------------------
Init ==
    /\ core \in [Line -> Cores] /\ dirty \in [Line -> BOOLEAN]
    /\ req = NoReq /\ bg = None
    /\ dirtyFrz = 0 /\ metaFrz = 0 /\ noDirty = FALSE
    /\ mutex = "nobody" /\ interrupted = FALSE
    /\ op = [f \in Flushers |-> Idle] /\ fc = [c \in Cores |-> NoContainer]
    /\ lost = FALSE /\ bug = FALSE
    /\ events = 0 /\ calls = 0

Pipeline(f) ==
    \/ BeginFlush(f) \/ WaitDirty(f) \/ Collect(f) \/ Scan(f) \/ ContainersEnd(f)
    \/ Invalidate(f) \/ FreezeMetadata(f) \/ WaitMetadata(f) \/ Detach(f) \/ Finish(f)

Cleaning(f, c) ==
    FlushPortion(f, c) \/ PortionDone(f, c) \/ \E l \in Line : CleanLine(f, c, l)

Next ==
    \/ \E l \in Line, c \in Cores, d \in BOOLEAN : Request(l, c, d)
    \/ RequestEnd
    \/ \E l \in Line : CleanerStart(l)
    \/ CleanerEnd
    \/ \E b \in BOOLEAN : SetNoDirty(b)
    \/ Interrupt
    \/ \E f \in Flushers :
         \/ \E kind \in Kinds : CacheFlush(f, kind)
         \/ \E kind \in Kinds, c \in Cores : CoreFlush(f, kind, c)
         \/ \E range \in Ranges : DetachRange(f, range)
         \/ Pipeline(f)
         \/ \E c \in Cores : Cleaning(f, c) \/ ContainerNoMem(f, c) \/ PortionFails(f, c)

(* Requests end, and the queues run what is pushed to them. *)
Fairness ==
    /\ WF_vars(RequestEnd) /\ WF_vars(CleanerEnd)
    /\ \A f \in Flushers : WF_vars(Pipeline(f)) /\ \A c \in Cores : WF_vars(Cleaning(f, c))

Spec == Init /\ [][Next]_vars /\ Fairness

------------------------------------------------------------------------------
(* The variables have their types; an interrupt or an error belongs to a call. *)
TypeOK ==
    /\ core \in [Line -> Cores \cup {"free", "detached"}] /\ dirty \in [Line -> BOOLEAN]
    /\ \A l \in Line : dirty[l] => core[l] \in Cores
    /\ req \in [line : Line \cup {None}, dirty : BOOLEAN] /\ bg \in Line \cup {None}
    /\ \A f \in Flushers : op[f].pc \in Pcs /\ op[f].kind \in Kinds
    /\ fc \in [Cores -> Container]
    /\ \A c \in Cores : fc[c].done <= fc[c].iter /\ fc[c].iter <= fc[c].count

(* A flush that ends without an error has left no dirty line of what it was
   asked to flush: none of the core, of the cache or of the range.  The snapshot
   is taken while other threads clean lines, portions are cut by counters that
   change meanwhile, and the first error of the containers is the one returned. *)
FlushedClean ==
    \A f \in Flushers :
        (op[f].pc \in {"invalidate", "freeze", "drain", "detach", "finish"} /\ op[f].err = "none") =>
            \A l \in Line : core[l] \in Scope(f) /\ l \in op[f].begin .. op[f].end - 1 => ~dirty[l]

(* A purge or a detached range never drops a line that is still dirty: the
   flush before it was complete and the counter of dirty requests is frozen.    *)
NothingDropped == ~lost

(* The assertions of the file never fire: a core has no more dirty lines than
   when its table was allocated (ocf_mngt_flush.c:331), a portion is not empty
   (:462), and no line that is being detached is locked (metadata_misc.c:64).   *)
NeverPanics == ~bug

(* Freezes and the flush mutex belong to the operations that say so in their
   flags, whichever way those operations end; the mutex lets one in at a time.  *)
FreezesBalance ==
    /\ dirtyFrz = Cardinality({f \in Flushers : op[f].pc # "idle" /\ op[f].dirtyFrz})
                  + (IF noDirty THEN 1 ELSE 0)
    /\ metaFrz = Cardinality({f \in Flushers : op[f].pc # "idle" /\ op[f].metaFrz})
    /\ \A f \in Flushers : (op[f].pc # "idle" /\ op[f].lock) <=> mutex = f

(* Every flush ends, interrupted or not: the portions get to the end of the
   snapshot and the containers are all waited for.                              *)
FlushEnds == []<>(\A f \in Flushers : op[f].pc = "idle")

\* The management flush as a whole: what was flushed is clean, what is purged was
\* clean, no assertion fires, and freezes and mutex belong to who took them.
FlushSound == TypeOK /\ FlushedClean /\ NothingDropped /\ NeverPanics /\ FreezesBalance
==============================================================================
