------------------------------- MODULE Engine -------------------------------
(***************************************************************************)
(* The I/O engines (engine/): what a read, a write, a discard and a        *)
(* cleaning of one core line do to the core device, to the cache device,   *)
(* to the mapping, valid and dirty bits in memory and to their copy on the *)
(* cache device.  The property of interest is the one the user of a block  *)
(* device relies on: a read returns the last data written, also after a    *)
(* crash.                                                                  *)
(*                                                                         *)
(* A request covers some sectors of one core line.  What runs under one    *)
(* hold of the request's hash bucket lock is one step; a device I/O takes  *)
(* effect in the step that runs its completion.  The cache line lock is    *)
(* the FIFO reader/writer lock of module Alock, seen from outside.         *)
(***************************************************************************)
EXTENDS Integers, Sequences, FiniteSets

CONSTANTS
    Reqs,        \* requests; each is submitted once
    CoreLines, CacheLines, Sectors,
    NoLine,      \* neither a core line nor a cache line
    PageOf,      \* the metadata page that holds a cache line's entry
    Scenarios,   \* what the cache holds first, what each request is, and how
                 \* many I/Os may fail: [lines, cmd, faults]
    SubmitFast   \* cache->use_submit_io_fast

Modes == {"wt", "wb", "wa", "wi", "pt", "wo", "cutoff"}
Command == [op : {"read", "write", "discard", "clean"}, mode : Modes,
            l : CoreLines, secs : (SUBSET Sectors) \ {{}}]

ASSUME EngineAssumption ==
    /\ NoLine \notin CoreLines \cup CacheLines
    /\ DOMAIN PageOf = CacheLines
    /\ SubmitFast \in BOOLEAN
    /\ \A p \in Scenarios :
         /\ \A r \in Reqs : p.cmd[r] = NoLine \/ p.cmd[r] \in Command
         /\ \A c \in CacheLines : /\ p.lines[c].dirty \subseteq p.lines[c].valid
                                  /\ (p.lines[c].cl = NoLine) <=> (p.lines[c].valid = {})
         /\ p.faults \in Nat

VARIABLES
    core,     \* data on the core device, per core line and sector
    data,     \* data on the cache device, per cache line and sector
    line,     \* collision table: core line, valid and dirty sectors
    disk,     \* the collision table's copy on the cache device
    lock,     \* cache line locks: mode, holders, queue of waiters
    page,     \* metadata pages being written: the image taken
    req,      \* the requests
    cached,   \* runtime_meta->cached_clines
    faults,   \* I/Os that may still fail
    live,     \* (history) the values a read of a sector may still return
    hurt,     \* (history) sectors a known defect has touched, and which one
    drift     \* (history) evictions of lines that held no valid sector

vars == <<core, data, line, disk, lock, page, req, cached, faults,
          live, hurt, drift>>
devices == <<core, data>>
metadata == <<line, cached, drift>>
disks == <<disk, page>>
history == <<live, hurt>>

\* Data values: what was there first, what each write writes, discarded data.
CoreVal(l) == <<"core", l>>
DirtyVal(l) == <<"dirty", l>>
Val(r, cmd) == <<IF cmd.op = "discard" THEN "zero" ELSE "write", r>>
Vals == ({"core", "dirty"} \X CoreLines) \cup ({"write", "zero"} \X Reqs)
          \cup {<<"junk", NoLine>>}

Idle == [pc |-> "idle", eng |-> "none", cmd |-> NoLine, c |-> NoLine,
         st |-> "miss", dirty |-> FALSE, pass2 |-> FALSE, force |-> FALSE,
         io |-> {}, bad |-> {}, val |-> <<>>, past |-> {}, ans |-> "none"]

Init ==
    \E p \in Scenarios :
      LET ls == p.lines IN
      /\ line = ls
      /\ disk = [c \in CacheLines |-> [cl |-> ls[c].cl, dirty |-> ls[c].dirty]]
      /\ core = [l \in CoreLines |-> [s \in Sectors |-> CoreVal(l)]]
      /\ data = [c \in CacheLines |-> [s \in Sectors |->
                   IF s \in ls[c].dirty THEN DirtyVal(ls[c].cl)
                   ELSE IF s \in ls[c].valid THEN CoreVal(ls[c].cl)
                   ELSE <<"junk", NoLine>>]]
      /\ live = [l \in CoreLines |-> [s \in Sectors |->
                   IF \E c \in CacheLines : ls[c].cl = l /\ s \in ls[c].dirty
                   THEN {DirtyVal(l)} ELSE {CoreVal(l)}]]
      /\ lock = [c \in CacheLines |-> [rw |-> "none", held |-> {}, q |-> <<>>]]
      /\ page = [g \in {PageOf[c] : c \in CacheLines} |-> {}]
      /\ req = [r \in Reqs |-> [Idle EXCEPT !.cmd = p.cmd[r]]]
      /\ cached = Cardinality({c \in CacheLines : ls[c].valid # {}})
      /\ faults = p.faults
      /\ hurt = {}
      /\ drift = 0
-----------------------------------------------------------------------------
(* The cache line lock, as module Alock specifies it: a reader joins readers *)
(* unless somebody waits, and a line that becomes free goes to the first     *)
(* waiter, and if that one reads, to the readers right behind it.            *)

Me(r) == req[r]
L(r) == req[r].cmd.l
Secs(r) == req[r].cmd.secs
Holds(r) == req[r].c # NoLine /\ r \in lock[req[r].c].held
Waiters(c) == lock[c].q # <<>>

Step(r, new) ==
    /\ req' = [req EXCEPT ![r] = new]
    /\ UNCHANGED lock

\* ocf_req_async_lock_rd / _wr on line c, called with the request new: it goes
\* on at once ("do"), or waits to be resumed.
Locking(r, new, c, rw) ==
    LET free == \/ lock[c].held = {}
                \/ rw = "rd" /\ lock[c].rw = "rd" /\ ~Waiters(c)
    IN /\ lock' = [lock EXCEPT ![c] =
                     IF free THEN [@ EXCEPT !.rw = rw, !.held = @ \cup {r}]
                     ELSE [@ EXCEPT !.q = Append(@, [who |-> r, rw |-> rw])]]
       /\ req' = [req EXCEPT ![r] = [new EXCEPT !.pc = IF free THEN "do" ELSE "wait"]]

\* The number of waiters of a freed line that get it.
Grants(q) ==
    IF q = <<>> THEN 0
    ELSE IF q[1].rw = "wr" THEN 1
    ELSE Cardinality({n \in 1..Len(q) : \A m \in 1..n : q[m].rw = "rd"})

\* ocf_req_unlock: r gives back the line it may hold and goes on as new; the
\* waiters that get the line are resumed.
Release(r, new) ==
    IF ~Holds(r) THEN Step(r, new)
    ELSE LET c == req[r].c
             q == lock[c].q
             n == IF lock[c].held = {r} THEN Grants(q) ELSE 0
             granted == {q[k].who : k \in 1..n}
         IN /\ lock' = [lock EXCEPT ![c] =
                 [rw |-> IF n > 0 THEN q[1].rw
                         ELSE IF @.held = {r} THEN "none" ELSE @.rw,
                  held |-> (@.held \ {r}) \cup granted,
                  q |-> SubSeq(q, n + 1, Len(q))]]
            /\ req' = [x \in Reqs |->
                 IF x = r THEN new
                 ELSE IF x \in granted THEN [req[x] EXCEPT !.pc = "resume"]
                 ELSE req[x]]

-----------------------------------------------------------------------------
(* Answers to the user and what they mean for later reads *)

\* A discard of sector s of core line l is in progress: what the sector returns
\* meanwhile, and what the discard leaves of concurrent writes, is undefined.
Discarding(l, s) ==
    \E r \in Reqs : <<"zero", r>> \in live[l][s] /\ req[r].ans = "none"

\* Values of sector s of core line l that no ongoing write is to write.
Settled(l, s) ==
    IF Discarding(l, s) THEN {}
    ELSE {v \in live[l][s] : v[1] = "write" => req[v[2]].ans # "none"}

\* What request r, submitted now as cmd, must not return (a read), or makes
\* obsolete when it succeeds (a write).
Past(r, cmd) ==
    IF cmd.op = "read"
    THEN {sv \in cmd.secs \X Vals :
            /\ sv[2] \notin live[cmd.l][sv[1]]
            /\ sv[2][1] \in {"write", "zero"} => req[sv[2][2]].pc # "idle"}
    ELSE {sv \in cmd.secs \X Vals : sv[2] \in Settled(cmd.l, sv[1])}

\* Mutant: the user hears of successes only.
AnsweredOnSuccess(new, ok) == IF ok THEN [new EXCEPT !.ans = "ok"] ELSE new

\* r is answered: req->complete(req, error).
Answered(new, ok) == [new EXCEPT !.ans = IF ok THEN "ok" ELSE "error"]

\* Sectors of r that the cache device still records as dirty in a line which
\* somebody else has purged, and whose flush is on its way.
Purging(r) ==
    {s \in Secs(r) : \E c \in CacheLines :
        /\ disk[c].cl = L(r) /\ s \in disk[c].dirty
        /\ line[c].cl # L(r) /\ r \notin lock[c].held}

\* A write that succeeds supersedes what was settled when it was submitted.  One
\* that fails leaves its sectors undefined, and a discard promises nothing.
OutcomeHurting(r, ok, more) ==
    LET cmd == req[r].cmd IN
    IF cmd.op # "write" THEN hurt' = hurt \cup more /\ UNCHANGED live
    ELSE IF ok
    THEN /\ live' = [live EXCEPT ![cmd.l] = [s \in Sectors |->
                      IF Discarding(cmd.l, s) THEN @[s]
                      ELSE @[s] \ {v \in Vals : <<s, v>> \in req[r].past}]]
         /\ hurt' = hurt \cup more \cup ({cmd.l} \X Purging(r) \X {"unflushed"})
    ELSE /\ hurt' = hurt \cup more \cup ({cmd.l} \X cmd.secs \X {"failed"})
         /\ UNCHANGED live

Outcome(r, ok) == OutcomeHurting(r, ok, {})

\* The request is answered, unlocked and over.
FinishHurting(r, new, ok, more) ==
    /\ Release(r, Answered([new EXCEPT !.pc = "end"], ok))
    /\ OutcomeHurting(r, ok, more)

Finish(r, new, ok) == FinishHurting(r, new, ok, {})

Fault ==
    /\ faults > 0
    /\ faults' = faults - 1
-----------------------------------------------------------------------------
(* Submission: ocf_core_volume_submit_io, _discard, and a cleaning policy *)

\* cache_mode_io_if_map: the engine of a cache mode and a direction.
EngineOf(cmd) ==
    CASE cmd.op \in {"discard", "clean"} -> cmd.op
      [] cmd.op = "read" -> IF cmd.mode \in {"pt", "cutoff"} THEN "pt"
                            ELSE IF cmd.mode = "wo" THEN "wo" ELSE "rd"
      [] cmd.op = "write" -> IF cmd.mode \in {"pt", "cutoff"} THEN "wi"
                             ELSE IF cmd.mode = "wo" THEN "wb" ELSE cmd.mode

\* _ocf_core_req_resolve_fast_mode: whether the fast engine is tried first.
TriesFast(cmd) ==
    /\ cmd.op \in {"read", "write"}
    /\ cmd.mode \notin {"pt", "cutoff"}
    /\ cmd.mode \in {"wb", "wo"} \/ SubmitFast

Submit(r) ==
    LET cmd == Me(r).cmd IN
    /\ Me(r).pc = "idle" /\ cmd # NoLine
    /\ cmd.op = "clean" => \E c \in CacheLines : line[c].cl = cmd.l /\ line[c].dirty # {}
    /\ Step(r, [req[r] EXCEPT !.pc = "enter", !.past = Past(r, cmd),
                  !.eng = IF TriesFast(cmd) THEN "fast" ELSE EngineOf(cmd)])
    /\ live' = IF cmd.op \in {"read", "clean"} THEN live
               ELSE [live EXCEPT ![cmd.l] = [s \in Sectors |->
                       IF s \in cmd.secs THEN @[s] \cup {Val(r, cmd)} ELSE @[s]]]
    /\ UNCHANGED <<devices, metadata, disks, faults, hurt>>

-----------------------------------------------------------------------------
(* Lookup, mapping and locking: engine_common.c *)

\* ocf_engine_lookup: the line that maps the request's core line, whether its
\* requested sectors are valid, and whether any sector of it is dirty.
Lookup(r) ==
    IF \E c \in CacheLines : line[c].cl = L(r)
    THEN LET c == CHOOSE x \in CacheLines : line[x].cl = L(r) IN
         [req[r] EXCEPT !.c = c,
            !.st = IF Secs(r) \subseteq line[c].valid THEN "hit" ELSE "invalid",
            !.dirty = line[c].dirty # {}]
    ELSE [req[r] EXCEPT !.c = NoLine, !.st = "miss", !.dirty = FALSE]

\* ocf_req_clear: the request forgets its map before it changes engines.
Reenter(r, eng, force) ==
    [req[r] EXCEPT !.pc = "enter", !.eng = eng, !.force = force,
                   !.c = NoLine, !.st = "miss", !.dirty = FALSE]

\* A mapping error: reads go to the core, writes to write-invalidate.
MapError(r) ==
    Step(r, IF Me(r).eng = "rd" THEN Reenter(r, "pt", TRUE) ELSE Reenter(r, "wi", FALSE))

\* lock_clines
LockMapped(r, new) ==
    Locking(r, new, new.c,
            IF new.cmd.op = "read" /\ new.st = "hit" THEN "rd" ELSE "wr")

\* The part of ocf_engine_prepare_clines that runs under the hash bucket read
\* lock, with the bypass of ocf_read_generic when too many backfills are queued.
\* A disabled partition and the promotion policy are a mapping error.
PrepareLookup(r) ==
    /\ Me(r).pc = "enter" /\ Me(r).eng \in {"rd", "wt", "wb"}
    /\ LET new == Lookup(r) IN
       \/ /\ Me(r).eng = "rd"
          /\ Step(r, Reenter(r, "pt", TRUE))
       \/ /\ new.st # "miss"
          /\ LockMapped(r, new)
       \/ /\ new.st = "miss"
          /\ MapError(r) \/ Step(r, [new EXCEPT !.pc = "map"])
    /\ UNCHANGED <<devices, metadata, disks, faults, history>>

\* "Repeat lookup after upgrading lock"
LookupAgain(r) == Lookup(r)

Free == {c \in CacheLines : line[c].cl = NoLine /\ lock[c].held = {}}

\* Mutant: a line is evicted without a look at its dirty bits.
VictimsDirtyToo(r) ==
    {c \in CacheLines : line[c].cl \notin {NoLine, L(r)} /\ lock[c].held = {} /\ ~Waiters(c)}

\* What eviction may take: a mapped clean line nobody uses or waits for.
Victims(r) ==
    {c \in CacheLines : /\ line[c].cl \notin {NoLine, L(r)} /\ line[c].dirty = {}
                        /\ lock[c].held = {} /\ ~Waiters(c)}

\* ocf_space_managment_remap_do takes a free line, else evicts one.
Candidates(r) == IF Free # {} THEN Free ELSE Victims(r)

\* ocf_lru_req_clines: line c comes to r write locked.  ocf_lru_invalidate
\* counts an evicted line out of cached_clines whatever its valid bits.
Remap(r, new, c) ==
    /\ line' = [line EXCEPT ![c] = [cl |-> L(r), valid |-> {}, dirty |-> {}]]
    /\ cached' = IF line[c].cl = NoLine THEN cached ELSE cached - 1
    /\ drift' = IF line[c].cl # NoLine /\ line[c].valid = {} THEN drift + 1 ELSE drift
    /\ Locking(r, [new EXCEPT !.c = c, !.st = "remapped"], c, "wr")

\* The rest of ocf_engine_prepare_clines, under the write lock.
PrepareMap(r) ==
    /\ Me(r).pc = "map"
    /\ LET new == LookupAgain(r) IN
          \/ /\ new.st # "miss"
             /\ LockMapped(r, new)
             /\ UNCHANGED metadata
          \/ /\ new.st = "miss" /\ Candidates(r) = {}
             /\ MapError(r)
             /\ UNCHANGED metadata
          \/ /\ new.st = "miss"
             /\ \E c \in Candidates(r) : Remap(r, new, c)
    /\ UNCHANGED <<devices, disks, faults, history>>

\* ocf_read_fast / ocf_write_fast.  A full partition or a miss leaves the
\* request to the engine of its mode.
EnterFast(r) ==
    /\ Me(r).pc = "enter" /\ Me(r).eng = "fast"
    /\ LET new == Lookup(r) IN
       \/ /\ new.cmd.op = "read" /\ new.st = "hit"
          /\ Locking(r, new, new.c, "rd")
       \/ /\ new.cmd.op = "write" /\ new.st # "miss"
          /\ Locking(r, [new EXCEPT !.eng = "wb"], new.c, "wr")
       \/ Step(r, Reenter(r, EngineOf(new.cmd), FALSE))
    /\ UNCHANGED <<devices, metadata, disks, faults, history>>

\* ocf_read_pt.  The sequential cutoff reads dirty data through the cache.
EnterPt(r) ==
    /\ Me(r).pc = "enter" /\ Me(r).eng = "pt"
    /\ LET new == Lookup(r) IN
       IF new.cmd.mode = "cutoff" /\ ~new.force /\ new.st = "hit" /\ Secs(r) \subseteq line[new.c].dirty
       THEN Step(r, Reenter(r, "rd", FALSE))
       ELSE IF new.st = "miss" THEN Step(r, [new EXCEPT !.pc = "do"])
       ELSE Locking(r, new, new.c, "rd")
    /\ UNCHANGED <<devices, metadata, disks, faults, history>>

\* ocf_read_wo
EnterWo(r) ==
    /\ Me(r).pc = "enter" /\ Me(r).eng = "wo"
    /\ LET new == Lookup(r) IN
       IF new.st = "miss" THEN Step(r, [new EXCEPT !.pc = "do"])
       ELSE Locking(r, new, new.c, "rd")
    /\ UNCHANGED <<devices, metadata, disks, faults, history>>

\* ocf_write_wa
EnterWa(r) ==
    /\ Me(r).pc = "enter" /\ Me(r).eng = "wa"
    /\ Step(r, Reenter(r, IF Lookup(r).st = "hit" THEN "wt" ELSE "wi", FALSE))
    /\ UNCHANGED <<devices, metadata, disks, faults, history>>

\* The mapped lines of a request are locked for writing, none is added.
LockForPurge(r) ==
    /\ LET new == Lookup(r) IN
       IF new.st = "miss" THEN Step(r, [new EXCEPT !.pc = "do"])
       ELSE Locking(r, new, new.c, "wr")
    /\ UNCHANGED <<devices, metadata, disks, faults, history>>

\* ocf_write_wi, on both passes
EnterWi(r) ==
    /\ Me(r).pc = "enter" /\ Me(r).eng = "wi"
    /\ LockForPurge(r)

\* _ocf_discard_step
DiscardStep(r) ==
    /\ Me(r).pc = "enter" /\ Me(r).eng = "purge"
    /\ LockForPurge(r)

\* ocf_cleaner_fire for a line a cleaning policy chose (lock_cacheline).
EnterClean(r) ==
    /\ Me(r).pc = "enter" /\ Me(r).eng = "clean"
    /\ LET new == Lookup(r) IN
       IF new.dirty THEN Locking(r, new, new.c, "rd")
       ELSE Step(r, [new EXCEPT !.pc = "end"])
    /\ UNCHANGED <<devices, metadata, disks, faults, history>>

\* Mutant: a request goes on with what it saw before it waited.
RefreshedNot(r) == [req[r] EXCEPT !.pc = "do"]

\* ocf_engine_check on the one map entry.  Only an entry whose status is still
\* LOOKUP_HIT has its dirty bits looked at.
Refreshed(r) ==
    LET c == Me(r).c IN
    [req[r] EXCEPT !.pc = "do",
       !.st = IF @ = "hit" /\ ~(Secs(r) \subseteq line[c].valid) THEN "invalid" ELSE @,
       !.dirty = Me(r).st = "hit" /\ line[c].dirty # {}]

\* Sectors of a read that the refresh fails to see dirty.
Unseen(r) ==
    IF Me(r).cmd.op = "read" /\ ~Refreshed(r).dirty
    THEN Secs(r) \cap line[Me(r).c].dirty ELSE {}

\* ocf_engine_on_resume and _ocf_engine_refresh.
Refresh(r) ==
    /\ Me(r).pc = "resume" /\ Me(r).eng \in {"rd", "fast", "pt", "wo", "wt", "wb"}
    /\ IF line[Me(r).c].cl = L(r)
       THEN /\ Step(r, Refreshed(r))
            /\ hurt' = hurt \cup ({L(r)} \X Unseen(r) \X {"blind"})
            /\ UNCHANGED live
       ELSE Finish(r, req[r], FALSE)
    /\ UNCHANGED <<devices, metadata, disks, faults>>

\* _ocf_write_wi_on_resume, _ocf_discard_on_resume, _ocf_cleaner_on_resume
Resume(r) ==
    /\ Me(r).pc = "resume" /\ Me(r).eng \in {"wi", "purge", "clean"}
    /\ Step(r, [req[r] EXCEPT !.pc = "do"])
    /\ UNCHANGED <<devices, metadata, disks, faults, history>>

-----------------------------------------------------------------------------
(* Reads: engine_rd.c, engine_fast.c, engine_pt.c, engine_wo.c, engine_bf.c *)

Goto(r, pc) == Step(r, [req[r] EXCEPT !.pc = pc])

\* What the handler of a read does once it has its lock: a miss under a read
\* lock, and every miss of the fast engine, is passed through to the core; a
\* line with dirty sectors is cleaned first, except by the write-only engine.
NextOfRead(r) ==
    LET me == Me(r) IN
    IF me.st = "hit" /\ me.eng # "pt" THEN "hit"
    ELSE IF me.dirty /\ me.eng # "wo" THEN "clean"
    ELSE IF me.eng = "rd" /\ lock[me.c].rw = "wr" THEN "fetch"
    ELSE "core"

DoRead(r) ==
    /\ Me(r).pc = "do" /\ Me(r).cmd.op = "read"
    /\ Goto(r, NextOfRead(r))
    /\ UNCHANGED <<devices, metadata, disks, faults, history>>

FromCore(r) == [s \in Secs(r) |-> core[L(r)][s]]

\* _ocf_read_generic_hit_complete, _ocf_read_fast_complete: a cache error is
\* retried on the core.
HitComplete(r) ==
    /\ Me(r).pc = "hit"
    /\ \/ /\ Finish(r, [req[r] EXCEPT !.val = [s \in Secs(r) |-> data[Me(r).c][s]]], TRUE)
          /\ UNCHANGED faults
       \/ /\ Fault
          /\ Step(r, [req[r] EXCEPT !.pc = "do", !.eng = "pt"])
          /\ UNCHANGED history
    /\ UNCHANGED <<devices, metadata, disks>>
\* _ocf_read_generic_miss_complete: the user has the data before the backfill.
MissComplete(r) ==
    /\ Me(r).pc = "fetch"
    /\ \/ /\ Step(r, Answered([req[r] EXCEPT !.pc = "backfill", !.val = FromCore(r)], TRUE))
          /\ UNCHANGED faults
       \/ /\ Fault
          /\ Step(r, Answered([req[r] EXCEPT !.pc = "invalidate"], FALSE))
    /\ UNCHANGED <<devices, metadata, disks, history>>

\* The requested sectors of the request's cache line now hold v.
CacheWrite(r, v) ==
    data' = [data EXCEPT ![Me(r).c] = [s \in Sectors |-> IF s \in Secs(r) THEN v[s] ELSE @[s]]]

\* _ocf_backfill_do and its completion; a missing buffer is one of the faults.
Backfill(r) ==
    /\ Me(r).pc = "backfill"
    /\ \/ CacheWrite(r, Me(r).val) /\ UNCHANGED faults /\ Goto(r, "validate")
       \/ Fault /\ (CacheWrite(r, Me(r).val) \/ UNCHANGED data) /\ Goto(r, "invalidate")
    /\ UNCHANGED <<core, metadata, disks, history>>

\* ocf_set_valid_map_info: the requested sectors become valid.
SetValid(e, secs) == [e EXCEPT !.valid = @ \cup secs]

\* set_cache_line_clean, set_cache_line_dirty
SetClean(e, secs) == [e EXCEPT !.dirty = @ \ secs]
SetDirty(e, secs) == [e EXCEPT !.dirty = @ \cup secs]

CountValid(e) == IF e.valid = {} THEN cached + 1 ELSE cached

\* _ocf_backfill_update_metadata
BackfillUpdateMetadata(r) ==
    /\ Me(r).pc = "validate"
    /\ line' = [line EXCEPT ![Me(r).c] = SetValid(@, Secs(r))]
    /\ cached' = CountValid(line[Me(r).c])
    /\ Release(r, [req[r] EXCEPT !.pc = "end"])
    /\ UNCHANGED <<devices, drift, disks, faults, history>>

\* _ocf_read_pt_do, _ocf_read_pt_complete; a miss of the other engines ends here
PtComplete(r) ==
    /\ Me(r).pc = "core" /\ Me(r).eng # "wo"
    /\ \/ Finish(r, [req[r] EXCEPT !.val = FromCore(r)], TRUE) /\ UNCHANGED faults
       \/ Fault /\ Finish(r, req[r], FALSE)
    /\ UNCHANGED <<devices, metadata, disks>>

\* ocf_read_wo_do, ocf_read_wo_core_complete: dirty data is read over what came
\* from the core.
WoCoreComplete(r) ==
    /\ Me(r).pc = "core" /\ Me(r).eng = "wo"
    /\ LET new == [req[r] EXCEPT !.val = FromCore(r)] IN
       \/ /\ UNCHANGED faults
          /\ IF new.dirty
             THEN Step(r, [new EXCEPT !.pc = "overlay"]) /\ UNCHANGED history
             ELSE Finish(r, new, TRUE)
       \/ Fault /\ Finish(r, req[r], FALSE)
    /\ UNCHANGED <<devices, metadata, disks>>

\* ocf_read_wo_cache_do, ocf_read_wo_cache_complete
WoCacheComplete(r) ==
    /\ Me(r).pc = "overlay"
    /\ \/ /\ Finish(r, [req[r] EXCEPT !.val = [s \in Secs(r) |->
                          IF s \in line[Me(r).c].valid THEN data[Me(r).c][s] ELSE @[s]]], TRUE)
          /\ UNCHANGED faults
       \/ /\ Fault
          /\ Finish(r, req[r], FALSE)
    /\ UNCHANGED <<devices, metadata, disks>>

-----------------------------------------------------------------------------
(* Invalidation: utils_cache_line.c, engine_inv.c *)

\* Mutant: the line leaves the hash table while a request waits for it.
PurgedUnderWaiters(c, secs) ==
    IF line[c].valid \subseteq secs THEN [cl |-> NoLine, valid |-> {}, dirty |-> {}]
    ELSE [line[c] EXCEPT !.valid = @ \ secs, !.dirty = @ \ secs]

\* ocf_purge_map_info and __set_cache_line_invalid: the entry that is left.  A
\* line without valid sectors goes to the free list, unless somebody waits.
Purged(c, secs) ==
    IF line[c].valid \subseteq secs /\ ~Waiters(c)
    THEN [cl |-> NoLine, valid |-> {}, dirty |-> {}]
    ELSE [line[c] EXCEPT !.valid = @ \ secs, !.dirty = @ \ secs]

Purge(r) ==
    LET c == Me(r).c IN
    /\ line' = [line EXCEPT ![c] = Purged(c, Secs(r))]
    /\ cached' = IF line[c].valid # {} /\ line[c].valid \subseteq Secs(r)
                 THEN cached - 1 ELSE cached
    /\ UNCHANGED drift

\* _ocf_invalidate_do, on a volume that is not atomic: nothing is flushed.
Invalidate(r) ==
    /\ Me(r).pc = "invalidate"
    /\ Purge(r)
    /\ Release(r, [req[r] EXCEPT !.pc = "end"])
    /\ UNCHANGED <<devices, disks, faults, history>>
-----------------------------------------------------------------------------
(* Writes and discards: engine_wt.c, engine_wb.c, engine_wi.c, engine_discard.c *)

CoreWrite(r) ==
    core' = [core EXCEPT ![L(r)] = [s \in Sectors |->
               IF s \in Secs(r) THEN Val(r, Me(r).cmd) ELSE @[s]]]

New(r) == [s \in Secs(r) |-> Val(r, Me(r).cmd)]

\* _ocf_write_wt_do: unless dirty bits have to change, the valid bits are set
\* before the data is written.
DoWt(r) ==
    /\ Me(r).pc = "do" /\ Me(r).eng = "wt"
    /\ IF Me(r).dirty \/ Me(r).st = "hit" THEN UNCHANGED <<line, cached>>
       ELSE /\ line' = [line EXCEPT ![Me(r).c] = SetValid(@, Secs(r))]
            /\ cached' = CountValid(line[Me(r).c])
    /\ Step(r, [req[r] EXCEPT !.pc = "wtio", !.io = {"cache", "core"}])
    /\ UNCHANGED <<devices, drift, disks, faults, history>>

\* Sectors that stay dirty in the copy on the cache device although the core
\* has newer data: the invalidation that follows is not flushed.
Resurrectable(r) ==
    {L(r)} \X (disk[Me(r).c].dirty \cap Secs(r)) \X {"unflushed"}

\* _ocf_write_wt_req_complete, called as each device completes.
WtReqComplete(r, new) ==
    IF new.io # {} THEN Step(r, new) /\ UNCHANGED history
    ELSE IF new.bad # {}
    THEN LET ok == "core" \notin new.bad IN
         Step(r, Answered([new EXCEPT !.pc = "invalidate"], ok))
         /\ OutcomeHurting(r, ok, Resurrectable(r))
    ELSE IF new.dirty THEN Step(r, [new EXCEPT !.pc = "wtflush"]) /\ UNCHANGED history
    ELSE Finish(r, new, TRUE)

\* _ocf_write_wt_cache_complete and _ocf_write_wt_core_complete
WtIoComplete(r, dev) ==
    /\ Me(r).pc = "wtio" /\ dev \in Me(r).io
    /\ LET lands == IF dev = "core" THEN CoreWrite(r) /\ UNCHANGED data
                    ELSE CacheWrite(r, New(r)) /\ UNCHANGED core
           new == [req[r] EXCEPT !.io = @ \ {dev}]
       IN \/ lands /\ UNCHANGED faults /\ WtReqComplete(r, new)
          \/ /\ Fault /\ (lands \/ UNCHANGED devices)
             /\ WtReqComplete(r, [new EXCEPT !.bad = @ \cup {dev}])
    /\ UNCHANGED <<metadata, disks>>

\* The metadata of r's line changed; r waits for its flush when dirty bits did.
Flush(r, changed, done) ==
    IF changed THEN Goto(r, "flush") /\ UNCHANGED history ELSE done

\* ocf_write_wt_do_flush_metadata
WtFlushMetadata(r) ==
    LET c == Me(r).c IN
    /\ Me(r).pc = "wtflush"
    /\ line' = [line EXCEPT ![c] = SetClean(SetValid(@, Secs(r)), Secs(r))]
    /\ cached' = CountValid(line[c])
    /\ Flush(r, line[c].dirty \cap Secs(r) # {}, Finish(r, req[r], TRUE))
    /\ UNCHANGED <<devices, drift, disks, faults>>

\* ocf_write_wb_do, _ocf_write_wb_complete
WbComplete(r) ==
    /\ Me(r).pc = "do" /\ Me(r).eng = "wb"
    /\ \/ /\ CacheWrite(r, New(r)) /\ UNCHANGED faults
          /\ Goto(r, "wbflush") /\ UNCHANGED history
       \/ /\ Fault /\ (CacheWrite(r, New(r)) \/ UNCHANGED data)
          /\ Step(r, Answered([req[r] EXCEPT !.pc = "invalidate"], FALSE))
          /\ Outcome(r, FALSE)
    /\ UNCHANGED <<core, metadata, disks>>

\* Mutant: the write is acknowledged without waiting for its metadata.
WbFlushMetadataNot(r) ==
    LET c == Me(r).c IN
    /\ Me(r).pc = "wbflush"
    /\ line' = [line EXCEPT ![c] = SetDirty(SetValid(@, Secs(r)), Secs(r))]
    /\ cached' = CountValid(line[c])
    /\ Finish(r, req[r], TRUE)
    /\ UNCHANGED <<devices, drift, disks, faults>>

\* ocf_write_wb_do_flush_metadata
WbFlushMetadata(r) ==
    LET c == Me(r).c IN
    /\ Me(r).pc = "wbflush"
    /\ line' = [line EXCEPT ![c] = SetDirty(SetValid(@, Secs(r)), Secs(r))]
    /\ cached' = CountValid(line[c])
    /\ Flush(r, ~(Secs(r) \subseteq line[c].dirty), Finish(r, req[r], TRUE))
    /\ UNCHANGED <<devices, drift, disks, faults>>

\* The end of a pass of write-invalidate: a request that was not a full hit
\* looks once more for a line inserted behind its back.
WiNextPass(r) ==
    IF Me(r).eng = "wi" /\ ~Me(r).pass2 /\ Me(r).st # "hit"
    THEN Release(r, [Reenter(r, "wi", FALSE) EXCEPT !.pass2 = TRUE]) /\ UNCHANGED history
    ELSE Finish(r, req[r], TRUE)

\* _ocf_write_wi_core_write, _ocf_write_wi_core_complete
WiCoreWrite(r) ==
    /\ Me(r).pc = "do" /\ Me(r).eng = "wi" /\ ~Me(r).pass2
    /\ \/ /\ Me(r).dirty
          /\ Goto(r, "clean")
          /\ UNCHANGED <<core, faults, history>>
       \/ /\ ~Me(r).dirty
          /\ CoreWrite(r)
          /\ Goto(r, "wiflush")
          /\ UNCHANGED <<faults, history>>
       \/ /\ ~Me(r).dirty
          /\ Fault /\ (CoreWrite(r) \/ UNCHANGED core)
          /\ Finish(r, req[r], FALSE)
    /\ UNCHANGED <<data, metadata, disks>>

\* Acknowledged data that the second pass drops without writing it back.
Dropped(r) ==
    IF Me(r).pass2 THEN {L(r)} \X (line[Me(r).c].dirty \cap Secs(r)) \X {"dropped"} ELSE {}

\* The mapped line loses the request's sectors; the request goes on after the
\* flush, if dirty sectors were among them.
PurgeAndFlush(r) ==
    /\ IF Me(r).st = "miss" THEN WiNextPass(r) /\ UNCHANGED metadata
       ELSE /\ Purge(r)
            /\ IF line[Me(r).c].dirty \cap Secs(r) = {} THEN WiNextPass(r)
               ELSE /\ Goto(r, "flush")
                    /\ hurt' = hurt \cup Dropped(r)
                    /\ UNCHANGED live
    /\ UNCHANGED <<devices, disks, faults>>

\* ocf_write_wi_update_and_flush_metadata
WiFlushMetadata(r) ==
    /\ \/ Me(r).pc = "wiflush"
       \/ Me(r).pc = "do" /\ Me(r).eng = "wi" /\ Me(r).pass2
    /\ PurgeAndFlush(r)

\* _ocf_discard_step_do
DiscardStepDo(r) ==
    /\ Me(r).pc = "do" /\ Me(r).eng = "purge"
    /\ PurgeAndFlush(r)

\* ocf_engine_discard, _ocf_discard_core_complete: the core is told first, and
\* only whole cache lines are then invalidated.
DiscardCoreComplete(r) ==
    /\ Me(r).pc = "enter" /\ Me(r).eng = "discard"
    /\ \/ /\ CoreWrite(r) /\ UNCHANGED faults
          /\ IF Secs(r) = Sectors THEN Step(r, Reenter(r, "purge", FALSE)) /\ UNCHANGED history
             ELSE Finish(r, req[r], TRUE)
       \/ /\ Fault /\ (CoreWrite(r) \/ UNCHANGED core)
          /\ Finish(r, req[r], FALSE)
    /\ UNCHANGED <<data, metadata, disks>>
-----------------------------------------------------------------------------
(* Cleaning: utils_cleaner.c, for a request (ocf_engine_clean) that holds the *)
(* line, or for a cleaning policy, which takes a read lock.                   *)

\* _ocf_cleaner_core_submit_io: the sectors written to the core.
Cleaned(c) == IF line[c].valid = Sectors THEN Sectors ELSE line[c].dirty

\* Clean sectors whose newer data on the core the cleaner overwrites.
Overwritten(c) ==
    {line[c].cl} \X {s \in Cleaned(c) \ line[c].dirty : core[line[c].cl][s] # data[c][s]}
      \X {"overwritten"}

\* _ocf_cleaner_complete_req and, for a request, _ocf_engine_clean_end
CleanEnd(r) ==
    IF Me(r).eng = "clean" THEN Finish(r, req[r], TRUE)
    ELSE Step(r, [req[r] EXCEPT !.pc = "do", !.dirty = FALSE, !.io = {}]) /\ UNCHANGED history

\* _ocf_cleaner_check_map, the read from the cache and the write to the core
CleanLine(r) ==
    LET c == Me(r).c
        writeBack == core' = [core EXCEPT ![line[c].cl] = [s \in Sectors |->
                                IF s \in Cleaned(c) THEN data[c][s] ELSE @[s]]]
    IN
    /\ \/ Me(r).pc = "clean"
       \/ Me(r).pc = "do" /\ Me(r).eng = "clean"
    /\ \/ /\ line[c].cl # L(r) \/ line[c].dirty = {}
          /\ CleanEnd(r)
          /\ UNCHANGED <<core, faults>>
       \/ /\ line[c].cl = L(r) /\ line[c].dirty # {}
          /\ writeBack
          /\ hurt' = hurt \cup Overwritten(c)
          /\ Goto(r, "cleaned")
          /\ UNCHANGED <<live, faults>>
       \/ /\ line[c].cl = L(r) /\ line[c].dirty # {}
          /\ Fault
          /\ \/ UNCHANGED core /\ Finish(r, req[r], FALSE)
             \/ writeBack /\ FinishHurting(r, req[r], FALSE, Overwritten(c))
    /\ UNCHANGED <<data, metadata, disks>>

\* _ocf_cleaner_update_metadata
CleanUpdateMetadata(r) ==
    LET c == Me(r).c IN
    /\ Me(r).pc = "cleaned"
    /\ line' = [line EXCEPT ![c] = SetClean(@, Sectors)]
    /\ IF line[c].dirty = {} THEN CleanEnd(r)
       ELSE Step(r, [req[r] EXCEPT !.pc = "flush", !.io = {"clean"}]) /\ UNCHANGED history
    /\ UNCHANGED <<devices, cached, drift, disks, faults>>

-----------------------------------------------------------------------------
(* Persisting the collision table: _raw_ram_flush_do_asynch, metadata_io.c    *)

Image(g) == [c \in {x \in CacheLines : PageOf[x] = g} |->
               [cl |-> line[c].cl, dirty |-> line[c].dirty]]

\* _raw_ram_flush_do_asynch_fill, once the page lock is there
FlushFill(r) ==
    LET g == PageOf[Me(r).c] IN
    /\ Me(r).pc = "flush" /\ page[g] = {}
    /\ page' = [page EXCEPT ![g] = {Image(g)}]
    /\ Goto(r, "write")
    /\ UNCHANGED <<devices, metadata, disk, faults, history>>

\* Core lines whose entries differ between a page's image and the device.
Stale(image) ==
    UNION {{image[c].cl, disk[c].cl} : c \in {x \in DOMAIN image : image[x] # disk[x]}}
      \ {NoLine}

\* The page is written and the engine's completion runs.  A failed write ends
\* the request with an error (which _ocf_discard_step_complete may forget);
\* memory and device then stay different.
FlushComplete(r) ==
    LET g == PageOf[Me(r).c] IN
    /\ Me(r).pc = "write"
    /\ \E image \in page[g] :
         LET lands == disk' = [c \in CacheLines |-> IF c \in DOMAIN image THEN image[c]
                                                   ELSE disk[c]]
         IN \/ /\ lands /\ UNCHANGED faults
               /\ IF Me(r).io = {"clean"} THEN CleanEnd(r)
                  ELSE IF Me(r).eng \in {"wi", "purge"} THEN WiNextPass(r)
                  ELSE Finish(r, req[r], TRUE)
            \/ /\ Fault /\ (lands \/ UNCHANGED disk)
               /\ \E ok \in IF Me(r).eng = "purge" THEN BOOLEAN ELSE {FALSE} :
                    FinishHurting(r, req[r], ok, Stale(image) \X Sectors \X {"unflushed"})
    /\ page' = [page EXCEPT ![g] = {}]
    /\ UNCHANGED <<devices, metadata>>

-----------------------------------------------------------------------------
Work(r) ==
    \/ PrepareLookup(r) \/ PrepareMap(r) \/ EnterFast(r) \/ EnterPt(r) \/ EnterWo(r)
    \/ EnterWa(r) \/ EnterWi(r) \/ DiscardStep(r) \/ EnterClean(r) \/ Refresh(r) \/ Resume(r)
    \/ DoRead(r) \/ HitComplete(r) \/ MissComplete(r) \/ Backfill(r)
    \/ BackfillUpdateMetadata(r) \/ PtComplete(r) \/ WoCoreComplete(r) \/ WoCacheComplete(r)
    \/ Invalidate(r) \/ DoWt(r) \/ (\E dev \in {"cache", "core"} : WtIoComplete(r, dev))
    \/ WtFlushMetadata(r) \/ WbComplete(r) \/ WbFlushMetadata(r) \/ WiCoreWrite(r)
    \/ WiFlushMetadata(r) \/ DiscardStepDo(r) \/ DiscardCoreComplete(r) \/ CleanLine(r)
    \/ CleanUpdateMetadata(r) \/ FlushFill(r) \/ FlushComplete(r)

\* Everything submitted is over.
Done ==
    /\ \A r \in Reqs : req[r].pc \in {"idle", "end"}
    /\ UNCHANGED vars

Next == (\E r \in Reqs : Submit(r) \/ Work(r)) \/ Done

Spec == Init /\ [][Next]_vars

\* Queues are served and devices answer.
FairSpec == Spec /\ \A r \in Reqs : WF_vars(Work(r))
-----------------------------------------------------------------------------
(* Properties *)

\* The line locks are reader/writer locks (module Alock), and the variables
\* have the values the code gives them.
TypeOK ==
    /\ core \in [CoreLines -> [Sectors -> Vals]]
    /\ data \in [CacheLines -> [Sectors -> Vals]]
    /\ line \in [CacheLines -> [cl : CoreLines \cup {NoLine},
                                valid : SUBSET Sectors, dirty : SUBSET Sectors]]
    /\ disk \in [CacheLines -> [cl : CoreLines \cup {NoLine}, dirty : SUBSET Sectors]]
    /\ \A c \in CacheLines :
         /\ lock[c].rw \in {"none", "rd", "wr"} /\ lock[c].held \subseteq Reqs
         /\ lock[c].held = {} <=> lock[c].rw = "none"
         /\ lock[c].rw = "wr" => Cardinality(lock[c].held) = 1
         /\ Waiters(c) => lock[c].held # {}
    /\ live \in [CoreLines -> [Sectors -> SUBSET Vals]]
    /\ cached \in Int /\ drift \in Nat /\ faults \in Nat

\* Sector s of core line l is not touched by a known defect or failed write.
Sound(l, s, kinds) == \A k \in kinds : <<l, s, k>> \notin hurt

Runtime == {"failed", "blind", "overwritten", "dropped"}

\* A read never returns data that was overwritten before the read was
\* submitted, data of another core line, or what a cache line held before it
\* was filled: the promise of every read engine, whatever engines the other
\* requests run.
ReadFresh ==
    \A r \in Reqs : (req[r].pc # "idle" /\ req[r].cmd.op = "read" /\ req[r].ans = "ok") =>
       \A s \in Secs(r) : Sound(L(r), s, Runtime) => <<s, req[r].val[s]>> \notin req[r].past

\* The same without excuse.
ReadCurrent ==
    \A r \in Reqs : (req[r].pc # "idle" /\ req[r].cmd.op = "read" /\ req[r].ans = "ok") =>
       \A s \in Secs(r) : <<s, req[r].val[s]>> \notin req[r].past

\* No request works on core line l.
Quiet(l) == \A r \in Reqs : req[r].pc \notin {"idle", "end"} => req[r].cmd.l # l

\* Where the next read of a sector finds it.
View(l, s) ==
    LET at == {c \in CacheLines : line[c].cl = l /\ s \in line[c].valid}
    IN IF at = {} THEN {core[l][s]} ELSE {data[c][s] : c \in at}

\* Between requests, the cache and the core together hold the last data
\* written: what each engine leaves behind in valid and dirty bits is right.
CoherentWhenQuiet ==
    \A l \in CoreLines, s \in Sectors :
       Quiet(l) /\ Sound(l, s, Runtime) => View(l, s) \subseteq live[l][s]

\* The same without excuse: no acknowledged write is lost.
NoLostWrite ==
    \A l \in CoreLines, s \in Sectors : Quiet(l) => View(l, s) \subseteq live[l][s]

\* Between requests, a valid sector that is not dirty equals the core's, so that
\* eviction may drop it.  A discard of a part of a line leaves its cached data.
CleanMatchesCore ==
    \A c \in CacheLines : line[c].cl # NoLine =>
       LET l == line[c].cl IN
       Quiet(l) => \A s \in line[c].valid \ line[c].dirty :
         \/ ~Sound(l, s, Runtime)
         \/ \E v \in live[l][s] : v[1] = "zero"
         \/ data[c][s] = core[l][s]

\* Where a sector is found when the cache is loaded after a crash now: the
\* rebuild keeps the dirty sectors of the copy on the cache device and drops
\* what is clean (metadata_clear_valid_if_clean).
Recovered(l, s) ==
    LET at == {c \in CacheLines : disk[c].cl = l /\ s \in disk[c].dirty}
    IN IF at = {} THEN {core[l][s]} ELSE {data[c][s] : c \in at}

\* At any moment a crash loses no acknowledged write and brings back nothing
\* that was overwritten: data, metadata and core writes reach the devices in an
\* order that allows recovery.
CrashSafe ==
    \A l \in CoreLines, s \in Sectors :
       Sound(l, s, Runtime \cup {"unflushed"}) => Recovered(l, s) \subseteq live[l][s]

\* A line a request waits for, or has just been granted, keeps the core line it
\* was looked up for: the "Inconsistent request" of _ocf_engine_refresh, and the
\* purge of somebody else's line by the engines that do not refresh
\* (_ocf_write_wi_on_resume), cannot happen.
MappingStable ==
    \A r \in Reqs : req[r].pc \in {"wait", "resume"} => line[req[r].c].cl = L(r)

\* Two requests that miss the same core line do not both insert it, whatever
\* happens while ocf_hb_req_prot_lock_upgrade has the bucket unlocked.
OneLinePerCoreLine ==
    \A c, d \in CacheLines : line[c].cl = line[d].cl => c = d \/ line[c].cl = NoLine

\* "not valid but dirty - IMPROPER STATE!!!" (_ocf_cleaner_block_is_dirty)
DirtyImpliesValid == \A c \in CacheLines : line[c].dirty \subseteq line[c].valid

\* cached_clines counts the lines with valid sectors, short of one for every
\* eviction of a line that was mapped but held none.
CachedCounted ==
    cached = Cardinality({c \in CacheLines : line[c].valid # {}}) - drift

\* Every request is answered and gives its locks back: no two engines wait for
\* each other, and no path forgets the user.
EveryRequestEnds ==
    \A r \in Reqs : req[r].pc # "idle" ~>
       /\ req[r].pc = "end"
       /\ req[r].eng = "clean" \/ req[r].ans # "none"
       /\ \A c \in CacheLines : r \notin lock[c].held

\* Cache and core together hold the last data written, and clean data is the core's.
CacheCoherent == CoherentWhenQuiet /\ CleanMatchesCore

\* The collision table as the engines keep it: one line for each core line, kept
\* while somebody waits for it, dirty only where valid, and counted.
MappingSound ==
    /\ TypeOK /\ MappingStable /\ OneLinePerCoreLine
    /\ DirtyImpliesValid /\ CachedCounted
=============================================================================
