------------------------------ MODULE Cleaner --------------------------------
(* One cleaning order (utils/utils_cleaner.c).  ocf_cleaner_fire cuts a list of
   cache lines into requests of one core each: the first is the master, the
   others are slaves that count on it.  Each request waits for the read locks of
   its lines, looks at their mapping again, reads them from the cache, writes
   the dirty blocks to the core, flushes the core, marks the lines clean, writes
   the metadata and flushes the cache; the last request to end completes the
   order.  Requests of users, another cleaner and eviction run meanwhile.

   Data are version numbers of blocks, so that what the core holds (at once, and
   after a power failure) can be compared with what was last written.          *)
EXTENDS Integers, FiniteSets, Sequences, FiniteSetsExt, SequencesExt

CONSTANTS
    Lines,       \* cache lines
    Blocks,      \* blocks of a line
    CoreLines,   \* core lines; each line starts mapped to one
    Spare,       \* the core line that a line may be remapped to
    Core,        \* Core[cl]: the core of a core line
    Order,       \* the lines to clean, in the order of the getter
    MaxCount,    \* _ocf_cleaner_get_req_max_count(count, false)
    LowCount,    \* _ocf_cleaner_get_req_max_count(count, true)
    MaxEvents,   \* bound: writes, remappings and cleanings by others
    MaxFail      \* bound: failures

VARIABLES
    map,         \* the core line of a line
    valid, dirty,\* the valid and the dirty blocks of a line
    data,        \* data[l][b]: the version in the cache
    core, media, \* [cl][b]: the version the core returns, and the one it keeps without power
    latest,      \* [cl][b]: the version last written by the user
    writer,      \* the line a user's request has write-locked, or None
    locking,     \* attribs->lock_cacheline; otherwise the caller has locked the lines
    fire,        \* ocf_cleaner_fire: where it is, and the next item of the order
    req,         \* the requests: req[1] is the master
    remaining,   \* master->master_remaining
    refs,        \* references of the master
    err,         \* master->error
    cmpl,        \* how often the caller's completion ran
    owed,        \* ghost: lines that were dirty and have not been clean since
    early,       \* ghost: a request ended before do_fire counted it
    freed,       \* ghost: the master was used after its last reference went
    events, fails

data_vars == <<map, valid, dirty, data, core, media, latest>>
order_vars == <<fire, remaining, refs, err, cmpl, freed, early>>
vars == <<data_vars, writer, locking, order_vars, req, owed, events, fails>>

None == -1
Reqs == 1 .. Len(Order)
NoReq == [st |-> "none", map |-> <<>>, flush |-> {}, invalid |-> FALSE, buf |-> <<>>]

Event == events < MaxEvents /\ events' = events + 1 /\ UNCHANGED fails
Fail == fails < MaxFail /\ fails' = fails + 1 /\ UNCHANGED events
NoFail == UNCHANGED <<events, fails>>

(* The lines of a request, and those it has locked. *)
LinesOf(i) == {req[i].map[k].line : k \in DOMAIN req[i].map}
Locked(i) ==
    IF locking
      THEN IF req[i].st \in {"none", "new", "wait", "done"} THEN {} ELSE LinesOf(i)
      ELSE IF cmpl = 0 THEN ToSet(Order) ELSE {}
AllLocked == UNION {Locked(i) : i \in Reqs}

------------------------------------------------------------------------------
(* Others. *)

(* A user's request write-locks a line; it ends with a block written, dirty. *)
WriteStart(l) ==
    /\ writer = None /\ l \notin AllLocked /\ Event
    /\ writer' = l
    /\ UNCHANGED <<data_vars, locking, order_vars, req, owed>>

WriteEnd(b) ==
    LET l == writer
        v == latest[map[l]][b] + 1
    IN
    /\ writer # None
    /\ valid' = [valid EXCEPT ![l] = @ \cup {b}]
    /\ dirty' = [dirty EXCEPT ![l] = @ \cup {b}]
    /\ data' = [data EXCEPT ![l][b] = v]
    /\ latest' = [latest EXCEPT ![map[l]][b] = v]
    /\ writer' = None
    /\ UNCHANGED <<map, core, media, locking, order_vars, req, owed, events, fails>>

(* The line is clean from now on. *)
Cleaned(l) == owed' = owed \ {l}

(* Another cleaner: read locks are shared, so it may clean any line that is not
   being written.                                                              *)
CleanElsewhere(l) ==
    LET cl == map[l]
        clean == [b \in Blocks |-> IF b \in dirty[l] THEN data[l][b] ELSE core[cl][b]]
    IN
    /\ dirty[l] # {} /\ l # writer /\ Event
    /\ core' = [core EXCEPT ![cl] = clean] /\ media' = [media EXCEPT ![cl] = clean]
    /\ dirty' = [dirty EXCEPT ![l] = {}]
    /\ Cleaned(l)
    /\ UNCHANGED <<map, valid, data, latest, writer, locking, order_vars, req>>

(* A clean line is evicted and mapped again, under its write lock. *)
Remap(l) ==
    /\ dirty[l] = {} /\ l # writer /\ l \notin AllLocked /\ Event
    /\ \A k \in Lines : map[k] # Spare
    /\ map' = [map EXCEPT ![l] = Spare]
    /\ valid' = [valid EXCEPT ![l] = {}]
    /\ UNCHANGED <<dirty, data, core, media, latest, writer, locking, order_vars, req, owed>>

------------------------------------------------------------------------------
(* The end of a request, and of the order. *)

(* _ocf_cleaner_complete_req with n requests remaining before it: the last one
   calls the completion and drops a reference of the master.                   *)
Complete(n, drop) ==
    /\ remaining' = n - 1
    /\ cmpl' = IF n = 1 THEN cmpl + 1 ELSE cmpl
    /\ refs' = refs - drop - (IF n = 1 THEN 1 ELSE 0)
    /\ freed' = (freed \/ refs <= 0)

(* _ocf_cleaner_finish_req: unlock, complete, deallocate. *)
FinishReq(i) ==
    /\ req' = [req EXCEPT ![i] = [NoReq EXCEPT !.st = "done"]]
    /\ Complete(remaining, IF i = 1 THEN 1 ELSE 0)
    /\ early' = (early \/ (fire.pc = "inc" /\ fire.i = i))
    /\ UNCHANGED fire

------------------------------------------------------------------------------
(* ocf_cleaner_fire *)

(* ocf_cleaner_populate_req: items of one core, as many as the request takes. *)
Populate(cap) ==
    LET same == {n \in fire.curr + 1 .. Len(Order) :
                   \A k \in fire.curr + 1 .. n : Core[map[Order[k]]] = Core[map[Order[fire.curr + 1]]]}
    IN Min({cap, Cardinality(same)})

Slot(n) == [k \in 1 .. n |-> [line |-> Order[fire.curr + k], cl |-> map[Order[fire.curr + k]]]]

(* Allocation, with a second try for a smaller request, and population. *)
Alloc ==
    /\ fire.pc = "alloc"
    /\ \E cap \in {MaxCount, LowCount} :
         /\ req' = [req EXCEPT ![fire.i] = [NoReq EXCEPT !.st = "new", !.map = Slot(Populate(cap))]]
         /\ fire' = [fire EXCEPT !.pc = "lock", !.curr = @ + Populate(cap)]
         /\ IF cap = MaxCount THEN NoFail ELSE Fail
    /\ IF fire.i = 1 THEN remaining' = 1 /\ refs' = 2 ELSE UNCHANGED <<remaining, refs>>
    /\ UNCHANGED <<data_vars, writer, locking, err, cmpl, freed, early, owed>>

AllocFails ==
    /\ fire.pc = "alloc" /\ Fail
    /\ err' = "no_mem"
    /\ IF fire.i = 1
         THEN cmpl' = 1 /\ fire' = [fire EXCEPT !.pc = "done"]
         ELSE UNCHANGED cmpl /\ fire' = [fire EXCEPT !.pc = "out"]
    /\ UNCHANGED <<data_vars, writer, locking, remaining, refs, freed, early, req, owed>>

(* The head of the loop of ocf_cleaner_fire. *)
Advance == [fire EXCEPT !.pc = IF fire.curr < Len(Order) THEN "alloc" ELSE "out",
                        !.i = IF fire.curr < Len(Order) THEN @ + 1 ELSE @]

Free(i) == ~locking \/ writer \notin LinesOf(i)

(* _ocf_cleaner_do_fire: a request that gets its locks is counted and runs; one
   that has to wait is counted afterwards, and may have run by then.           *)
Lock ==
    LET i == fire.i IN
    /\ fire.pc = "lock"
    /\ \/ /\ Free(i)
          /\ req' = [req EXCEPT ![i].st = "check"]
          /\ remaining' = remaining + 1
          /\ fire' = Advance
       \/ /\ ~Free(i)
          /\ req' = [req EXCEPT ![i].st = "wait"]
          /\ fire' = [fire EXCEPT !.pc = "inc"]
          /\ UNCHANGED remaining
    /\ UNCHANGED <<data_vars, writer, locking, refs, err, cmpl, freed, early, owed, events, fails>>

(* _ocf_cleaner_fire_error *)
LockFails ==
    LET i == fire.i IN
    /\ fire.pc = "lock" /\ locking /\ Fail
    /\ err' = "lock"
    /\ req' = [req EXCEPT ![i] = [NoReq EXCEPT !.st = "done"]]
    /\ refs' = IF i = 1 THEN refs - 1 ELSE refs
    /\ fire' = [fire EXCEPT !.pc = "out"]
    /\ UNCHANGED <<data_vars, writer, locking, remaining, cmpl, freed, early, owed>>

Inc ==
    /\ fire.pc = "inc"
    /\ remaining' = remaining + 1
    /\ freed' = (freed \/ refs <= 0)
    /\ fire' = Advance
    /\ UNCHANGED <<data_vars, writer, locking, refs, err, cmpl, early, req, owed, events, fails>>

Out ==
    /\ fire.pc = "out"
    /\ Complete(remaining, 0)
    /\ fire' = [fire EXCEPT !.pc = "done"]
    /\ UNCHANGED <<data_vars, writer, locking, err, early, req, owed, events, fails>>

------------------------------------------------------------------------------
(* A request. *)

Goto(i, st) == req' = [req EXCEPT ![i].st = st]

(* The last lock is granted: _ocf_cleaner_on_resume. *)
Resume(i) ==
    /\ req[i].st = "wait" /\ Free(i)
    /\ Goto(i, "check")
    /\ UNCHANGED <<data_vars, writer, locking, order_vars, owed, events, fails>>

StillThere(e) == map[e.line] = e.cl /\ dirty[e.line] # {}

(* _ocf_cleaner_check_map *)
CheckMap(i) ==
    LET flush == {k \in DOMAIN req[i].map : StillThere(req[i].map[k])} IN
    /\ req[i].st = "check"
    /\ IF flush = {}
         THEN FinishReq(i) /\ UNCHANGED err
         ELSE req' = [req EXCEPT ![i].st = "read", ![i].flush = flush] /\ UNCHANGED order_vars
    /\ UNCHANGED <<data_vars, writer, locking, owed, events, fails>>

Entries(i) == {req[i].map[k] : k \in req[i].flush}

(* An I/O of the request failed: nothing of it is cleaned, the master gets the
   error (_ocf_cleaner_set_error).                                             *)
Invalid(i, st) ==
    /\ Fail /\ err' = "io"
    /\ req' = [req EXCEPT ![i].st = st, ![i].invalid = TRUE]
    /\ UNCHANGED <<fire, remaining, refs, cmpl, freed, early>>

(* _ocf_cleaner_fire_cache, _ocf_cleaner_cache_io_end *)
ReadCache(i) ==
    /\ req[i].st = "read"
    /\ \/ /\ req' = [req EXCEPT ![i].st = "core",
                        ![i].buf = [k \in DOMAIN req[i].map |-> data[req[i].map[k].line]]]
          /\ UNCHANGED order_vars /\ NoFail
       \/ Invalid(i, "core")
    /\ UNCHANGED <<data_vars, writer, locking, owed>>

(* The blocks _ocf_cleaner_core_submit_io writes: the whole line when all of it
   is valid, the dirty blocks otherwise.                                       *)
Submitted(l) == IF valid[l] = Blocks /\ dirty[l] # {} THEN Blocks ELSE dirty[l] \cap valid[l]

Buffer(i, cl) == req[i].buf[CHOOSE k \in req[i].flush : req[i].map[k].cl = cl]

Written(i) ==
    [cl \in CoreLines |-> [b \in Blocks |->
        IF \E e \in Entries(i) : e.cl = cl /\ b \in Submitted(e.line) THEN Buffer(i, cl)[b]
        ELSE core[cl][b]]]

(* _ocf_cleaner_fire_core, _ocf_cleaner_core_io_end: of a failed write, some or
   nothing has reached the core.                                               *)
WriteCore(i) ==
    /\ req[i].st = "core"
    /\ \/ /\ req[i].invalid
          /\ Goto(i, "flush") /\ UNCHANGED <<core, order_vars>> /\ NoFail
       \/ /\ ~req[i].invalid
          /\ core' = Written(i)
          /\ Goto(i, "flush") /\ UNCHANGED order_vars /\ NoFail
       \/ /\ ~req[i].invalid
          /\ core' \in {core, Written(i)}
          /\ Invalid(i, "flush")
    /\ UNCHANGED <<map, valid, dirty, data, media, latest, writer, locking, owed>>

(* _ocf_cleaner_fire_flush_core, _ocf_cleaner_flush_core_end *)
FlushCore(i) ==
    LET c == Core[req[i].map[1].cl] IN
    /\ req[i].st = "flush"
    /\ \/ /\ media' = [cl \in CoreLines |-> IF Core[cl] = c THEN core[cl] ELSE media[cl]]
          /\ Goto(i, "update") /\ UNCHANGED order_vars /\ NoFail
       \/ Invalid(i, "update") /\ UNCHANGED media
    /\ UNCHANGED <<map, valid, dirty, data, core, latest, writer, locking, owed>>

UpdateAll(i) ==
    LET clean == {e.line : e \in Entries(i)} IN
    /\ req[i].st = "update"
    /\ dirty' = [l \in Lines |-> IF l \in clean THEN {} ELSE dirty[l]]
    /\ owed' = owed \ clean
    /\ Goto(i, "meta")
    /\ UNCHANGED <<map, valid, data, core, media, latest, writer, locking, order_vars, events,
                   fails>>

(* _ocf_cleaner_update_metadata: set_cache_line_clean, unless there was an error. *)
Update(i) ==
    LET clean == IF req[i].invalid THEN {} ELSE {e.line : e \in Entries(i)} IN
    /\ req[i].st = "update"
    /\ dirty' = [l \in Lines |-> IF l \in clean THEN {} ELSE dirty[l]]
    /\ owed' = owed \ clean
    /\ Goto(i, "meta")
    /\ UNCHANGED <<map, valid, data, core, media, latest, writer, locking, order_vars, events,
                   fails>>

(* _ocf_cleaner_metadata_io_end: an error stays in the request, which is the
   master or nobody's.                                                         *)
FlushMetadata(i) ==
    /\ req[i].st = "meta"
    /\ \/ Goto(i, "cache") /\ UNCHANGED order_vars /\ NoFail
       \/ /\ Fail /\ FinishReq(i)
          /\ err' = IF i = 1 THEN "metadata" ELSE err
    /\ UNCHANGED <<data_vars, writer, locking, owed>>

(* _ocf_cleaner_flush_cache_end: an error only marks the metadata. *)
FlushCache(i) ==
    /\ req[i].st = "cache"
    /\ FinishReq(i)
    /\ UNCHANGED <<data_vars, writer, locking, err, owed, events, fails>>

------------------------------------------------------------------------------
Versions == [CoreLines -> [Blocks -> Nat]]

(* The core is as it was before the dirty blocks were written. *)
Init ==
    /\ map \in [Lines -> CoreLines \ {Spare}] /\ \A l, k \in Lines : map[l] = map[k] => l = k
    /\ valid \in [Lines -> SUBSET Blocks] /\ dirty \in [Lines -> SUBSET Blocks]
    /\ \A l \in Lines : dirty[l] \subseteq valid[l]
    /\ data = [l \in Lines |-> [b \in Blocks |-> IF b \in valid[l] THEN 1 ELSE 0]]
    /\ latest = [cl \in CoreLines |-> [b \in Blocks |-> 1]]
    /\ core = [cl \in CoreLines |-> [b \in Blocks |->
                 IF \E l \in Lines : map[l] = cl /\ b \in dirty[l] THEN 0 ELSE 1]]
    /\ media = core
    /\ writer = None /\ locking \in BOOLEAN
    /\ fire = [pc |-> "alloc", curr |-> 0, i |-> 1]
    /\ req = [i \in Reqs |-> NoReq]
    /\ remaining = 0 /\ refs = 0 /\ err = "none" /\ cmpl = 0
    /\ owed = {l \in ToSet(Order) : dirty[l] # {}}
    /\ early = FALSE /\ freed = FALSE /\ events = 0 /\ fails = 0

Firing == Alloc \/ AllocFails \/ Lock \/ LockFails \/ Inc \/ Out

Step(i) ==
    \/ Resume(i) \/ CheckMap(i) \/ ReadCache(i) \/ WriteCore(i) \/ FlushCore(i)
    \/ Update(i) \/ FlushMetadata(i) \/ FlushCache(i)

Next ==
    \/ Firing
    \/ \E i \in Reqs : Step(i)
    \/ \E l \in Lines : WriteStart(l) \/ CleanElsewhere(l) \/ Remap(l)
    \/ \E b \in Blocks : WriteEnd(b)

(* Threads go on, the devices answer, and users' requests end. *)
Fairness ==
    /\ WF_vars(Firing) /\ \A i \in Reqs : WF_vars(Step(i))
    /\ WF_vars(\E b \in Blocks : WriteEnd(b))

Spec == Init /\ [][Next]_vars /\ Fairness

------------------------------------------------------------------------------
(* The variables have their types; dirty blocks are valid; requests hold their
   read locks apart from the writer.                                           *)
TypeOK ==
    /\ map \in [Lines -> CoreLines] /\ valid \in [Lines -> SUBSET Blocks]
    /\ \A l \in Lines : dirty[l] \subseteq valid[l]
    /\ core \in Versions /\ media \in Versions /\ latest \in Versions
    /\ fire.curr \in 0 .. Len(Order) /\ fire.i \in Reqs
    /\ \A i \in Reqs : \A e \in Entries(i) : Core[e.cl] = Core[req[i].map[1].cl]
    /\ writer \notin AllLocked

(* What the user wrote last is what is read back: a valid block of the cache has
   it, and the core has it unless the block is dirty.  The cleaner copies whole
   lines through a buffer and writes blocks that are not dirty with it; it must
   never put an old version, or the contents of an invalid block, on the core.  *)
ReadsLatest ==
    /\ \A l \in Lines : \A b \in valid[l] : data[l][b] = latest[map[l]][b]
    /\ \A cl \in CoreLines, b \in Blocks :
         (\A l \in Lines : map[l] = cl => b \notin dirty[l]) => core[cl][b] = latest[cl][b]

(* A line is marked clean only when the core has its data on stable media: from
   then on it may be evicted, and after a power failure nobody will clean it.   *)
CleanIsDurable ==
    \A cl \in CoreLines, b \in Blocks :
        (\A l \in Lines : map[l] = cl => b \notin dirty[l]) => media[cl][b] = latest[cl][b]

(* An order that completes without an error has cleaned every line of it that
   was dirty when it was given, however it was cut into requests.  Not claimed
   when a request ended before it was counted (see MasterAlive).                *)
OrderDone == cmpl > 0 /\ err = "none" /\ ~early => owed = {}

(* The order completes once, after its last request, and the master is there as
   long as a request needs it; again unless a request ended before it was counted. *)
CompletesOnce ==
    ~early =>
        /\ cmpl <= 1 /\ ~freed /\ refs >= 0
        /\ cmpl = 1 => fire.pc = "done" /\ \A i \in Reqs : req[i].st \in {"none", "done"}
        /\ refs = 0 => cmpl = 1 \/ fire.i = 1

OrderOver == cmpl > 0 /\ fire.pc = "done" /\ \A i \in Reqs : req[i].st \in {"none", "done"}

(* Every order completes: each request ends, and gives up the master. *)
OrderEnds == []<>OrderOver

(* What the comments of _ocf_cleaner_alloc_master_req say: master_remaining is
   "The count of all requests", and the reference is there to "Keep master alive
   till all sub-requests complete".                                             *)
MasterAlive == ~freed /\ cmpl <= 1

\* An order of utils_cleaner.c as a whole: it cleans what it promised, marks clean
\* only what the core has durably, loses no data, and completes once.
OrderSound == TypeOK /\ ReadsLatest /\ CleanIsDurable /\ OrderDone /\ CompletesOnce
==============================================================================
