-------------------------------- MODULE Space --------------------------------
(* How a request that misses gets cache lines (src/src/ocf_space.c and the
   req_clines functions of the eviction policies): from the freelist, from
   overflown partitions, then from partitions of no higher priority, each under
   its quota, minimum and maximum.  Lines are taken one at a time; a victim is
   write-locked and only then its hash bucket is tried, and a hit on the victim
   may come in between and wait for it.  Several requests do this at once.

   A list is its lines with the most recently used first; that the pointer code
   keeps such lists, with the first half hot, is what LruList shows.  There is
   one list index, so one list lock.  The req_clines functions of LRU and LFU
   differ only in the order of the lists they walk; the module stands for both. *)
EXTENDS Integers, Sequences, FiniteSets, SequencesExt

CONSTANTS
    Entries,       \* number of cache lines
    Warm,          \* the core lines that are cached at first
    HotCores,      \* the core lines that hitters access
    Requests,      \* requests that may allocate at the same time
    Hitters,       \* requests that find their one core line mapped
    Plans,         \* what every request may ask for: a set of [range, part]
    PartOrder,     \* user partitions, lowest priority first
    Conf,          \* struct ocf_user_part_config: [prio, min, max, evict]
    Quota,         \* MIN_EVICT_QUOTA
    MaxCounter     \* bound of the model: eviction counters stop growing here

VARIABLES
    loc,           \* partition of every line
    map,           \* core line of every line, or None
    dirty,         \* the dirty lines
    order,         \* clean lines of every partition, most recently used first
    lock,          \* who has the line's write lock, or None
    counter,       \* evict_counter of every user partition
    listLock,      \* request that holds the list lock, or None
    req,           \* the allocating requests
    hit,           \* the hitting requests
    stolen,        \* ghost: hitters whose line the successor path took away
    calm           \* ghost: request that nobody has interrupted since it began

vars == <<loc, map, dirty, order, lock, counter, listLock, req, hit, stolen, calm>>

None == -1
Lines == 0 .. Entries - 1
UserParts == ToSet(PartOrder)
Parts == UserParts \cup {"free"}
Idle == [pc |-> "idle"]

Least(a, b) == IF a < b THEN a ELSE b
Without(s, c) == SelectSeq(s, LAMBDA d : d # c)

(* curr_size of a partition *)
Size(p) == Cardinality({c \in Lines : loc[c] = p})

(* ocf_engine_lookup and ocf_engine_unmapped_count *)
LineOf(x) == CHOOSE c \in Lines : map[c] = x
IsMapped(x) == \E c \in Lines : map[c] = x
Unmapped(range) == {x \in range : ~IsMapped(x)}

(* ocf_user_part_overflow_size *)
Overflow(p) == IF Size(p) > Conf[p].max THEN Size(p) - Conf[p].max ELSE 0

(* ocf_user_part_has_space, with the lines that would change partition. *)
HasSpace(range, p) ==
    Size(p) + Cardinality(Unmapped(range))
            + Cardinality({x \in range : IsMapped(x) /\ loc[LineOf(x)] # p})
        <= Conf[p].max

(* Mutant of EvictCalculate: the minimum is ignored. *)
EvictToNothing(p, n) == Least(n, Size(p))

(* ocf_evict_calculate: never below the minimum of the partition. *)
EvictCalculate(p, n) ==
    IF Size(p) <= Conf[p].min THEN 0 ELSE Least(n, Size(p) - Conf[p].min)

(* The first half of a clean list is hot; a dirty line is taken to be cold. *)
IsHot(c) ==
    \E i \in 1 .. (Len(order[loc[c]]) \div 2) : order[loc[c]][i] = c

(* ocf_lru_set_hot and ocf_lru_repart_locked on a line, clean or dirty *)
ToHead(ord, c, from, to) ==
    IF c \in dirty THEN ord
    ELSE LET off == [ord EXCEPT ![from] = Without(@, c)]
         IN  [off EXCEPT ![to] = <<c>> \o @]

------------------------------------------------------------------------------
(* Locks.  A request has the hash buckets of its range locked for writing from the
   second lookup until it is mapped or has failed; a hitter has its bucket locked
   for reading from its lookup until it has locked, or queued for, its line.  *)
Mapping(r) == req[r].pc \in {"pick", "grab", "scan", "held", "next"}
BucketLocked(x) == \E h \in Hitters : hit[h] # Idle /\ hit[h].core = x /\ hit[h].todo # <<>>

BucketWrLocked(x) == \E r \in Requests : Mapping(r) /\ x \in req[r].range

Waiters(c) ==
    {h \in Hitters : hit[h] # Idle /\ hit[h].lock = "wait" /\ hit[h].line = c}
    \cup {r \in Requests : req[r].pc = "waiting" /\ req[r].hitLine = c}

(* Unlocking a line hands it to one of the requests that wait for it; next is the
   state of the requests apart from that.                                     *)
Unlock(cs, next) ==
    \E grant \in [cs -> Hitters \cup Requests \cup {None}] :
        /\ \A c \in cs : IF Waiters(c) = {} THEN grant[c] = None
                                            ELSE grant[c] \in Waiters(c)
        /\ lock' = [c \in Lines |-> IF c \in cs THEN grant[c] ELSE lock[c]]
        /\ req' = [r \in Requests |->
              IF \E c \in cs : grant[c] = r THEN [next[r] EXCEPT !.pc = "mapped"]
                                            ELSE next[r]]
        /\ hit' = [h \in Hitters |->
              IF \E c \in cs : grant[c] = h THEN [hit[h] EXCEPT !.lock = "has"]
              ELSE IF \E c \in cs : lock[c] = h THEN Idle ELSE hit[h]]

------------------------------------------------------------------------------
(* Earlier requests have filled the cache with the core lines Warm, all clean, in the
   partition of lowest priority.                                              *)
Init ==
    /\ loc = [c \in Lines |-> IF c < Len(Warm) THEN PartOrder[1] ELSE "free"]
    /\ map = [c \in Lines |-> IF c < Len(Warm) THEN Warm[c + 1] ELSE None]
    /\ dirty = {}
    /\ order = [p \in Parts |->
          LET mine == {c \in Lines : loc[c] = p}
          IN  SetToSortSeq(mine, LAMBDA a, b : a > b)]
    /\ lock = [c \in Lines |-> None]
    /\ counter = [p \in UserParts |-> 0]
    /\ listLock = None
    /\ req = [r \in Requests |-> Idle]
    /\ hit = [h \in Hitters |-> Idle]
    /\ stolen = {}
    /\ calm = None

(* A request that hits: what it does about its line while it holds the bucket.
   ocf_engine_prepare_clines locks and then marks the line hot, the engines that
   only traverse mark it and then lock, discard only locks.                   *)
Steps == [engine |-> <<"lock", "hot">>, traverse |-> <<"hot", "lock">>,
          discard |-> <<"lock">>]

HitLookup(h, x, kind) ==
    /\ hit[h] = Idle /\ IsMapped(x) /\ ~BucketWrLocked(x)
    /\ hit' = [hit EXCEPT ![h] = [pc |-> "hit", kind |-> kind, core |-> x,
                 line |-> LineOf(x), todo |-> Steps[kind], lock |-> "no"]]
    /\ UNCHANGED <<loc, map, dirty, order, lock, counter, listLock, req, stolen>>

HitLock(h) ==
    /\ hit[h] # Idle /\ hit[h].todo # <<>> /\ Head(hit[h].todo) = "lock"
    /\ LET c == hit[h].line IN
        /\ hit' = [hit EXCEPT ![h].todo = Tail(@),
                              ![h].lock = IF lock[c] = None THEN "has" ELSE "wait"]
        /\ lock' = IF lock[c] = None THEN [lock EXCEPT ![c] = h] ELSE lock
    /\ UNCHANGED <<loc, map, dirty, order, counter, listLock, req, stolen>>

(* ocf_lru_hot_cline: nothing for a hot line, else it needs the list lock. *)
HitHot(h) ==
    /\ hit[h] # Idle /\ hit[h].todo # <<>> /\ Head(hit[h].todo) = "hot"
    /\ LET c == hit[h].line IN
        \/ IsHot(c) /\ UNCHANGED order
        \/ /\ ~IsHot(c) /\ listLock = None
           /\ order' = ToHead(order, c, loc[c], loc[c])
    /\ hit' = [hit EXCEPT ![h].todo = Tail(@)]
    /\ UNCHANGED <<loc, map, dirty, lock, counter, listLock, req, stolen>>

(* The hitter's I/O ends: its line may have become dirty. *)
HitEnd(h) ==
    /\ hit[h] # Idle /\ hit[h].todo = <<>> /\ hit[h].lock = "has"
    /\ LET c == hit[h].line IN
        /\ \/ UNCHANGED <<dirty, order>>
           \/ /\ h \notin stolen /\ hit[h].kind = "engine" /\ listLock = None
              /\ dirty' = dirty \cup {c}
              /\ order' = [order EXCEPT ![loc[c]] = Without(@, c)]
        /\ Unlock({c}, req)
    /\ stolen' = stolen \ {h}
    /\ UNCHANGED <<loc, map, counter, listLock>>

(* The cleaner writes a dirty line back; the line joins the clean list. *)
Clean(c) ==
    /\ c \in dirty /\ lock[c] = None /\ listLock = None
    /\ ~BucketLocked(map[c]) /\ ~BucketWrLocked(map[c])
    /\ dirty' = dirty \ {c}
    /\ order' = [order EXCEPT ![loc[c]] = <<c>> \o @]
    /\ UNCHANGED <<loc, map, lock, counter, listLock, req, hit, stolen>>

------------------------------------------------------------------------------

(* Allocation.  ocf_engine_prepare_clines after the upgrade of the bucket locks
   and the repeated lookup, with ocf_prepare_clines_miss: a partition without
   space for the request may only evict from itself.                          *)
Begin(r, plan) ==
    /\ req[r] = Idle /\ Unmapped(plan.range) # {}
    /\ \A x \in plan.range : ~BucketLocked(x) /\ ~BucketWrLocked(x)
    /\ req' = [req EXCEPT ![r] =
         [pc |-> "pick", range |-> plan.range, part |-> plan.part,
          miss |-> Unmapped(plan.range), lines |-> {},
          hitLine |-> None, idx |-> 1, retry |-> 1, more |-> FALSE, debt |-> FALSE,
          stage |-> IF HasSpace(plan.range, plan.part) THEN "free" ELSE "self",
          src |-> "none", want |-> 0, got |-> 0, last |-> None, cand |-> None,
          via |-> "none", seen |-> 0]]
    /\ UNCHANGED <<loc, map, dirty, order, lock, counter, listLock, hit, stolen>>

(* A call of req_clines for n lines of partition p. *)
Grab(r, p, n) ==
    [req[r] EXCEPT !.pc = "grab", !.src = p, !.want = n, !.got = 0, !.last = None]

Stage(r, stage) == [req[r] EXCEPT !.stage = stage, !.idx = 1, !.more = FALSE]

Picking(r, stage) ==
    req[r].pc = "pick" /\ req[r].stage = stage /\ req[r].miss # {}

Needed(r) == Cardinality(req[r].miss)

(* ocf_evict_part_do, and the first part of ocf_remap_do *)
PickFirst(r) ==
    /\ \/ /\ Picking(r, "self")
          /\ req' = [req EXCEPT ![r] =
                IF EvictCalculate(@.part, Needed(r)) < Needed(r)
                THEN Stage(r, "end") ELSE Grab(r, @.part, Needed(r))]
       \/ /\ Picking(r, "free")
          /\ req' = [req EXCEPT ![r] =
                IF Size("free") > 0 THEN Grab(r, "free", Needed(r))
                                    ELSE Stage(r, "over")]
    /\ UNCHANGED <<loc, map, dirty, order, lock, counter, listLock, hit, stolen>>

Skip(r) == [req[r] EXCEPT !.idx = @ + 1]

(* ocf_evict_user_partitions_once, overflown partitions only, of any priority *)
PickOverflown(r) ==
    /\ Picking(r, "over")
    /\ req' = [req EXCEPT ![r] =
          IF @.idx > Len(PartOrder) THEN Stage(r, "evict")
          ELSE LET p == PartOrder[@.idx]
                   n == Least(EvictCalculate(p, Needed(r)), Overflow(p))
               IN  IF n = 0 THEN Skip(r) ELSE Grab(r, p, n)]
    /\ UNCHANGED <<loc, map, dirty, order, lock, counter, listLock, hit, stolen>>

(* The partitions a request may evict from when none is overflown: the walk stops at
   the first one of higher priority or without eviction.                      *)
Open(part, i) ==
    /\ i <= Len(PartOrder)
    /\ Conf[PartOrder[i]].prio >= Conf[part].prio
    /\ Conf[PartOrder[i]].evict

(* ocf_evict_counters_update: quotas in proportion to the sizes of the partitions. *)
Refilled(part) ==
    LET below == {p \in UserParts : Conf[p].prio >= Conf[part].prio /\ Size(p) > 0}
        least == IF below = {} THEN Entries
                 ELSE CHOOSE n \in {Size(p) : p \in below} :
                        \A p \in below : n <= Size(p)
        unit  == IF least < Quota THEN Quota ELSE least
    IN  [p \in UserParts |->
           IF p \in below THEN Least(counter[p] + (Size(p) * Quota) \div unit, MaxCounter)
                          ELSE counter[p]]

(* ocf_evict_user_partitions over partitions of no higher priority: a partition
   whose counter is used up is passed over; when all are, they are refilled and
   the walk is repeated once.                                                 *)
PickEvict(r) ==
    LET q == req[r]
        p == PartOrder[q.idx]
        n == EvictCalculate(p, Needed(r))
    IN  /\ Picking(r, "evict")
        /\ \/ /\ ~Open(q.part, q.idx)
              /\ counter' = IF q.more THEN counter ELSE Refilled(q.part)
              /\ req' = [req EXCEPT ![r] =
                    IF q.retry = 2 THEN Stage(r, "end")
                    ELSE [Stage(r, "evict") EXCEPT !.retry = 2,
                            !.debt = \E p2 \in UserParts : counter[p2] < 0]]
           \/ /\ Open(q.part, q.idx) /\ (n = 0 \/ counter[p] <= 0)
              /\ req' = [req EXCEPT ![r] = Skip(r)]
              /\ UNCHANGED counter
           \/ /\ Open(q.part, q.idx) /\ n > 0 /\ counter[p] > 0
              /\ counter' = [counter EXCEPT ![p] = @ - n]
              /\ req' = [req EXCEPT ![r] = [Grab(r, p, n) EXCEPT !.seen = counter[p] - n]]
        /\ UNCHANGED <<loc, map, dirty, order, lock, listLock, hit, stolen>>

(* req_clines returns with got lines: the rest of the quota is given back. *)
Returned(q, got) ==
    LET back == [q EXCEPT !.pc = "pick", !.idx = @ + 1, !.src = "none", !.want = 0,
                          !.got = 0, !.last = None, !.cand = None, !.via = "none", !.seen = 0]
    IN  CASE q.stage = "self"  -> [back EXCEPT !.stage = "end", !.idx = 1]
          [] q.stage = "free"  -> [back EXCEPT !.stage = "over", !.idx = 1]
          [] q.stage = "over"  -> back
          [] q.stage = "evict" -> [back EXCEPT !.more = @ \/ q.seen + q.want - got > 0]

GiveBack(q, got) ==
    IF q.stage = "evict" THEN [counter EXCEPT ![q.src] = @ + q.want - got] ELSE counter

(* A line, locked and with its bucket locked, becomes the request's: it goes to the
   head of the request's partition, is invalidated and mapped to the next missing
   core line.  The call ends at the number of lines wanted, or when a line from
   elsewhere has filled the partition.                                        *)
Take(r, c) ==
    LET q    == req[r]
        x    == CHOOSE y \in q.miss : \A z \in q.miss : y <= z
        full == loc[c] # q.part /\ Size(q.part) + 1 >= Conf[q.part].max
        done == full \/ q.got + 1 = q.want
        mine == [q EXCEPT !.lines = @ \cup {c}, !.miss = @ \ {x},
                          !.cand = None, !.via = "none"]
    IN  /\ loc' = [loc EXCEPT ![c] = q.part]
        /\ map' = [map EXCEPT ![c] = x]
        /\ order' = ToHead(order, c, loc[c], q.part)
        /\ lock' = [lock EXCEPT ![c] = r]
        /\ listLock' = None
        /\ stolen' = stolen \cup (IF q.via = "succ" THEN Waiters(c) ELSE {})
        /\ req' = [req EXCEPT ![r] =
              IF done THEN Returned(mine, q.got + 1)
              ELSE [mine EXCEPT !.pc = "grab", !.got = @ + 1, !.last = c]]
        /\ counter' = IF done THEN GiveBack(q, q.got + 1) ELSE counter
        /\ UNCHANGED <<dirty, hit>>

GiveUp(r) ==
    /\ req' = [req EXCEPT ![r] = Returned(@, @.got)]
    /\ counter' = GiveBack(req[r], req[r].got)
    /\ listLock' = None

(* The last line of a list, before the one at position n, that is not locked. *)
Unlocked(s, n) == {i \in 1 .. n - 1 : lock[s[i]] = None}
LastOf(S) == CHOOSE i \in S : \A j \in S : j <= i

(* lru_iter_free_next, in one piece under the list lock *)
FreeNext(r) ==
    /\ req[r].pc = "grab" /\ req[r].src = "free" /\ listLock = None
    /\ LET s == order["free"]
           u == Unlocked(s, Len(s) + 1)
       IN  IF u = {} THEN GiveUp(r) /\ UNCHANGED <<loc, map, dirty, order, lock, hit, stolen>>
           ELSE Take(r, s[LastOf(u)])

(* lru_req_next_cline: the line after the last one taken, whatever partition it is
   in, if that partition allows eviction and the line is not locked.          *)
Successor(r) ==
    /\ req[r].src # "free" /\ req[r].last # None
    /\ req[r].last + 1 \in Lines
    /\ LET c == req[r].last + 1 IN
        /\ loc[c] # "free" /\ Conf[loc[c]].evict /\ lock[c] = None

(* Scan the list from position n towards the head for a line to lock. *)
Scan(r, n) ==
    LET s == order[req[r].src]
        u == Unlocked(s, n)
    IN  IF u = {} THEN GiveUp(r) /\ UNCHANGED lock
        ELSE /\ listLock' = r
             /\ lock' = [lock EXCEPT ![s[LastOf(u)]] = r]
             /\ req' = [req EXCEPT ![r].pc = "held", ![r].cand = s[LastOf(u)],
                                   ![r].via = "tail"]
             /\ UNCHANGED counter

GrabNext(r) ==
    /\ req[r].pc = "grab" /\ req[r].src # "free" /\ listLock = None
    /\ IF Successor(r)
       THEN /\ listLock' = r
            /\ lock' = [lock EXCEPT ![req[r].last + 1] = r]
            /\ req' = [req EXCEPT ![r].pc = "held", ![r].cand = req[r].last + 1,
                                  ![r].via = "succ"]
            /\ UNCHANGED counter
       ELSE Scan(r, Len(order[req[r].src]) + 1)
    /\ UNCHANGED <<loc, map, dirty, order, hit, stolen>>

(* lru_iter_eviction_next after the successor was refused *)
ScanStart(r) ==
    /\ req[r].pc = "scan" /\ listLock = None
    /\ Scan(r, Len(order[req[r].src]) + 1)
    /\ UNCHANGED <<loc, map, dirty, order, hit, stolen>>

(* Mutant of Evictable: waiters are ignored on the tail path too. *)
EvictableAnyway(r, c) ==
    /\ map[c] \notin req[r].range
    /\ ~BucketLocked(map[c]) /\ ~BucketWrLocked(map[c])
    /\ req[r].via = "succ" => ~IsHot(c) /\ c \notin dirty

(* The line is locked: it may not belong to the request, and its bucket must be
   free.  A line from the tail may also have no waiters (_lru_iter_eviction_lock);
   a successor must be clean and not hot, but its waiters are not looked at.  *)
Evictable(r, c) ==
    /\ map[c] \notin req[r].range
    /\ ~BucketLocked(map[c]) /\ ~BucketWrLocked(map[c])
    /\ CASE req[r].via = "tail" -> Waiters(c) = {}
         [] req[r].via = "succ" -> ~IsHot(c) /\ c \notin dirty

TakeHeld(r) ==
    /\ req[r].pc = "held" /\ Evictable(r, req[r].cand)
    /\ Take(r, req[r].cand)

RefuseHeld(r) ==
    /\ req[r].pc = "held" /\ ~Evictable(r, req[r].cand)
    /\ LET c == req[r].cand IN
         IF req[r].via = "succ"
         THEN /\ Unlock({c}, [req EXCEPT ![r].pc = "scan", ![r].cand = None, ![r].via = "none"])
              /\ listLock' = None
         ELSE /\ Unlock({c}, [req EXCEPT ![r].pc = "next"])
              /\ UNCHANGED listLock
    /\ UNCHANGED <<loc, map, dirty, order, counter, stolen>>

ScanOn(r) ==
    /\ req[r].pc = "next"
    /\ LET s == order[req[r].src]
           n == CHOOSE i \in DOMAIN s : s[i] = req[r].cand
       IN  Scan(r, n)
    /\ UNCHANGED <<loc, map, dirty, order, hit, stolen>>

(* All is mapped: a line that was hit before is locked, or waited for, and made hot
   under the bucket locks.                                                    *)
Mapped(r) ==
    /\ req[r].pc = "pick" /\ req[r].miss = {}
    /\ LET old == {LineOf(x) : x \in req[r].range} \ req[r].lines IN
         IF old = {}
         THEN /\ req' = [req EXCEPT ![r].pc = "mapped"]
              /\ UNCHANGED <<order, lock>>
         ELSE LET c == CHOOSE c \in old : TRUE IN
              /\ listLock = None \/ IsHot(c)
              /\ order' = IF IsHot(c) THEN order ELSE ToHead(order, c, loc[c], loc[c])
              /\ lock' = IF lock[c] = None THEN [lock EXCEPT ![c] = r] ELSE lock
              /\ req' = [req EXCEPT ![r].hitLine = c,
                           ![r].pc = IF lock[c] = None THEN "mapped" ELSE "waiting"]
    /\ UNCHANGED <<loc, map, dirty, counter, listLock, hit, stolen>>

(* set_cache_line_invalid: a line somebody waits for is not moved to the freelist. *)
Invalidate(cs) ==
    LET gone == {c \in cs : Waiters(c) = {}}
    IN  /\ loc' = [c \in Lines |-> IF c \in gone THEN "free" ELSE loc[c]]
        /\ map' = [c \in Lines |-> IF c \in gone THEN None ELSE map[c]]
        /\ dirty' = dirty \ cs
        /\ order' = [p \in Parts |->
              IF p = "free" THEN SetToSeq(gone) \o order[p]
              ELSE SetToSeq({c \in cs \ gone : loc[c] = p /\ c \in dirty})
                     \o SelectSeq(order[p], LAMBDA c : c \notin gone)]

(* ocf_engine_map_hndl_error: the lines of a request that got too few go back. *)
Failed(r) ==
    /\ req[r].pc = "pick" /\ req[r].stage = "end" /\ req[r].miss # {}
    /\ listLock = None
    /\ Invalidate(req[r].lines)
    /\ Unlock(req[r].lines, [req EXCEPT ![r] = Idle])
    /\ UNCHANGED <<counter, listLock, stolen>>

(* The I/O of a mapped request ends, under the bucket locks of its range: its lines
   are valid, dirty or clean, and what it hit joins its partition; after an error
   its lines are invalidated.                                                 *)
Complete(r) ==
    /\ req[r].pc = "mapped" /\ listLock = None
    /\ \A x \in req[r].range : ~BucketLocked(x) /\ ~BucketWrLocked(x)
    /\ LET q   == req[r]
           old == IF r \in stolen THEN {} ELSE {q.hitLine} \ {None}
           all == q.lines \cup old
       IN  /\ \/ /\ loc' = [c \in Lines |-> IF c \in old THEN q.part ELSE loc[c]]
                 /\ \E wrote \in {{}, all} :
                      /\ dirty' = dirty \cup wrote
                      /\ order' = [p \in Parts |->
                            (IF p = q.part
                             THEN SetToSeq({c \in old : loc[c] # p /\ c \notin dirty'})
                             ELSE <<>>)
                            \o SelectSeq(order[p], LAMBDA c :
                                 c \notin wrote /\ (c \in old => p = q.part))]
                 /\ UNCHANGED map
              \/ Invalidate(all)
           /\ Unlock(q.lines \cup ({q.hitLine} \ {None}), [req EXCEPT ![r] = Idle])
    /\ stolen' = stolen \ {r}
    /\ UNCHANGED <<counter, listLock>>

Others ==
    \/ \E h \in Hitters, x \in HotCores, k \in DOMAIN Steps : HitLookup(h, x, k)
    \/ \E h \in Hitters : HitLock(h) \/ HitHot(h) \/ HitEnd(h)
    \/ \E c \in Lines : Clean(c)
    \/ \E r \in Requests : Complete(r)

Step(r) ==
    \/ PickFirst(r) \/ PickOverflown(r) \/ PickEvict(r) \/ FreeNext(r)
    \/ GrabNext(r) \/ ScanStart(r) \/ ScanOn(r) \/ TakeHeld(r) \/ RefuseHeld(r)
    \/ Mapped(r) \/ Failed(r)

Next ==
    \/ Others /\ calm' = None
    \/ \E r \in Requests :
        \/ /\ \E plan \in Plans[r] : Begin(r, plan)
           /\ calm' = r
        \/ /\ Step(r)
           /\ calm' = IF calm = r /\ Mapping(r)' THEN r ELSE None

Spec == Init /\ [][Next]_vars

------------------------------------------------------------------------------
(* Types, with the lists: a line is on the clean list of its partition or dirty, and
   only lines of user partitions are dirty.                                   *)
TypeOK ==
    /\ loc \in [Lines -> Parts] /\ dirty \subseteq {c \in Lines : loc[c] # "free"}
    /\ counter \in [UserParts -> Int]
    /\ listLock \in Requests \cup {None}
    /\ \A p \in Parts :
         /\ ToSet(order[p]) = {c \in Lines \ dirty : loc[c] = p}
         /\ Len(order[p]) = Cardinality(ToSet(order[p]))

(* However requests, hits, failures and evictions interleave, a core line is mapped
   by at most one cache line (ocf_engine_prepare_clines repeats its lookup under
   the write lock of the buckets before it maps).                             *)
OneLine == \A c, d \in Lines : map[c] = map[d] /\ map[c] # None => c = d

(* A line is unmapped exactly while it is on the freelist, whichever way it was
   taken, given back by a request that failed to map, or invalidated.         *)
FreeExact == \A c \in Lines : map[c] = None <=> loc[c] = "free"

(* A line is write-locked exactly by the one that works on it: the hitter that was
   granted it, the request it was assigned to, or the scan that examines it.  No
   refusal, failure or early return of req_clines leaves a line locked.       *)
LocksExact ==
    \A c \in Lines :
        /\ \A h \in Hitters :
             lock[c] = h <=> hit[h] # Idle /\ hit[h].lock = "has" /\ hit[h].line = c
        /\ \A r \in Requests :
             lock[c] = r <=> /\ req[r] # Idle
                             /\ \/ c \in req[r].lines
                                \/ req[r].pc = "held" /\ c = req[r].cand
                                \/ req[r].pc = "mapped" /\ c = req[r].hitLine

(* Who waits for a line, or was granted it, finds its own core line in it:
   _lru_iter_eviction_lock gives up a victim that somebody waits for.  The
   successor path (lru_req_next_cline) does not check, and is excepted.       *)
WaiterSafe ==
    /\ \A h \in Hitters : hit[h] # Idle /\ h \notin stolen => map[hit[h].line] = hit[h].core
    /\ \A r \in Requests :
         req[r].pc \in {"waiting", "mapped"} /\ req[r].hitLine # None /\ r \notin stolen
            => map[req[r].hitLine] \in req[r].range

(* A request that allocates undisturbed never takes another partition below its
   minimum by scans of its list, however many lines it takes and whichever way its
   quota was counted.  Outside this: a successor line is taken whatever its
   partition's minimum.  A line taken from the request's own partition stays in it. *)
MinKeptStep ==
    \A r \in Requests, p \in UserParts :
       /\ calm = r /\ Mapping(r) /\ req[r].via = "tail" /\ req[r].src = p
       /\ req'[r] # Idle /\ req'[r].lines # req[r].lines
       /\ p # req[r].part
       => Cardinality({c \in Lines : loc'[c] = p}) >= Conf[p].min

MinKept == [][MinKeptStep]_vars

(* The lines a request could take: unlocked, clean, in a partition it may evict from
   that is above its minimum.                                                 *)
Candidates(r) ==
    {c \in Lines \ dirty :
        /\ lock[c] = None /\ map[c] \notin req[r].range /\ Waiters(c) = {}
        /\ ~BucketLocked(map[c])
        /\ \E i \in DOMAIN PartOrder :
             /\ PartOrder[i] = loc[c] /\ \A j \in 1 .. i : Open(req[r].part, j)
             /\ Size(loc[c]) > Conf[loc[c]].min}

(* A request that allocates undisturbed, with space in its partition, fails only if no
   line could be evicted for it, or when a partition holds on to a quota that it
   has no lines to serve, or one had overdrawn its quota (a request for several
   lines may): else the second walk of ocf_evict_user_partitions, after the quotas
   are refilled, passes over no partition.                                    *)
FailsStep ==
    \A r \in Requests :
         /\ calm = r /\ Picking(r, "evict") /\ req'[r].stage = "end"
         => \/ Candidates(r) = {}
            \/ req[r].debt
            \/ \E p \in UserParts : counter[p] > 0

FailsForReason == [][FailsStep]_vars

\* Allocation as a whole: mappings, freelist and locks agree whoever allocates, hits
\* or evicts at the same time, and no scan takes a line from under a waiter; the
\* successor path does take such lines (`stolen').
SpaceSound == TypeOK /\ OneLine /\ FreeExact /\ LocksExact /\ WaiterSafe
==============================================================================
