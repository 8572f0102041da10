--------------------------------- MODULE Alru --------------------------------
(* The "approximate LRU" cleaning policy of src/src/cleaning/alru.c.  The dirty
   lines of every io class are on a doubly linked list through the metadata of
   the lines, the most recently written one at the head.  The cleaner walks the
   lists from the tail and flushes lines that were not written for a while, if
   the cache is idle or holds too many dirty lines.

   The environment is that of Acp: requests write, map, move and evict lines,
   other cleaners clean them, cores come and go, and the policy is left and
   entered again while requests run.

   Time is kept as ages.  An age grows with Tick up to a bound beyond which the
   code no longer tells values apart.                                         *)
EXTENDS Integers, Sequences, FiniteSets, SequencesExt, FiniteSetsExt

CONSTANTS
    Entries,         \* collision_table_entries: the number of cache lines
    Parts,           \* the io classes, numbers
    Cores,           \* the cores
    Shards,          \* OCF_ALRU_FILL_SHARDS_CNT
    Stale,           \* config->stale_buffer_time
    Activity,        \* config->activity_threshold
    WakeUp,          \* config->thread_wakeup_time
    RatioLines,      \* the dirty ratio threshold, in lines
    InertiaLines,    \* config->dirty_ratio_inertia, in lines
    FlushMax,        \* config->flush_max_buffers
    MaxWrites, MaxChanges, MaxErrors

VARIABLES
    core, part,      \* core (or None) and io class of every line
    dirty, held,     \* dirty bit of every line; lines a request has locked
    node,            \* struct alru_cleaning_policy_meta of every line
    list,            \* struct alru_cleaning_policy of every io class
    bug,             \* an ENV_BUG_ON of the list code has fired
    opened,          \* the cores that are opened
    mode, todo,      \* as in Acp; todo: lines whose hash bucket is to be visited
    access, pass,    \* age of last_access_ms and of cleaning_thread_access
    triggered,       \* ctx->dirty_ratio_triggered
    flush,           \* lines handed to the cleaner; {} when it is not running
    writes, changes, errors

vars == <<core, part, dirty, held, node, list, bug, opened, mode, todo, access,
          pass, triggered, flush, writes, changes, errors>>
policy == <<node, list, bug>>
bounds == <<writes, changes, errors>>

None == -1
End == Entries
Cline == 0 .. Entries - 1

FreshNode == [prev |-> End, next |-> End, age |-> Stale + 1]
EmptyList == [head |-> End, tail |-> End, size |-> 0]

Image == [node |-> node, list |-> list, bug |-> bug]
Store(m) == node' = m.node /\ list' = m.list /\ bug' = m.bug

------------------------------------------------------------------------------
(* The list code, on an image of the metadata. *)

(* append_alru_head: a chain of lines in front of the list. *)
AppendHead(m, p, head, tail) ==
    IF head = End /\ tail = End THEN m
    ELSE IF head = End \/ tail = End THEN [m EXCEPT !.bug = TRUE]
    ELSE IF m.list[p].head = End
    THEN [m EXCEPT !.list[p].head = head, !.list[p].tail = tail]
    ELSE [m EXCEPT !.node[m.list[p].head].prev = tail,
                   !.node[tail].next = m.list[p].head,
                   !.list[p].head = head]

(* add_alru_head *)
AddHead(m, p, l) ==
    LET t == AppendHead([m EXCEPT !.node[l] = [prev |-> End, next |-> End, age |-> 0]],
                        p, l, l)
    IN  [t EXCEPT !.list[p].size = @ + 1]

Linked(m, l) == m.node[l].next # End \/ m.node[l].prev # End

RemoveKeepsTail(m, p, l) ==
    LET n == m.node[l].next
        v == m.node[l].prev
        h == m.list[p].head = l
        off == [m EXCEPT !.node[l].prev = End, !.node[l].next = End,
                         !.list[p].size = @ - 1]
    IN  IF ~Linked(m, l) /\ ~h THEN m
        ELSE IF n = End /\ v = End THEN [off EXCEPT !.list[p].head = End, !.list[p].tail = End]
        ELSE IF h THEN [off EXCEPT !.list[p].head = n, !.node[n].prev = End]
        ELSE IF n = End THEN [off EXCEPT !.node[v].next = End]
        ELSE [off EXCEPT !.node[v].next = n, !.node[n].prev = v]

(* remove_alru_list: only node, head, tail, or a node in the middle. *)
RemoveList(m, p, l) ==
    LET n == m.node[l].next
        v == m.node[l].prev
        h == m.list[p].head = l
        t == m.list[p].tail = l
        off == [m EXCEPT !.node[l].prev = End, !.node[l].next = End,
                         !.list[p].size = @ - 1]
    IN  IF ~Linked(m, l) /\ ~h /\ ~t THEN m
        ELSE IF h /\ t THEN [off EXCEPT !.list[p].head = End, !.list[p].tail = End]
        ELSE IF (~t /\ n = End) \/ (~h /\ v = End) THEN [m EXCEPT !.bug = TRUE]
        ELSE IF h THEN [off EXCEPT !.list[p].head = n, !.node[n].prev = End]
        ELSE IF t THEN [off EXCEPT !.list[p].tail = v, !.node[v].next = End]
        ELSE [off EXCEPT !.node[v].next = n, !.node[n].prev = v]

(* cleaning_policy_alru_set_hot_cache_line, of a line of io class p. *)
SetHot(m, l, p) ==
    LET only == m.list[p].head = l /\ m.list[p].tail = l
    IN  AddHead(IF Linked(m, l) \/ only THEN RemoveList(m, p, l) ELSE m, p, l)

(* cleaning_policy_alru_purge_cache_block *)
PurgeBlock(m, l) == RemoveList(m, part[l], l)

(* cleaning_policy_alru_init_cache_block: the time stamp is 0. *)
InitCacheBlock(m, l) == [m EXCEPT !.node[l] = FreshNode]

(* The guard of cleaning_ops.h. *)
Guarded(m) == IF mode \in {"update", "run"} THEN m ELSE Image

------------------------------------------------------------------------------
(* Requests and the other cleaners. *)

StartWrite(l) ==
    /\ mode # "load" /\ writes < MaxWrites
    /\ core[l] \in opened /\ l \notin held
    /\ held' = held \cup {l} /\ access' = 0 /\ writes' = writes + 1
    /\ UNCHANGED <<core, part, dirty, policy, opened, mode, todo, pass, triggered,
                   flush, changes, errors>>

(* ocf_map_cache_line, for a free or evicted line.  A cleaner that was to flush
   it finds another core line there and skips it (_ocf_cleaner_check_map).    *)
MapLine(l, c, p) ==
    /\ mode # "load" /\ writes < MaxWrites
    /\ ~dirty[l] /\ l \notin held /\ c \in opened
    /\ core' = [core EXCEPT ![l] = c] /\ part' = [part EXCEPT ![l] = p]
    /\ held' = held \cup {l} /\ access' = 0 /\ writes' = writes + 1
    /\ Store(Guarded(InitCacheBlock(Image, l)))
    /\ flush' = flush \ {l}
    /\ UNCHANGED <<dirty, opened, mode, todo, pass, triggered, changes, errors>>

(* set_cache_line_dirty; a line filled by a read stays clean. *)
EndWrite(l, dirties) ==
    /\ l \in held
    /\ held' = held \ {l}
    /\ dirty' = [dirty EXCEPT ![l] = @ \/ dirties]
    /\ Store(IF dirties THEN Guarded(SetHot(Image, l, part[l])) ELSE Image)
    /\ UNCHANGED <<core, part, opened, mode, todo, access, pass, triggered, flush, bounds>>

(* ocf_user_part_move, of a request: off the list of the old io class, onto the new one. *)
Move(l, p) ==
    /\ mode # "load" /\ writes < MaxWrites
    /\ core[l] \in opened /\ l \notin held /\ part[l] # p
    /\ part' = [part EXCEPT ![l] = p]
    /\ Store(IF dirty[l] THEN Guarded(SetHot(PurgeBlock(Image, l), l, p)) ELSE Image)
    /\ access' = 0 /\ writes' = writes + 1
    /\ UNCHANGED <<core, dirty, held, opened, mode, todo, pass, triggered, flush,
                   changes, errors>>

(* set_cache_line_clean: the dirty bit, then the policy. *)
Clean(l) ==
    /\ dirty[l] /\ l \notin held /\ core[l] \in opened
    /\ dirty' = [dirty EXCEPT ![l] = FALSE]
    /\ Store(Guarded(PurgeBlock(Image, l)))
    /\ UNCHANGED <<core, part, held, opened, mode, todo, access, pass, triggered, bounds>>

CleanElsewhere(l) == mode # "load" /\ Clean(l) /\ UNCHANGED flush

Older(a, bound) == IF a < bound THEN a + 1 ELSE a

Tick ==
    /\ mode # "load"
    /\ node' = [l \in Cline |-> [node[l] EXCEPT !.age = Older(@, Stale + 1)]]
    /\ access' = Older(access, Activity) /\ pass' = Older(pass, WakeUp + 1)
    /\ UNCHANGED <<core, part, dirty, held, list, bug, opened, mode, todo, triggered,
                   flush, bounds>>

------------------------------------------------------------------------------
(* The cleaner's thread. *)

DirtyLines == {l \in Cline : dirty[l]}

(* check_for_dirty_ratio: how it decides, and what it remembers. *)
Exceeded ==
    \/ triggered /\ InertiaLines >= RatioLines
    \/ Cardinality(DirtyLines) >= RatioLines - (IF triggered THEN InertiaLines ELSE 0)

(* is_cleanup_possible: dirty ratio, io activity, wake-up time. *)
CleanupPossible == Exceeded \/ (access >= Activity /\ pass > WakeUp)

(* more_blocks_to_flush and block_is_busy; the age stands for the time stamp
   compared with compute_timestamp.                                           *)
MoreBlocks(l) == l # End /\ (Exceeded \/ node[l].age > Stale)
Busy(l) == core[l] \notin opened \/ l \in held

TailWalkStops(p) ==
    LET f[n \in 0 .. Cardinality(Cline)] ==
            IF n = 0 THEN list[p].tail
            ELSE IF MoreBlocks(f[n - 1]) /\ ~Busy(f[n - 1]) THEN node[f[n - 1]].prev ELSE End
    IN  [n \in 1 .. Cardinality(Cline) |-> f[n - 1]]

(* get_data_to_flush: from the tails, class by class, at most FlushMax. *)
TailWalk(p) ==
    LET f[n \in 0 .. Cardinality(Cline)] ==
            IF n = 0 THEN list[p].tail
            ELSE IF MoreBlocks(f[n - 1]) THEN node[f[n - 1]].prev ELSE End
    IN  [n \in 1 .. Cardinality(Cline) |-> f[n - 1]]

DataToFlush ==
    LET all == FlattenSeq([i \in 1 .. Cardinality(Parts) |->
                              TailWalk(SetToSortSeq(Parts, <)[i])])
        due == SelectSeq(all, LAMBDA l : MoreBlocks(l) /\ ~Busy(l))
    IN  {due[i] : i \in 1 .. Min({Len(due), FlushMax})}

(* alru_clean: with exclusive access to the metadata (ocf_metadata_try_start_
   exclusive_access and the allocation may fail), collect the lines; the time
   of the pass is only noted when there were none.                            *)
PerformCleaning(locked) ==
    /\ mode = "run" /\ flush = {}
    /\ triggered' = Exceeded
    /\ flush' = IF CleanupPossible /\ locked THEN DataToFlush ELSE {}
    /\ pass' = IF CleanupPossible /\ locked /\ flush' = {} THEN 0 ELSE pass
    /\ UNCHANGED <<core, part, dirty, held, policy, opened, mode, todo, access, bounds>>

(* ocf_cleaner_do_flush_data_async: a line is locked, looked at again, and
   cleaned if it is still dirty.                                              *)
FlushLine(l) ==
    /\ l \in flush /\ l \notin held
    /\ flush' = flush \ {l}
    /\ \/ Clean(l)
       \/ ~dirty[l] /\ UNCHANGED <<core, part, dirty, held, policy, opened, mode,
                                   todo, access, pass, triggered, bounds>>

(* A flush that fails leaves the rest of its lines as they were. *)
FlushFails ==
    /\ flush # {} /\ errors < MaxErrors
    /\ flush' = {} /\ errors' = errors + 1
    /\ UNCHANGED <<core, part, dirty, held, policy, opened, mode, todo, access, pass,
                   triggered, writes, changes>>

------------------------------------------------------------------------------
(* Management, under the cache lock. *)

Manage == mode \in {"run", "off"} /\ flush = {}
Unowned == UNCHANGED <<held, todo, access, pass, triggered, flush, writes, errors>>

DetachCore(c) ==
    /\ Manage /\ c \in opened /\ changes < MaxChanges
    /\ opened' = opened \ {c} /\ changes' = changes + 1
    /\ UNCHANGED <<core, part, dirty, policy, mode>> /\ Unowned

ReopenCore(c) ==
    /\ Manage /\ c \in Cores \ opened
    /\ opened' = opened \cup {c}
    /\ UNCHANGED <<core, part, dirty, policy, mode, changes>> /\ Unowned

(* cache_mngt_core_deinit_attached_meta, of all lines of the core. *)
RemoveCore(c) ==
    LET gone == {l \in Cline : core[l] = c}
    IN  /\ Manage /\ changes < MaxChanges /\ gone # {} /\ gone \cap held = {}
        /\ core' = [l \in Cline |-> IF l \in gone THEN None ELSE core[l]]
        /\ dirty' = [l \in Cline |-> l \notin gone /\ dirty[l]]
        /\ Store(Guarded(FoldSet(LAMBDA l, m : PurgeBlock(m, l), Image, gone \cap DirtyLines)))
        /\ changes' = changes + 1
        /\ UNCHANGED <<part, opened, mode>> /\ Unowned

(* cleaning_policy_alru_deinitialize frees the context; the lists stay in the
   metadata as they are.                                                      *)
Deinitialize ==
    /\ Manage /\ mode = "run" /\ changes < MaxChanges
    /\ mode' = "off" /\ changes' = changes + 1
    /\ UNCHANGED <<core, part, dirty, policy, opened>> /\ Unowned

Cleared(m) == [m EXCEPT !.list = [p \in Parts |-> EmptyList]]

(* cleaning_policy_alru_prepopulate: empty lists, fresh lines. *)
Prepopulate(m) ==
    [Cleared(m) EXCEPT !.node = [l \in Cline |-> FreshNode]]

(* A switch to this policy: initialize and prepopulate while the counter is
   frozen, then unfreeze it.                                                  *)
Initialize ==
    /\ Manage /\ mode = "off"
    /\ Store(Prepopulate(Image))
    /\ mode' = "update" /\ todo' = Cline
    /\ pass' = WakeUp + 1 /\ triggered' = FALSE
    /\ UNCHANGED <<core, part, dirty, held, opened, access, flush, bounds>>

(* ocf_alru_update_handle: the hash buckets in any order. *)
UpdateHandle(l) ==
    /\ mode = "update" /\ l \in todo
    /\ todo' = todo \ {l}
    /\ Store(IF dirty[l] THEN SetHot(Image, l, part[l]) ELSE Image)
    /\ UNCHANGED <<core, part, dirty, held, opened, mode, access, pass, triggered,
                   flush, bounds>>

UpdateFinish ==
    /\ mode = "update" /\ todo = {}
    /\ mode' = "run"
    /\ UNCHANGED <<core, part, dirty, held, policy, opened, todo, access, pass,
                   triggered, flush, bounds>>

(* The lines of a shard, ocf_alru_populate_handle. *)
Portion == (Cardinality(Cline) + Shards - 1) \div Shards
ShardLines(s) == {l \in Cline : l \div Portion = s}

(* add_alru_head_populate over a shard: the chain of the dirty lines of class
   p, the last one at its head.                                               *)
Chain(s, p) ==
    SetToSortSeq({l \in ShardLines(s) : core[l] # None /\ dirty[l] /\ part[l] = p}, >)

ChainNode(ch, i) == [prev |-> IF i = 1 THEN End ELSE ch[i - 1],
                     next |-> IF i = Len(ch) THEN End ELSE ch[i + 1], age |-> 0]

AppendShard(m, p, s) ==
    LET ch == Chain(s, p)
        t == [m EXCEPT !.node = [l \in Cline |->
                 IF \E i \in DOMAIN ch : ch[i] = l
                 THEN ChainNode(ch, CHOOSE i \in DOMAIN ch : ch[i] = l) ELSE @[l]]]
    IN  IF ch = <<>> THEN AppendHead(t, p, End, End)
        ELSE AppendHead([t EXCEPT !.list[p].size = @ + Len(ch)], p, ch[1], ch[Len(ch)])

Before(x, y) == x[1] < y[1] \/ (x[1] = y[1] /\ x[2] < y[2])

(* cleaning_policy_alru_populate with reconstruct, and ocf_alru_fill_finish
   that joins the chains of the shards.                                       *)
Populate ==
    /\ mode = "load"
    /\ LET clean == [Cleared(Image) EXCEPT !.node = [l \in Cline |->
                        IF core[l] # None /\ ~dirty[l] THEN FreshNode ELSE @[l]]]
       IN  Store(FoldLeft(LAMBDA m, ps : AppendShard(m, ps[1], ps[2]), clean,
                          SetToSortSeq(Parts \X (0 .. Shards - 1), Before)))
    /\ mode' = "run"
    /\ UNCHANGED <<core, part, dirty, held, opened, todo, access, pass, triggered,
                   flush, bounds>>

(* A cache that was not shut down properly: the lists on the disk are stale. *)
Init ==
    /\ core \in [Cline -> Cores \cup {None}] /\ part \in [Cline -> Parts]
    /\ dirty \in [Cline -> BOOLEAN]
    /\ \A l \in Cline : dirty[l] => core[l] # None
    /\ held = {} /\ bug = FALSE
    /\ node = [l \in Cline |-> [prev |-> 0, next |-> 0, age |-> 0]]
    /\ list = [p \in Parts |-> [head |-> 0, tail |-> 0, size |-> 1]]
    /\ opened = Cores /\ mode = "load" /\ todo = {}
    /\ access = Activity /\ pass = WakeUp + 1 /\ triggered = FALSE
    /\ flush = {} /\ writes = 0 /\ changes = 0 /\ errors = 0

CleanerStep == PerformCleaning(TRUE) \/ \E l \in Cline : FlushLine(l)

Next ==
    \/ Populate \/ Tick \/ CleanerStep \/ PerformCleaning(FALSE) \/ FlushFails
    \/ \E l \in Cline : \/ StartWrite(l) \/ CleanElsewhere(l) \/ UpdateHandle(l)
                        \/ \E d \in BOOLEAN : EndWrite(l, d)
                        \/ \E p \in Parts : Move(l, p)
                        \/ \E c \in Cores, p \in Parts : MapLine(l, c, p)
    \/ \E c \in Cores : DetachCore(c) \/ ReopenCore(c) \/ RemoveCore(c)
    \/ Deinitialize \/ Initialize \/ UpdateFinish

(* Time passes, the cleaner's thread is woken again and again and finds the
   metadata unlocked, its flushes end; a load, a policy switch and the requests
   that hold a line end.                                                      *)
Fairness ==
    /\ WF_vars(Tick) /\ WF_vars(CleanerStep) /\ WF_vars(Populate)
    /\ WF_vars(UpdateFinish \/ \E l \in Cline : UpdateHandle(l))
    /\ \A l \in Cline : WF_vars(\E d \in BOOLEAN : EndWrite(l, d))

Spec == Init /\ [][Next]_vars /\ Fairness

------------------------------------------------------------------------------

\* The variables have their types; the size of a list is never negative.
TypeOK ==
    /\ core \in [Cline -> Cores \cup {None}] /\ part \in [Cline -> Parts]
    /\ dirty \in [Cline -> BOOLEAN] /\ held \subseteq Cline /\ flush \subseteq Cline
    /\ node \in [Cline -> [prev : Cline \cup {End}, next : Cline \cup {End}, age : 0 .. Stale + 1]]
    /\ list \in [Parts -> [head : Cline \cup {End}, tail : Cline \cup {End},
                           size : 0 .. Cardinality(Cline)]]
    /\ mode \in {"load", "off", "update", "run"}

(* The lines from the head of a list on, End repeated at the end. *)
HeadWalk(p) ==
    LET f[n \in 0 .. Cardinality(Cline)] ==
            IF n = 0 THEN list[p].head
            ELSE IF f[n - 1] = End THEN End ELSE node[f[n - 1]].next
    IN  [n \in 1 .. Cardinality(Cline) |-> f[n - 1]]
OnList(p) == SelectSeq(HeadWalk(p), LAMBDA l : l # End)

Active == mode \in {"update", "run"}

\* The lists are well formed: links in both directions agree, head and tail are
\* the ends, the size counts the lines, no line is on two lists, and a mapped
\* line off the lists carries no links (remove_alru_list and set_hot decide by
\* the links alone whether a line is on a list).
ListsSound ==
    Active =>
        /\ \A p \in Parts :
              LET s == OnList(p)
              IN  /\ list[p].size = Len(s)
                  /\ list[p].tail = IF s = <<>> THEN End ELSE s[Len(s)]
                  /\ \A i \in DOMAIN s :
                        /\ node[s[i]].prev = (IF i = 1 THEN End ELSE s[i - 1])
                        /\ node[s[i]].next = (IF i = Len(s) THEN End ELSE s[i + 1])
                        /\ part[s[i]] = p
        /\ \A l \in Cline :
              core[l] # None /\ (\A p \in Parts : l \notin Range(OnList(p))) => ~Linked(Image, l)

\* While the policy runs, the lists hold exactly the dirty lines, whatever was
\* written, cleaned, moved or remapped while its counter was frozen.
DirtyListed ==
    mode = "run" => UNION {Range(OnList(p)) : p \in Parts} = DirtyLines

\* From head to tail the lines grow older.  get_data_to_flush relies on it: it
\* stops at the first line that is too young.
OldestLast ==
    Active => \A p \in Parts :
        LET s == OnList(p) IN \A i \in 1 .. Len(s) - 1 : node[s[i]].age <= node[s[i + 1]].age

\* No ENV_BUG_ON of the list code fires.
NoBug == ~bug

Drained == \A l \in Cline : dirty[l] => mode = "off" \/ core[l] \notin opened

\* Once the writes stop, every dirty line of an opened core is cleaned as long
\* as this is the active policy: a line that is locked or whose core is closed
\* does not keep the cleaner from the lines behind it.
Drains == <>[]Drained

\* The policy of alru.c as a whole: sound lists of exactly the dirty lines, the
\* oldest at the tail.
AlruSound == TypeOK /\ NoBug /\ ListsSound /\ DirtyListed /\ OldestLast
==============================================================================
