------------------------------- MODULE LruList -------------------------------
(* The least-recently-used eviction lists of src/src/eviction/ocf_lru.c at the
   level of the code: doubly linked lists threaded through the metadata of the
   cache lines, one clean and one dirty list for every partition and list index,
   the lists of the user partitions split into a hot head and a cold tail that
   every operation rebalances by at most one line.

   An operation on a list runs under the lock of its list index, so it is one
   step here.  The exception is a hit (ocf_lru_hot_cline): it reads the line's
   hot bit and picks the list before it takes the lock.                       *)
EXTENDS Striping, FiniteSets

CONSTANTS
    UserParts,     \* the user partitions (io classes)
    Default,       \* OCF_IO_CLASS_UNCLASSIFIED, one of them
    Hits           \* the requests that may be marking a line hot

VARIABLES
    node,          \* struct ocf_lru_meta of every line
    lst,           \* struct ocf_lru_list of every list
    dirty, valid,  \* the status bits of every line
    size,          \* curr_size of every partition
    apart,         \* lines of a detached subvolume, on the freelist "detached"
    hit,           \* what a request in ocf_lru_hot_cline has read so far
    todo,          \* list indices still to be populated
    bug            \* an ENV_BUG_ON of the list code has fired

vars == <<node, lst, dirty, valid, size, apart, hit, todo, bug>>

Parts == UserParts \cup {"free", "detached"}

Tracked(p) == p \in UserParts              \* track_hot

ListKeys == [part : Parts, idx : 0 .. NumLists - 1, clean : BOOLEAN]
Lists == {k \in ListKeys : k.clean \/ Tracked(k.part)}

(* ocf_lru_get_list: the freelists only have a clean list. *)
GetList(p, c, clean) ==
    [part |-> p, idx |-> ListIndex(c), clean |-> clean \/ ~Tracked(p)]

EmptyList == [nodes |-> 0, head |-> End, tail |-> End, hots |-> 0, last |-> End]
FreshNode == [prev |-> End, next |-> End, hot |-> FALSE, part |-> "free"]

------------------------------------------------------------------------------
(* The list code as functions on an image [node, lst, bug] of the metadata.   *)

(* balance_lru_list and balance_update_last_hot: the number of hot lines
   becomes half the length, which moves the border by at most one line.       *)
Balance(m, k) ==
    LET l == m.lst[k]
        target == l.nodes \div 2           \* OCF_LRU_HOT_RATIO
        change == target - l.hots
        border == IF change < 0 THEN m.node[l.last].prev
                  ELSE IF l.last = End THEN l.head ELSE m.node[l.last].next
        pivot == IF change > 0 THEN border ELSE l.last
        broken == \/ change \notin {-1, 0, 1}
                  \/ change = -1 /\ l.last = End
                  \/ change = 1 /\ l.last # End /\ border = End
    IN  IF ~Tracked(k.part) \/ change = 0 THEN m
        ELSE IF broken THEN [m EXCEPT !.bug = TRUE]
        ELSE [m EXCEPT !.lst[k] = [@ EXCEPT !.hots = target, !.last = border],
                       !.node[pivot].hot = (change > 0)]

(* add_lru_head_nobalance *)
AddHeadNoBalance(m, k, c) ==
    LET l == m.lst[k]
        first == l.nodes = 0
        warm == Tracked(k.part) /\ ~first
    IN  IF ~first /\ l.head = End THEN [m EXCEPT !.bug = TRUE]
        ELSE [m EXCEPT
            !.node = [d \in Lines |->
                CASE d = c -> [@[d] EXCEPT !.hot = warm, !.prev = End,
                                           !.next = IF first THEN End ELSE l.head]
                  [] d # c /\ ~first /\ d = l.head -> [@[d] EXCEPT !.prev = c]
                  [] OTHER -> @[d]],
            !.lst[k] = [nodes |-> l.nodes + 1, head |-> c,
                        tail |-> IF first THEN c ELSE l.tail,
                        hots |-> IF warm THEN l.hots + 1 ELSE l.hots,
                        last |-> IF warm /\ ~m.node[l.head].hot THEN c ELSE l.last]]

(* add_lru_head *)
AddHead(m, k, c) == Balance(AddHeadNoBalance(m, k, c), k)

(* remove_lru_list_nobalance and remove_update_ptrs *)
RemoveNoBalance(m, k, c) ==
    LET l == m.lst[k]
        n == m.node[c]
        broken == \/ (l.head = c) = (n.prev # End)
                  \/ (l.tail = c) = (n.next # End)
    IN  IF broken THEN [m EXCEPT !.bug = TRUE]
        ELSE [m EXCEPT
            !.node = [d \in Lines |->
                CASE d = c -> [@[d] EXCEPT !.prev = End, !.next = End, !.hot = FALSE]
                  [] d # c /\ d = n.prev -> [@[d] EXCEPT !.next = n.next]
                  [] d # c /\ d = n.next -> [@[d] EXCEPT !.prev = n.prev]
                  [] OTHER -> @[d]],
            !.lst[k] = [nodes |-> l.nodes - 1,
                        head |-> IF n.prev = End THEN n.next ELSE l.head,
                        tail |-> IF n.next = End THEN n.prev ELSE l.tail,
                        hots |-> IF n.hot THEN l.hots - 1 ELSE l.hots,
                        last |-> IF l.last = c THEN n.prev ELSE l.last]]

(* ocf_lru_move: remove, rebalance the source, add at the destination's head. *)
Move(m, c, src, dst) == AddHead(Balance(RemoveNoBalance(m, src, c), src), dst, c)

(* ocf_lru_set_hot *)
SetHot(m, k, c) == AddHead(RemoveNoBalance(m, k, c), k, c)

------------------------------------------------------------------------------
Image == [node |-> node, lst |-> lst, bug |-> bug]

Become(m) == node' = m.node /\ lst' = m.lst /\ bug' = m.bug

Init ==
    /\ node = [c \in Lines |-> FreshNode]
    /\ lst = [k \in Lists |-> EmptyList]
    /\ dirty = [c \in Lines |-> FALSE] /\ valid = dirty
    /\ size = [p \in Parts |-> 0]
    /\ apart = {}
    /\ hit = [h \in Hits |-> << >>]
    /\ todo = 0 .. NumLists - 1
    /\ bug = FALSE

(* ocf_lru_populate: the shards run in parallel; the last one to end stores the
   number of free lines.                                                      *)
Populate(s) ==
    /\ s \in todo
    /\ todo' = todo \ {s}
    /\ Become(FoldLeft(LAMBDA m, c : AddHeadNoBalance(m, GetList("free", c, TRUE), c),
                       Image, ShardOrder(s)))
    /\ size' = IF todo' # {} THEN size
               ELSE [size EXCEPT !["free"] = PopulatedLines]
    /\ UNCHANGED <<dirty, valid, apart, hit>>

------------------------------------------------------------------------------
(* The operations.  All but a hit run with the line's hash bucket locked for
   writing (or on a line that no hash bucket leads to), so not while a hit on
   the same line is between its two steps.                                    *)
Still(c) == todo = {} /\ ~bug /\ \A h \in Hits : hit[h] # << >> => hit[h][1] # c

Resides(c) == IF c \in apart THEN "detached" ELSE node[c].part

(* ocf_lru_repart: used by ocf_user_part_move, and by eviction and the mapping of
   free lines to give a line to the partition of a request.                   *)
Repart(c, dst) ==
    LET src == Resides(c)
        moved == Move(Image, c, GetList(src, c, ~dirty[c]), GetList(dst, c, ~dirty[c]))
        id == IF dst = "detached" THEN "free" ELSE dst   \* both PARTITION_FREELIST
    IN  /\ Become([moved EXCEPT !.node[c].part = id])
        /\ size' = [size EXCEPT ![src] = @ - 1, ![dst] = @ + 1]

(* A line changes partition, or a free line is mapped. *)
Assign(c, dst) ==
    /\ Still(c) /\ c \notin apart /\ dst # node[c].part
    /\ Repart(c, dst)
    /\ UNCHANGED <<dirty, valid, apart, hit, todo>>

(* Eviction within one partition: the line goes to the head of its own list. *)
Reuse(c) ==
    /\ Still(c) /\ Tracked(node[c].part) /\ ~dirty[c]
    /\ Become(SetHot(Image, GetList(node[c].part, c, TRUE), c))
    /\ valid' = [valid EXCEPT ![c] = FALSE]
    /\ UNCHANGED <<dirty, size, apart, hit, todo>>

(* set_cache_line_valid *)
SetValid(c) ==
    /\ Still(c) /\ Tracked(node[c].part) /\ ~valid[c]
    /\ valid' = [valid EXCEPT ![c] = TRUE]
    /\ UNCHANGED <<node, lst, dirty, size, apart, hit, todo, bug>>

(* __set_cache_line_invalid, ocf_lru_rm_cline: the line goes back to the freelist,
   unless another request waits for it; then it stays where it is.            *)
Invalidate(c, waiters) ==
    /\ Still(c) /\ Tracked(node[c].part) /\ ~dirty[c]
    /\ valid' = [valid EXCEPT ![c] = FALSE]
    /\ IF waiters THEN UNCHANGED <<node, lst, size, bug>> ELSE Repart(c, "free")
    /\ UNCHANGED <<dirty, apart, hit, todo>>

(* Mutant of SetDirty: the line stays on the list of its old status. *)
SetDirtyStays(c, on) ==
    /\ Still(c) /\ Tracked(node[c].part) /\ valid[c] /\ dirty[c] # on
    /\ dirty' = [dirty EXCEPT ![c] = on]
    /\ UNCHANGED <<node, lst, bug, valid, size, apart, hit, todo>>

(* ocf_lru_dirty_cline and ocf_lru_clean_cline, from set_cache_line_dirty and
   set_cache_line_clean, which change the status bit first.                   *)
SetDirty(c, on) ==
    /\ Still(c) /\ Tracked(node[c].part) /\ valid[c] /\ dirty[c] # on
    /\ dirty' = [dirty EXCEPT ![c] = on]
    /\ Become(Move(Image, c, GetList(node[c].part, c, on),
                             GetList(node[c].part, c, ~on)))
    /\ UNCHANGED <<valid, size, apart, hit, todo>>

(* ocf_lru_detach from __detach_cache_line, and ocf_lru_reattach. *)
Detach(c) ==
    /\ Still(c) /\ c \notin apart /\ ~dirty[c]
    /\ Repart(c, "detached")
    /\ apart' = apart \cup {c}
    /\ valid' = [valid EXCEPT ![c] = FALSE]
    /\ UNCHANGED <<dirty, hit, todo>>

Reattach(c) ==
    /\ Still(c) /\ c \in apart
    /\ Repart(c, "free")
    /\ apart' = apart \ {c}
    /\ UNCHANGED <<dirty, valid, hit, todo>>

(* ocf_lru_hot_cline up to the lock: nothing is done for a hot line. *)
HotRead(h, c) ==
    /\ todo = {} /\ ~bug /\ hit[h] = << >>
    /\ Tracked(node[c].part) /\ valid[c] /\ ~node[c].hot
    /\ hit' = [hit EXCEPT ![h] = <<c, GetList(node[c].part, c, ~dirty[c])>>]
    /\ UNCHANGED <<node, lst, dirty, valid, size, apart, todo, bug>>

(* ocf_lru_hot_cline under the lock. *)
HotSet(h) ==
    /\ hit[h] # << >> /\ ~bug
    /\ LET c == hit[h][1]  k == hit[h][2]
           astray == \/ node[c].next = End /\ lst[k].tail # c
                     \/ node[c].prev = End /\ lst[k].head # c
       IN  Become(IF astray THEN [Image EXCEPT !.bug = TRUE] ELSE SetHot(Image, k, c))
    /\ hit' = [hit EXCEPT ![h] = << >>]
    /\ UNCHANGED <<dirty, valid, size, apart, todo>>


------------------------------------------------------------------------------
(* Loading a cache. *)

(* ocf_lru_restore_cline: after a clean shutdown the heads, the counters and the
   hot border of the lists are put together from the links of the lines.      *)
RestoreCline(r, c) ==
    LET n == node[c]
        p == IF valid[c] THEN n.part ELSE "free"
        k == GetList(p, c, ~dirty[c])
        l == r.lst[k]
        border == Tracked(p) /\ n.hot /\ (n.next = End \/ ~node[n.next].hot)
        bad == \/ ~valid[c] /\ n.hot
               \/ valid[c] /\ ~Tracked(p)
               \/ n.prev # End /\ node[n.prev].next # c
               \/ n.next # End /\ node[n.next].prev # c
               \/ n.prev = End /\ l.head # End
               \/ n.next = End /\ l.tail # End
               \/ border /\ l.last # End
    IN  IF ~r.ok \/ bad THEN [r EXCEPT !.ok = FALSE]
        ELSE [r EXCEPT
            !.size[p] = @ + 1,
            !.lst[k] = [nodes |-> @.nodes + 1,
                        head |-> IF n.prev = End THEN c ELSE @.head,
                        tail |-> IF n.next = End THEN c ELSE @.tail,
                        hots |-> IF Tracked(p) /\ n.hot THEN @.hots + 1 ELSE @.hots,
                        last |-> IF border THEN c ELSE @.last]]

(* ocf_lru_restore_runtime *)
Restored ==
    FoldLeft(RestoreCline,
             [lst |-> [k \in Lists |-> EmptyList], size |-> [p \in Parts |-> 0],
              ok |-> TRUE],
             AllInOrder)

(* The shutdowns that can be restored.  Two kinds of line look free to the restore
   and are linked into another list: a line invalidated under a waiting request,
   which stays in its partition, and a line of a detached subvolume.  With one of
   them the load fails or brings up broken lists, and is not followed further. *)
Restorable == apart = {} /\ \A c \in Lines : Tracked(node[c].part) => valid[c]

(* A load after a clean shutdown: no request is in flight. *)
LoadClean ==
    /\ todo = {} /\ ~bug /\ \A h \in Hits : hit[h] = << >>
    /\ Restorable
    /\ IF Restored.ok THEN lst' = Restored.lst /\ size' = Restored.size
                      ELSE lst' = [k \in Lists |-> EmptyList] /\ UNCHANGED size
    /\ UNCHANGED <<node, dirty, valid, apart, hit, todo, bug>>

(* One line of ocf_mngt_rebuild_metadata_handle: only dirty lines survive a crash;
   they go to the default partition, the others to the freelist.             *)
RebuildCline(m, c) ==
    LET fresh == [m EXCEPT !.node[c] =
            [FreshNode EXCEPT !.part = IF dirty[c] THEN Default ELSE "free"]]
    IN  IF dirty[c] THEN AddHead(fresh, GetList(Default, c, FALSE), c)
                    ELSE AddHeadNoBalance(fresh, GetList("free", c, TRUE), c)

(* A crash, and the load that recovers from it: each list index is rebuilt by one
   shard, which owns its lists; the partition sizes are set when all are done.*)
Recover ==
    /\ todo = {} /\ ~bug
    /\ Become(FoldLeft(RebuildCline,
                       [node |-> node, lst |-> [k \in Lists |-> EmptyList], bug |-> FALSE],
                       AllInOrder))
    /\ valid' = dirty
    /\ LET kept == Cardinality({c \in Lines : dirty[c]})
       IN  size' = [p \in Parts |-> CASE p = Default -> kept
                                      [] p = "free" -> Entries - kept
                                      [] OTHER -> 0]
    /\ apart' = {}
    /\ hit' = [h \in Hits |-> << >>]
    /\ UNCHANGED <<dirty, todo>>

Next ==
    \/ \E s \in 0 .. NumLists - 1 : Populate(s)
    \/ \E c \in Lines :
          \/ \E dst \in UserParts : Assign(c, dst)
          \/ Reuse(c)
          \/ SetValid(c)
          \/ \E waiters \in BOOLEAN : Invalidate(c, waiters)
          \/ \E on \in BOOLEAN : SetDirty(c, on)
          \/ Detach(c)
          \/ Reattach(c)
          \/ \E h \in Hits : HotRead(h, c)
    \/ \E h \in Hits : HotSet(h)
    \/ LoadClean
    \/ Recover

Spec == Init /\ [][Next]_vars

------------------------------------------------------------------------------
(* Properties. *)

(* The lines of a list from its head, following the next pointers; no longer than
   the number of lines, so that a cycle shows as a wrong length.              *)
Walk(k) ==
    LET from[i \in 0 .. Entries] ==
            IF i = 0 THEN << >>
            ELSE LET w == from[i - 1]
                     c == IF w = << >> THEN lst[k].head ELSE node[Last(w)].next
                 IN  IF c = End THEN w ELSE Append(w, c)
    IN  from[Entries]

(* Links and counters stay in their ranges, and no assertion of the list code
   (balance by more than one line, a border past the end, a head or tail that is
   not one, a hit on a line that left its list) ever fires.                   *)
TypeOK ==
    /\ \A c \in Lines : node[c].prev \in 0 .. End /\ node[c].next \in 0 .. End
    /\ \A k \in Lists : lst[k].nodes \in 0 .. Entries /\ lst[k].hots \in 0 .. Entries
    /\ \A p \in Parts : size[p] \in 0 .. Entries
    /\ bug = FALSE

Running == todo = {}

(* Every line is on exactly one list, the one of its partition, list index and
   status; the length, the tail and the back links agree with the walk from the
   head; and the partition's curr_size counts its lines.                      *)
ListsSound ==
    Running =>
    /\ \A k \in Lists : LET w == Walk(k) IN
          /\ lst[k].nodes = Len(w)
          /\ lst[k].tail = IF w = << >> THEN End ELSE Last(w)
          /\ \A i \in 1 .. Len(w) :
                /\ k = GetList(Resides(w[i]), w[i], ~dirty[w[i]])
                /\ node[w[i]].prev = IF i = 1 THEN End ELSE w[i - 1]
    /\ \A c \in Lines : \E k \in Lists : c \in ToSet(Walk(k))
    /\ \A p \in Parts : size[p] = Cardinality({c \in Lines : Resides(c) = p})

(* The hot lines of a tracked list are exactly its first half, and last_hot is the
   last of them: eviction of a sequential successor, which only looks at the hot
   bit, takes a line from the older half.                                     *)
HotHalf ==
    \A k \in Lists : LET w == Walk(k)  half == Len(w) \div 2 IN
        IF Tracked(k.part)
        THEN /\ lst[k].hots = half
             /\ lst[k].last = IF half = 0 THEN End ELSE w[half]
             /\ \A i \in 1 .. Len(w) : node[w[i]].hot <=> i <= half
        ELSE \A i \in 1 .. Len(w) : ~node[w[i]].hot

(* A clean shutdown at any quiet moment can be loaded: the restore accepts the
   links and yields the very lists, borders and sizes the cache had.  Lines that
   were invalidated under a waiting request and lines of a detached subvolume are
   excused: the restore takes both for free lines, though they are not linked
   into the freelist.                                                         *)
RestoreExact ==
    Running /\ Restorable => Restored = [lst |-> lst, size |-> size, ok |-> TRUE]

(* A link, with line c taken out of the lists. *)
Past(nodes, c, link) == IF link = c THEN nodes[c].next ELSE link

(* The lists are ordered by last use: between populating and recovery a step takes
   at most one line from where it is and puts it at the head of a list, and every
   other line keeps its place; a load after a clean shutdown moves none.      *)
MovesOneStep ==
    Running /\ ~Recover =>
        \/ lst' = lst /\ \A d \in Lines : node'[d].next = node[d].next
        \/ \E k \in Lists : LET c == lst'[k].head IN
             /\ c # End
             /\ \A d \in Lines \ {c} :
                   Past(node', c, node'[d].next) = Past(node, c, node[d].next)
             /\ \A j \in Lists :
                   Past(node', c, lst'[j].head) = Past(node, c, lst[j].head)

MovesOne == [][MovesOneStep]_<<node, lst>>

\* The lists of ocf_lru.c as a whole: every line on its list, links that agree, the
\* hot half in front, and all of it back after a restore.
LruSound == TypeOK /\ ListsSound /\ HotHalf /\ RestoreExact
==============================================================================
