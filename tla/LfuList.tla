------------------------------- MODULE LfuList -------------------------------
(* The least-frequently-used eviction lists of src/src/eviction/ocf_lfu.c: for
   every partition, shard, frequency and clean or dirty one doubly linked list
   threaded through the metadata of the lines.  Relinking runs under the lock of
   the shard and is one step here.  A hit (ocf_lfu_increment) reads the hit count
   and the frequency without any lock, and when the bucket stays the same it also
   writes the new count without one.                                          *)
EXTENDS Striping, FiniteSets

CONSTANTS
    MaxFreq,       \* LFU_MAX_FREQ
    MaxHits,       \* the largest ocf_lfu_hits_t
    UserParts,     \* the user partitions (io classes)
    Default,       \* OCF_IO_CLASS_UNCLASSIFIED, one of them
    Hits           \* the requests that may be counting a hit

VARIABLES
    node,          \* struct ocf_lfu_meta of every line
    lst,           \* struct ocf_lfu_list of every list
    dirty, valid,  \* the status bits of every line
    size,          \* curr_size of every partition
    apart,         \* lines of a detached subvolume, on the freelist "detached"
    hit,           \* what a request in ocf_lfu_increment has read so far
    raced,         \* ghost: lines that two overlapping hits have counted
    todo,          \* shards still to be populated
    bug            \* the ENV_BUG_ON that has fired, or "none"

vars == <<node, lst, dirty, valid, size, apart, hit, raced, todo, bug>>

Parts == UserParts \cup {"free", "detached"}
Owned(p) == p \in UserParts
Freqs == 0 .. MaxFreq - 1

ListKeys == [part : Parts, idx : 0 .. NumLists - 1, freq : Freqs, clean : BOOLEAN]
Lists == {k \in ListKeys : k.clean \/ Owned(k.part)}

(* ocf_lfu_get_list: the freelists only have clean lists. *)
GetList(p, c, freq, clean) ==
    [part |-> p, idx |-> ListIndex(c), freq |-> freq, clean |-> clean \/ ~Owned(p)]

EmptyList == [nodes |-> 0, head |-> End, tail |-> End]

(* ocf_lfu_init_cline *)
FreshNode == [prev |-> End, next |-> End, freq |-> 0, hits |-> 0, clean |-> TRUE,
              part |-> "free"]

(* ocf_lfu_increment_hits and ocf_lfu_hits_to_freq *)
MoreHits(h) == IF h = MaxHits THEN h ELSE h + 1

HitsToFreq(h) ==
    IF h <= 1 THEN 0
    ELSE Least(CHOOSE b \in 1 .. h : 2 ^ b <= h /\ h < 2 ^ (b + 1), MaxFreq - 1)

------------------------------------------------------------------------------
(* The list code as functions on an image [node, lst, bug] of the metadata.   *)

(* add_to_list *)
AddToList(m, k, c) ==
    LET l == m.lst[k] IN
    [m EXCEPT
        !.node = [d \in Lines |->
            CASE d = c -> [@[d] EXCEPT !.prev = End, !.next = l.head]
              [] d # c /\ d = l.head -> [@[d] EXCEPT !.prev = c]
              [] OTHER -> @[d]],
        !.lst[k] = [nodes |-> l.nodes + 1, head |-> c,
                    tail |-> IF l.tail = End THEN c ELSE l.tail]]

(* remove_from_list *)
RemoveFromList(m, k, c) ==
    LET l == m.lst[k]
        n == m.node[c]
        broken == \/ l.nodes = 0
                  \/ (IF n.prev = End THEN l.head ELSE m.node[n.prev].next) # c
                  \/ (IF n.next = End THEN l.tail ELSE m.node[n.next].prev) # c
    IN  IF broken THEN [m EXCEPT !.bug = "links"]
        ELSE [m EXCEPT
            !.node = [d \in Lines |->
                CASE d = c -> [@[d] EXCEPT !.prev = End, !.next = End]
                  [] d # c /\ d = n.prev -> [@[d] EXCEPT !.next = n.next]
                  [] d # c /\ d = n.next -> [@[d] EXCEPT !.prev = n.prev]
                  [] OTHER -> @[d]],
            !.lst[k] = [nodes |-> l.nodes - 1,
                        head |-> IF n.prev = End THEN n.next ELSE l.head,
                        tail |-> IF n.next = End THEN n.prev ELSE l.tail]]

(* The list a line is linked into, by its own metadata: lfu_get_cline_part takes
   every line with the freelist's id to be on the freelist.                   *)
OwnList(m, c) ==
    GetList(m.node[c].part, c, m.node[c].freq, m.node[c].clean)

(* ocf_lfu_remove, and add_to_freq_bucket with new counters *)
Remove1(m, c) == RemoveFromList(m, OwnList(m, c), c)

AddToBucket(m, c, hits, freq, clean) ==
    LET set == [m EXCEPT !.node[c] = [@ EXCEPT !.hits = hits, !.freq = freq,
                                               !.clean = clean]]
    IN  AddToList(set, OwnList(set, c), c)

(* ocf_lfu_add *)
AddLine(m, c) == AddToBucket(m, c, 1, 0, ~dirty[c])

(* ocf_lfu_repart_locked: the line keeps its frequency. *)
RepartLocked(m, c, src, dst) ==
    LET n == m.node[c]
        out == RemoveFromList(m, GetList(src, c, n.freq, n.clean), c)
        in == AddToList(out, GetList(dst, c, n.freq, n.clean), c)
    IN  [in EXCEPT !.node[c].part = IF dst = "detached" THEN "free" ELSE dst]

(* Eviction into another partition, and the mapping of a free line: the line moves
   and then starts again with one hit.                                        *)
Renew(m, c, src, dst) == AddLine(Remove1(RepartLocked(m, c, src, dst), c), c)

Image == [node |-> node, lst |-> lst, bug |-> bug]

Become(m) == node' = m.node /\ lst' = m.lst /\ bug' = m.bug

------------------------------------------------------------------------------
Init ==
    /\ node = [c \in Lines |-> FreshNode]
    /\ lst = [k \in Lists |-> EmptyList]
    /\ dirty = [c \in Lines |-> FALSE] /\ valid = dirty
    /\ size = [p \in Parts |-> 0]
    /\ apart = {} /\ raced = {}
    /\ hit = [h \in Hits |-> << >>]
    /\ todo = 0 .. NumLists - 1
    /\ bug = "none"

(* ocf_lfu_populate: the shards run in parallel; the last one to end stores the
   number of free lines.                                                      *)
Populate(s) ==
    /\ s \in todo
    /\ todo' = todo \ {s}
    /\ Become(FoldLeft(LAMBDA m, c : AddToList(m, GetList("free", c, 0, TRUE), c),
                       Image, ShardOrder(s)))
    /\ size' = IF todo' # {} THEN size ELSE [size EXCEPT !["free"] = PopulatedLines]
    /\ UNCHANGED <<dirty, valid, apart, hit, raced>>

Up == todo = {} /\ bug = "none"

(* All operations but a hit run with the line's hash bucket locked for writing (or
   on a line that no bucket leads to), so not within a hit on the line.       *)
Still(c) == Up /\ \A h \in Hits : hit[h] # << >> => hit[h].line # c

(* Mutant of Transfer: the partition that loses the line still counts it. *)
TransferIn(src, dst) == size' = [size EXCEPT ![dst] = Least(@ + 1, Entries)]

Transfer(src, dst) == size' = [size EXCEPT ![src] = @ - 1, ![dst] = @ + 1]

(* ocf_lfu_repart: after it has the lock it asserts that the line still is in the
   partition it is to leave.                                                  *)
Repart(c, src, dst) ==
    IF node[c].part # src
    THEN Become([Image EXCEPT !.bug = "reattach"]) /\ UNCHANGED size
    ELSE Become(RepartLocked(Image, c, src, dst)) /\ Transfer(src, dst)

(* ocf_user_part_move *)
ChangePart(c, dst) ==
    /\ Still(c) /\ Owned(node[c].part) /\ valid[c] /\ dst # node[c].part
    /\ Repart(c, node[c].part, dst)
    /\ UNCHANGED <<dirty, valid, apart, hit, raced, todo>>

(* lfu_iter_free_next, and lfu_iter_eviction_next or lfu_req_next_cline with a
   line of another partition.                                                 *)
Take(c, dst) ==
    /\ Still(c) /\ c \notin apart /\ ~dirty[c] /\ dst # node[c].part
    /\ Become(Renew(Image, c, node[c].part, dst))
    /\ Transfer(node[c].part, dst)
    /\ valid' = [valid EXCEPT ![c] = FALSE]
    /\ raced' = raced \ {c}
    /\ UNCHANGED <<dirty, apart, hit, todo>>

(* lfu_iter_eviction_next with a line of the request's own partition: it stays. *)
Reuse(c) ==
    /\ Still(c) /\ Owned(node[c].part) /\ ~dirty[c] /\ valid[c]
    /\ valid' = [valid EXCEPT ![c] = FALSE]
    /\ UNCHANGED <<node, lst, dirty, size, apart, hit, raced, todo, bug>>

(* lfu_req_next_cline with a line of the request's own partition: only when the
   shard has no clean line of a lower frequency; it counts as a hit.          *)
ReuseNext(c) ==
    /\ Still(c) /\ Owned(node[c].part) /\ ~dirty[c]
    /\ \A f \in 0 .. node[c].freq - 1 :
          lst[GetList(node[c].part, c, f, node[c].clean)].nodes = 0
    /\ LET hits == MoreHits(node[c].hits)
       IN  Become(AddToBucket(Remove1(Image, c), c, hits, HitsToFreq(hits),
                              node[c].clean))
    /\ valid' = [valid EXCEPT ![c] = FALSE]
    /\ raced' = raced \ {c}
    /\ UNCHANGED <<dirty, size, apart, hit, todo>>

(* set_cache_line_valid *)
SetValid(c) ==
    /\ Still(c) /\ Owned(node[c].part) /\ ~valid[c]
    /\ valid' = [valid EXCEPT ![c] = TRUE]
    /\ UNCHANGED <<node, lst, dirty, size, apart, hit, raced, todo, bug>>

(* __set_cache_line_invalid, ocf_lfu_rm_cline: the line goes back to the freelist,
   unless another request waits for it; then it stays where it is.            *)
Invalidate(c, waiters) ==
    /\ Still(c) /\ Owned(node[c].part) /\ ~dirty[c]
    /\ valid' = [valid EXCEPT ![c] = FALSE]
    /\ IF waiters THEN UNCHANGED <<node, lst, size, bug>>
                  ELSE Repart(c, node[c].part, "free")
    /\ UNCHANGED <<dirty, apart, hit, raced, todo>>

(* ocf_lfu_dirty_cline and ocf_lfu_clean_cline *)
SetDirty(c, on) ==
    /\ Still(c) /\ Owned(node[c].part) /\ valid[c] /\ dirty[c] # on
    /\ dirty' = [dirty EXCEPT ![c] = on]
    /\ Become(AddToBucket(Remove1(Image, c), c, node[c].hits, node[c].freq, ~on))
    /\ UNCHANGED <<valid, size, apart, hit, raced, todo>>

(* ocf_lfu_detach from __detach_cache_line, and ocf_lfu_reattach. *)
Detach(c) ==
    /\ Still(c) /\ c \notin apart /\ ~dirty[c]
    /\ Repart(c, node[c].part, "detached")
    /\ apart' = apart \cup {c}
    /\ valid' = [valid EXCEPT ![c] = FALSE]
    /\ UNCHANGED <<dirty, hit, raced, todo>>

Reattach(c) ==
    /\ Still(c) /\ c \in apart
    /\ Repart(c, "detached", "free")
    /\ apart' = apart \ {c}
    /\ UNCHANGED <<dirty, valid, hit, raced, todo>>

(* ocf_lfu_increment up to the write or the lock. *)
HitRead(h, c) ==
    /\ Up /\ hit[h] = << >>
    /\ Owned(node[c].part) /\ valid[c]
    /\ hit' = [hit EXCEPT ![h] = [line |-> c, hits |-> MoreHits(node[c].hits),
                                  freq |-> node[c].freq]]
    /\ UNCHANGED <<node, lst, dirty, valid, size, apart, raced, todo, bug>>

Overlaps(h, c) == \E g \in Hits \ {h} : hit[g] # << >> /\ hit[g].line = c

(* ocf_lfu_increment, the rest. *)
HitCount(h) ==
    /\ Up /\ hit[h] # << >>
    /\ LET c == hit[h].line  freq == HitsToFreq(hit[h].hits) IN
       /\ Become(IF freq = hit[h].freq
                 THEN [Image EXCEPT !.node[c].hits = hit[h].hits]
                 ELSE AddToBucket(Remove1(Image, c), c, hit[h].hits, freq,
                                  node[c].clean))
       /\ raced' = IF Overlaps(h, c) THEN raced \cup {c} ELSE raced
    /\ hit' = [hit EXCEPT ![h] = << >>]
    /\ UNCHANGED <<dirty, valid, size, apart, todo>>

------------------------------------------------------------------------------
(* Loading a cache. *)

(* ocf_lfu_restore_cline: after a clean shutdown the heads and the counters of the
   lists are put together from the links of the lines; the frequency of a valid
   line is computed anew from its hit count.                                  *)
RestoreCline(r, c) ==
    LET n == node[c]
        p == IF valid[c] THEN n.part ELSE "free"
        freq == IF valid[c] THEN HitsToFreq(n.hits) ELSE n.freq
        k == GetList(p, c, freq, ~dirty[c])
        l == r.lst[k]
        bad == \/ valid[c] /\ ~Owned(p)
               \/ n.prev # End /\ node[n.prev].next # c
               \/ n.next # End /\ node[n.next].prev # c
               \/ n.prev = End /\ l.head # End
               \/ n.next = End /\ l.tail # End
    IN  IF ~r.ok \/ bad THEN [r EXCEPT !.ok = FALSE]
        ELSE [r EXCEPT
            !.node[c].freq = freq,
            !.size[p] = @ + 1,
            !.lst[k] = [nodes |-> @.nodes + 1,
                        head |-> IF n.prev = End THEN c ELSE @.head,
                        tail |-> IF n.next = End THEN c ELSE @.tail]]

(* ocf_lfu_restore_runtime *)
Restored ==
    FoldLeft(RestoreCline,
             [node |-> node, lst |-> [k \in Lists |-> EmptyList],
              size |-> [p \in Parts |-> 0], ok |-> TRUE],
             AllInOrder)

(* The shutdowns that can be restored.  A line invalidated under a waiting request
   and a line of a detached subvolume look free and are linked elsewhere; a line
   whose overlapping hits left a count of another frequency is looked for in the
   wrong list.  With one of them the load fails or brings up broken lists, and is
   not followed further.                                                      *)
Restorable ==
    /\ apart = {} /\ raced = {}
    /\ \A c \in Lines : Owned(node[c].part) => valid[c]

(* A load after a clean shutdown: no request is in flight. *)
LoadClean ==
    /\ Up /\ \A h \in Hits : hit[h] = << >>
    /\ Restorable
    /\ IF Restored.ok
       THEN node' = Restored.node /\ lst' = Restored.lst /\ size' = Restored.size
       ELSE lst' = [k \in Lists |-> EmptyList] /\ UNCHANGED <<node, size>>
    /\ UNCHANGED <<dirty, valid, apart, hit, raced, todo, bug>>

(* One line of ocf_mngt_rebuild_metadata_handle: only dirty lines survive a crash;
   they go to the default partition, the others to the freelist (add_free is
   ocf_lfu_add for this policy).                                              *)
RebuildCline(m, c) ==
    AddLine([m EXCEPT !.node[c] =
                [FreshNode EXCEPT !.part = IF dirty[c] THEN Default ELSE "free"]], c)

Recover ==
    /\ Up
    /\ Become(FoldLeft(RebuildCline,
                       [node |-> node, lst |-> [k \in Lists |-> EmptyList],
                        bug |-> "none"],
                       AllInOrder))
    /\ valid' = dirty
    /\ LET kept == Cardinality({c \in Lines : dirty[c]})
       IN  size' = [p \in Parts |-> CASE p = Default -> kept
                                      [] p = "free" -> Entries - kept
                                      [] OTHER -> 0]
    /\ apart' = {} /\ raced' = {}
    /\ hit' = [h \in Hits |-> << >>]
    /\ UNCHANGED <<dirty, todo>>

Next ==
    \/ \E s \in 0 .. NumLists - 1 : Populate(s)
    \/ \E c \in Lines :
          \/ \E dst \in UserParts : ChangePart(c, dst) \/ Take(c, dst)
          \/ Reuse(c)
          \/ ReuseNext(c)
          \/ SetValid(c)
          \/ \E waiters \in BOOLEAN : Invalidate(c, waiters)
          \/ \E on \in BOOLEAN : SetDirty(c, on)
          \/ Detach(c)
          \/ Reattach(c)
          \/ \E h \in Hits : HitRead(h, c)
    \/ \E h \in Hits : HitCount(h)
    \/ LoadClean
    \/ Recover

Spec == Init /\ [][Next]_vars

------------------------------------------------------------------------------
(* Properties. *)

(* The lines of a list from its head, following the next pointers; no longer than
   the number of lines, so that a cycle shows as a wrong length.              *)
Walk(k) ==
    LET from[i \in 0 .. Entries] ==
            IF i = 0 THEN << >>
            ELSE LET w == from[i - 1]
                     c == IF w = << >> THEN lst[k].head ELSE node[Last(w)].next
                 IN  IF c = End THEN w ELSE Append(w, c)
    IN  from[Entries]

Resides(c) == IF c \in apart THEN "detached" ELSE node[c].part

(* Frequencies, counts and links stay in their ranges, and no assertion of the list
   code fires but the one in ocf_lfu_repart on the way back from "detached".  *)
TypeOK ==
    /\ \A c \in Lines : /\ node[c].prev \in 0 .. End /\ node[c].next \in 0 .. End
                         /\ node[c].freq \in Freqs /\ node[c].hits \in 0 .. MaxHits
    /\ \A p \in Parts : size[p] \in 0 .. Entries
    /\ bug \in {"none", "reattach"}

(* Every line is on exactly one list, the one of its partition, shard, frequency
   and status; length, tail and back links agree with the walk from the head; the
   size of a partition counts its lines.  Unlocked counting of hits, even of two
   at once on one line, does not disturb the lists.                           *)
ListsSound ==
    Up =>
    /\ \A k \in Lists : LET w == Walk(k) IN
          /\ lst[k].nodes = Len(w)
          /\ lst[k].tail = IF w = << >> THEN End ELSE Last(w)
          /\ \A i \in 1 .. Len(w) :
                /\ k = GetList(Resides(w[i]), w[i], node[w[i]].freq, ~dirty[w[i]])
                /\ node[w[i]].prev = IF i = 1 THEN End ELSE w[i - 1]
    /\ \A c \in Lines : \E k \in Lists : c \in ToSet(Walk(k))
    /\ \A p \in Parts : size[p] = Cardinality({c \in Lines : Resides(c) = p})

(* A mapped line sits in the bucket of its hit count, unless two hits overlapped on
   it: the slower one then writes a count that belongs to another bucket.     *)
BucketTrue ==
    \A c \in Lines : Owned(node[c].part) /\ c \notin raced =>
        node[c].freq = HitsToFreq(node[c].hits)

(* A clean shutdown at a quiet moment can be loaded: the restore accepts the links
   and yields the very lists, frequencies and sizes the cache had.            *)
RestoreExact ==
    Up /\ Restorable =>
        Restored = [node |-> node, lst |-> lst, size |-> size, ok |-> TRUE]

(* What the assertions of the list code claim: none of them ever fires.       *)
NeverPanics == bug = "none"

\* The lists of ocf_lfu.c as a whole: every line on its list, links that agree, in
\* the bucket of its hits, and all of it back after a restore.
LfuSound == TypeOK /\ ListsSound /\ BucketTrue /\ RestoreExact
==============================================================================
