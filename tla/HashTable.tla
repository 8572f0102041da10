------------------------------ MODULE HashTable ------------------------------
(* The hash table of the cache and its locks
   (src/src/concurrency/ocf_metadata_concurrency.c and
   src/src/metadata/metadata_collision.c).

   Every core line hashes to a bucket; the bucket's word holds the first cache
   line of a doubly linked chain and, in the same word, the bucket's lock: a few
   bits count readers, one bit says writer.  Above the bucket locks there are a
   few global semaphores: a request takes one of them for reading before it
   touches a bucket, management takes all of them for writing.

   A request locks the buckets of all its core lines in ascending order, each
   once, though the hashes of consecutive core lines wrap around the table; it
   looks its lines up, and if one is missing it gives every bucket up, takes them
   all again for writing, looks up again and maps what is still missing: onto a
   free cache line, or onto a victim whose bucket is only tried for.

   One action is one atomic operation on a bucket's word, one semaphore call, or
   work on chains whose buckets the request has locked.                       *)
EXTENDS Integers, Sequences, FiniteSets

CONSTANTS
    NumHash,       \* num_hash_entries
    Entries,       \* collision_table_entries
    NumCore,       \* core lines of the one core
    Warm,          \* the core lines that are cached at first, by cache line
    MaxRd,         \* the largest value of ocf_hash_entry.rd
    NumGlobal,     \* OCF_NUM_GLOBAL_META_LOCKS
    Reqs,          \* requests
    LockIdx,       \* req->lock_idx
    Ranges,        \* <<first, count>>: what a request may cover
    Managers,      \* threads that take exclusive access
    MaxCalls       \* bound of the model: calls of one thread

VARIABLES
    global,        \* metadata_lock->global[]: readers and writer
    bucket,        \* struct ocf_hash_entry: [line, rd, wr]
    info,          \* struct ocf_metadata_list_info: [next, prev]
    map,           \* core line of every cache line, or None
    thr,           \* what every thread is doing
    calls          \* calls each thread has begun

vars == <<global, bucket, info, map, thr, calls>>

None == -1
Nobody == "nobody"
Hashes == 0 .. NumHash - 1
Lines == 0 .. Entries - 1
End == Entries                          \* the end of a chain
CoreLines == 0 .. NumCore - 1
Threads == Reqs \cup Managers

Least(a, b) == IF a < b THEN a ELSE b

(* ocf_metadata_hash_func, for core 0 *)
Hash(x) == x % NumHash

(* What a thread is doing: op and pc, the request's range, the hash or the
   semaphore it has come to, the core lines still to be mapped (or the cache lines
   to be removed), the lines it has mapped, the victim; rd and wr are ghosts, the buckets it has locked. *)
Idle == [op |-> "none", pc |-> "idle", first |-> 0, count |-> 1, hash |-> 0,
         todo |-> {}, mapped |-> {}, victim |-> None, rd |-> {}, wr |-> {}]

Range(t) == thr[t].first .. thr[t].first + thr[t].count - 1

-----------------------------------------------------------------------------
(* for_each_req_hash_asc and its macros *)

(* map[0].hash and map[core_line_count - 1].hash *)
FirstHash(t) == Hash(thr[t].first)
LastHash(t) == Hash(thr[t].first + thr[t].count - 1)

IsMonotonic(t) == FirstHash(t) + thr[t].count <= NumHash
MinHash(t) == IF IsMonotonic(t) THEN FirstHash(t) ELSE 0
MaxHash(t) == IF IsMonotonic(t) THEN LastHash(t) ELSE NumHash - 1
HashCount(t) == Least(thr[t].count, NumHash)
GapVal(t) == MaxHash(t) - MinHash(t) + 1 - HashCount(t)
GapStart(t) == LastHash(t)

(* Mutant of HashNext: the gap is not skipped. *)
HashNextPlain(t, h) == h + 1
HashNext(t, h) ==
    h + 1 + IF GapVal(t) > 0 /\ h = GapStart(t) THEN GapVal(t) ELSE 0

(* Mutant of InRange: the gap is forgotten. *)
InRangeNoGap(t, x) == Hash(x) \in MinHash(t) .. MaxHash(t)
(* ocf_req_hash_in_range *)
InRange(t, x) ==
    IF GapVal(t) > 0
    THEN \/ Hash(x) \in MinHash(t) .. GapStart(t)
         \/ Hash(x) \in GapStart(t) + GapVal(t) + 1 .. MaxHash(t)
    ELSE Hash(x) \in MinHash(t) .. MaxHash(t)

-----------------------------------------------------------------------------
(* The word of a bucket *)

(* hash_lock_lock with rw = OCF_METADATA_RD: the incremented count must fit. *)
MayRead(h) == ~bucket[h].wr /\ bucket[h].rd < MaxRd

(* hash_lock_lock with rw = OCF_METADATA_WR *)
MayWrite(h) == ~bucket[h].wr /\ bucket[h].rd = 0

(* hash_lock_unlock: what the word says decides, not the mode of the caller. *)
Unlocked(b) ==
    IF b.wr THEN [b EXCEPT !.wr = FALSE]
    ELSE [b EXCEPT !.rd = (@ - 1) % (MaxRd + 1)]

-----------------------------------------------------------------------------
(* The chains *)

(* The lines that a walk from the bucket's first line visits. *)
Chain(h) ==
    LET walk[k \in 0 .. Entries] ==
            IF k = 0 THEN bucket[h].line
            ELSE LET l == walk[k - 1] IN IF l = End THEN End ELSE info[l].next
    IN  {walk[k] : k \in 0 .. Entries} \ {End}

(* ocf_engine_lookup_map_entry: the line found on the chain of the core line. *)
Found(x) == {l \in Chain(Hash(x)) : map[l] = x}
Missing(t) == {x \in Range(t) : Found(x) = {}}

(* ocf_metadata_add_to_collision *)
AddToCollision(bkt, inf, l, x) ==
    LET head == bkt[Hash(x)].line
        own == [inf EXCEPT ![l] = [next |-> head, prev |-> End]]
    IN  [b |-> [bkt EXCEPT ![Hash(x)].line = l],
         i |-> IF head = End THEN own ELSE [own EXCEPT ![head].prev = l]]

(* ocf_metadata_remove_from_collision *)
RemoveFromCollision(l) ==
    LET next == info[l].next
        prev == info[l].prev
        h == Hash(map[l])
        back == IF prev = End THEN info ELSE [info EXCEPT ![prev].next = next]
        forth == IF next = End THEN back ELSE [back EXCEPT ![next].prev = prev]
    IN  [b |-> IF bucket[h].line = l THEN [bucket EXCEPT ![h].line = next] ELSE bucket,
         i |-> [forth EXCEPT ![l] = [next |-> End, prev |-> End]]]

-----------------------------------------------------------------------------
Init ==
    /\ global = [i \in 0 .. NumGlobal - 1 |-> [rd |-> {}, wr |-> Nobody]]
    /\ LET empty == [b |-> [h \in Hashes |-> [line |-> End, rd |-> 0, wr |-> FALSE]],
                     i |-> [l \in Lines |-> [next |-> End, prev |-> End]]]
           built[n \in 0 .. Len(Warm)] ==
               IF n = 0 THEN empty
               ELSE LET old == built[n - 1]
                    IN  AddToCollision(old.b, old.i, n - 1, Warm[n])
       IN  bucket = built[Len(Warm)].b /\ info = built[Len(Warm)].i
    /\ map = [l \in Lines |-> IF l < Len(Warm) THEN Warm[l + 1] ELSE None]
    /\ thr = [t \in Threads |-> Idle]
    /\ calls = [t \in Threads |-> 0]

(* A request arrives: it maps what it misses (ocf_engine_prepare_clines), or it
   invalidates what it finds (engine_inv.c and its like, under the write lock). *)
Start(t) ==
    /\ thr[t].pc = "idle" /\ calls[t] < MaxCalls
    /\ calls' = [calls EXCEPT ![t] = @ + 1]
    /\ \E o \in {"map", "purge"}, r \in Ranges :
          thr' = [thr EXCEPT ![t] = [Idle EXCEPT !.op = o, !.pc = "shared",
                                     !.first = r[1], !.count = r[2]]]
    /\ UNCHANGED <<global, bucket, info, map>>

(* ocf_metadata_start_shared_access, first thing in ocf_hb_req_prot_lock_rd and
   ocf_hb_req_prot_lock_wr. *)
StartShared(t) ==
    /\ thr[t].pc = "shared"
    /\ global[LockIdx[t]].wr = Nobody
    /\ global' = [global EXCEPT ![LockIdx[t]].rd = @ \cup {t}]
    /\ thr' = [thr EXCEPT ![t].hash = MinHash(t),
                          ![t].pc = IF thr[t].op = "map" THEN "rdlock" ELSE "wrlock"]
    /\ UNCHANGED <<bucket, info, map, calls>>

(* The next bucket of the loop, or what follows the loop. *)
Advance(t, same, after) ==
    LET next == HashNext(t, thr[t].hash)
    IN  IF next <= MaxHash(t)
        THEN [thr[t] EXCEPT !.hash = next, !.pc = same]
        ELSE [thr[t] EXCEPT !.hash = MinHash(t), !.pc = after]

(* The loop of ocf_hb_req_prot_lock_rd. *)
LockRd(t) ==
    LET h == thr[t].hash IN
    /\ thr[t].pc = "rdlock"
    /\ MayRead(h)
    /\ bucket' = [bucket EXCEPT ![h].rd = @ + 1]
    /\ thr' = [thr EXCEPT ![t] = [Advance(t, "rdlock", "lookup") EXCEPT !.rd = @ \cup {h}]]
    /\ UNCHANGED <<global, info, map, calls>>

(* ocf_engine_lookup under the read locks: all mapped, not to be promoted, or on
   to ocf_hb_req_prot_lock_upgrade. *)
Lookup(t) ==
    /\ thr[t].pc = "lookup"
    /\ \/ thr' = [thr EXCEPT ![t].pc = "rdunlock"]
       \/ Missing(t) # {} /\ thr' = [thr EXCEPT ![t].pc = "upgrade", ![t].todo = Missing(t)]
    /\ UNCHANGED <<global, bucket, info, map, calls>>

(* The loops of ocf_hb_req_prot_unlock_rd and of the first half of
   ocf_hb_req_prot_lock_upgrade. *)
UnlockRd(t) ==
    LET h == thr[t].hash
        after == IF thr[t].pc = "upgrade" THEN "wrlock" ELSE "endshared"
    IN  /\ thr[t].pc \in {"rdunlock", "upgrade"}
        /\ bucket' = [bucket EXCEPT ![h] = Unlocked(@)]
        /\ thr' = [thr EXCEPT ![t] = [Advance(t, thr[t].pc, after) EXCEPT !.rd = @ \ {h}]]
        /\ UNCHANGED <<global, info, map, calls>>

(* The loops of ocf_hb_req_prot_lock_wr and of the second half of the upgrade. *)
LockWr(t) ==
    LET h == thr[t].hash IN
    /\ thr[t].pc = "wrlock"
    /\ MayWrite(h)
    /\ bucket' = [bucket EXCEPT ![h].wr = TRUE]
    /\ thr' = [thr EXCEPT ![t] = [Advance(t, "wrlock", "again") EXCEPT !.wr = @ \cup {h}]]
    /\ UNCHANGED <<global, info, map, calls>>

(* Mutant of LookupAgain: what was missing under the read locks is mapped. *)
LookupOnce(t) ==
    /\ thr[t].pc = "again"
    /\ thr' = [thr EXCEPT ![t].pc = "work",
                          ![t].todo = IF thr[t].op = "map" THEN @
                                      ELSE UNION {Found(x) : x \in Range(t)}]
    /\ UNCHANGED <<global, bucket, info, map, calls>>

(* "Repeat lookup after upgrading lock"; a purge looks up for the first time. *)
LookupAgain(t) ==
    /\ thr[t].pc = "again"
    /\ thr' = [thr EXCEPT ![t].pc = "work",
                          ![t].todo = IF thr[t].op = "map" THEN Missing(t)
                                      ELSE UNION {Found(x) : x \in Range(t)}]
    /\ UNCHANGED <<global, bucket, info, map, calls>>

Free == {l \in Lines : map[l] = None}

(* lru_iter_free_next and ocf_map_cache_line: a free line for a missing core line. *)
MapFree(t) ==
    /\ thr[t].pc = "work" /\ thr[t].op = "map" /\ thr[t].victim = None
    /\ \E x \in thr[t].todo, l \in Free :
          LET new == AddToCollision(bucket, info, l, x)
          IN  /\ bucket' = new.b /\ info' = new.i
              /\ map' = [map EXCEPT ![l] = x]
              /\ thr' = [thr EXCEPT ![t].todo = @ \ {x}, ![t].mapped = @ \cup {l}]
    /\ UNCHANGED <<global, calls>>

(* _lru_iter_eviction_lock: not a line of the request itself; the bucket of the
   victim is the request's own already, or it is tried for. *)
TakeVictim(t) ==
    /\ thr[t].pc = "work" /\ thr[t].op = "map" /\ thr[t].todo # {}
    /\ thr[t].victim = None
    /\ \E l \in Lines \ Free :
          LET h == Hash(map[l])
              own == InRange(t, map[l])
          IN  /\ map[l] \notin Range(t)
              /\ \A u \in Threads : thr[u].victim # l
              /\ own \/ MayWrite(h)
              /\ bucket' = IF own THEN bucket ELSE [bucket EXCEPT ![h].wr = TRUE]
              /\ thr' = [thr EXCEPT ![t].victim = l,
                                    ![t].wr = IF own THEN @ ELSE @ \cup {h}]
    /\ UNCHANGED <<global, info, map, calls>>

(* ocf_lru_req_clines: the victim leaves its chain and its bucket is unlocked
   (_lru_unlock_hash), then it is mapped for the request. *)
Remap(t) ==
    LET l == thr[t].victim
        off == RemoveFromCollision(l)
        h == Hash(map[l])
        own == InRange(t, map[l])
        bkt == IF own THEN off.b ELSE [off.b EXCEPT ![h] = Unlocked(@)]
    IN  /\ l # None
        /\ \E x \in thr[t].todo :
              LET new == AddToCollision(bkt, off.i, l, x)
              IN  /\ bucket' = new.b /\ info' = new.i
                  /\ map' = [map EXCEPT ![l] = x]
                  /\ thr' = [thr EXCEPT ![t].todo = @ \ {x}, ![t].victim = None,
                                        ![t].mapped = @ \cup {l},
                                        ![t].wr = IF own THEN @ ELSE @ \ {h}]
        /\ UNCHANGED <<global, calls>>

(* ocf_metadata_remove_cache_line for one line the purge has found, or a mapping
   error takes back. *)
Purge(t) ==
    /\ thr[t].pc = "work" /\ thr[t].op = "purge"
    /\ \E l \in thr[t].todo :
          LET off == RemoveFromCollision(l)
          IN  /\ bucket' = off.b /\ info' = off.i
              /\ map' = [map EXCEPT ![l] = None]
              /\ thr' = [thr EXCEPT ![t].todo = @ \ {l}]
    /\ UNCHANGED <<global, calls>>

(* ocf_engine_remap got too few lines (a partition is full, or every candidate is
   dirty or locked): ocf_engine_map_hndl_error takes back what was mapped. *)
MapFails(t) ==
    /\ thr[t].pc = "work" /\ thr[t].op = "map"
    /\ thr[t].todo # {} /\ thr[t].victim = None
    /\ thr' = [thr EXCEPT ![t].op = "purge", ![t].todo = thr[t].mapped]
    /\ UNCHANGED <<global, bucket, info, map, calls>>

(* On to ocf_hb_req_prot_unlock_wr. *)
WorkDone(t) ==
    /\ thr[t].pc = "work" /\ thr[t].todo = {}
    /\ thr' = [thr EXCEPT ![t].pc = "wrunlock"]
    /\ UNCHANGED <<global, bucket, info, map, calls>>

(* The loop of ocf_hb_req_prot_unlock_wr. *)
UnlockWr(t) ==
    LET h == thr[t].hash IN
    /\ thr[t].pc = "wrunlock"
    /\ bucket' = [bucket EXCEPT ![h] = Unlocked(@)]
    /\ thr' = [thr EXCEPT ![t] = [Advance(t, "wrunlock", "endshared") EXCEPT !.wr = @ \ {h}]]
    /\ UNCHANGED <<global, info, map, calls>>

(* ocf_metadata_end_shared_access *)
EndShared(t) ==
    /\ thr[t].pc = "endshared"
    /\ global' = [global EXCEPT ![LockIdx[t]].rd = @ \ {t}]
    /\ thr' = [thr EXCEPT ![t] = Idle]
    /\ UNCHANGED <<bucket, info, map, calls>>

-----------------------------------------------------------------------------
(* Management: exclusive access *)

StartManager(m) ==
    /\ thr[m].pc = "idle" /\ calls[m] < MaxCalls
    /\ calls' = [calls EXCEPT ![m] = @ + 1]
    /\ \E o \in {"exclusive", "try"} :
          thr' = [thr EXCEPT ![m] = [Idle EXCEPT !.op = o, !.pc = "acquire"]]
    /\ UNCHANGED <<global, bucket, info, map>>

(* env_rwsem_down_write: neither readers nor a writer. *)
Available(i) == global[i].wr = Nobody /\ global[i].rd = {}

(* One turn of the loop of ocf_metadata_start_exclusive_access or of
   ocf_metadata_try_start_exclusive_access. *)
Acquire(m) ==
    LET i == thr[m].hash IN
    /\ thr[m].pc = "acquire" /\ Available(i)
    /\ global' = [global EXCEPT ![i].wr = m]
    /\ thr' = [thr EXCEPT ![m].hash = i + 1,
                          ![m].pc = IF i + 1 = NumGlobal THEN "inside" ELSE "acquire"]
    /\ UNCHANGED <<bucket, info, map, calls>>

(* Mutant of TryFails: what was taken is kept. *)
TryFailsKeeps(m) ==
    /\ thr[m].pc = "acquire" /\ thr[m].op = "try" /\ ~Available(thr[m].hash)
    /\ thr' = [thr EXCEPT ![m] = Idle]
    /\ UNCHANGED <<global, bucket, info, map, calls>>

(* A trylock fails: the ones taken so far are given back in reverse. *)
TryFails(m) ==
    /\ thr[m].pc = "acquire" /\ thr[m].op = "try" /\ ~Available(thr[m].hash)
    /\ thr' = [thr EXCEPT ![m] = IF thr[m].hash = 0 THEN Idle
                                 ELSE [@ EXCEPT !.pc = "release"]]
    /\ UNCHANGED <<global, bucket, info, map, calls>>

(* The work under exclusive access is over. *)
Leave(m) ==
    /\ thr[m].pc = "inside"
    /\ thr' = [thr EXCEPT ![m].pc = "release"]
    /\ UNCHANGED <<global, bucket, info, map, calls>>

(* One turn of the loop of ocf_metadata_end_exclusive_access. *)
Release(m) ==
    LET i == thr[m].hash - 1 IN
    /\ thr[m].pc = "release"
    /\ global' = [global EXCEPT ![i].wr = Nobody]
    /\ thr' = [thr EXCEPT ![m] = IF i = 0 THEN Idle ELSE [@ EXCEPT !.hash = i]]
    /\ UNCHANGED <<bucket, info, map, calls>>

-----------------------------------------------------------------------------
ReqStep(t) ==
    \/ StartShared(t) \/ LockRd(t) \/ Lookup(t) \/ UnlockRd(t)
    \/ LockWr(t) \/ LookupAgain(t) \/ MapFree(t) \/ TakeVictim(t) \/ Remap(t)
    \/ Purge(t) \/ MapFails(t) \/ WorkDone(t) \/ UnlockWr(t) \/ EndShared(t)

ManagerStep(m) == Acquire(m) \/ TryFails(m) \/ Leave(m) \/ Release(m)

Next ==
    \/ \E t \in Reqs : Start(t) \/ ReqStep(t)
    \/ \E m \in Managers : StartManager(m) \/ ManagerStep(m)

(* A thread that can go on does; nobody is made to start.  The calls of a run are
   bounded, so a waiter's turn comes once the others have left. *)
Fairness ==
    /\ \A t \in Reqs : WF_vars(ReqStep(t))
    /\ \A m \in Managers : WF_vars(ManagerStep(m))

Spec == Init /\ [][Next]_vars /\ Fairness

-----------------------------------------------------------------------------
\* The variables have their types: a reader count fits its bits, a chain's links
\* are lines or the end marker, a cursor is a hash of the table.
TypeOK ==
    /\ global \in [0 .. NumGlobal - 1 ->
                    [rd : SUBSET Reqs, wr : Managers \cup {Nobody}]]
    /\ bucket \in [Hashes -> [line : Lines \cup {End}, rd : 0 .. MaxRd, wr : BOOLEAN]]
    /\ info \in [Lines -> [next : Lines \cup {End}, prev : Lines \cup {End}]]
    /\ map \in [Lines -> CoreLines \cup {None}]
    /\ calls \in [Threads -> 0 .. MaxCalls]
    /\ \A t \in Reqs :
          /\ thr[t].hash \in Hashes
          /\ thr[t].victim \in Lines \cup {None}
          /\ thr[t].rd \subseteq Hashes /\ thr[t].wr \subseteq Hashes

\* hash_lock_lock, hash_lock_unlock: the word of a bucket says exactly who has it
\* locked, a writer alone or some readers; so the loops of a request visit every
\* bucket once, and its unlock finds the mode it locked with.
LocksExact ==
    \A h \in Hashes :
        LET readers == {t \in Reqs : h \in thr[t].rd}
            writers == {t \in Reqs : h \in thr[t].wr}
        IN  /\ bucket[h].rd = Cardinality(readers)
            /\ Cardinality(writers) = IF bucket[h].wr THEN 1 ELSE 0
            /\ readers = {} \/ writers = {}

\* ocf_hb_req_prot_lock_*: while a request looks up or works, it has locked the
\* bucket of every core line it covers, and a victim's bucket as well; when it
\* is through, it has locked nothing.
RequestCovered ==
    \A t \in Reqs :
        /\ thr[t].pc = "lookup" => {Hash(x) : x \in Range(t)} = thr[t].rd
        /\ thr[t].pc \in {"again", "work"} => {Hash(x) : x \in Range(t)} \subseteq thr[t].wr
        /\ thr[t].victim # None => Hash(map[thr[t].victim]) \in thr[t].wr
        /\ thr[t].pc \in {"idle", "shared", "endshared"} => thr[t].rd \cup thr[t].wr = {}

\* metadata_collision.c: the chain of a bucket holds exactly the cache lines whose
\* core line hashes to it, and its links agree in both directions.
ChainsSound ==
    /\ \A h \in Hashes : Chain(h) = {l \in Lines : map[l] # None /\ Hash(map[l]) = h}
    /\ \A h \in Hashes : bucket[h].line # End => info[bucket[h].line].prev = End
    /\ \A l \in Lines : info[l].next # End => info[info[l].next].prev = l

\* ocf_engine_prepare_clines: however requests overlap, no core line is mapped by
\* two cache lines.
MappedOnce == \A k, l \in Lines : map[k] # None /\ map[k] = map[l] => k = l

\* ocf_metadata_start_exclusive_access: while management is inside, no bucket is
\* locked, and nobody else is inside.
ExclusiveAlone ==
    \A m \in Managers : thr[m].pc = "inside" =>
        /\ \A h \in Hashes : bucket[h].rd = 0 /\ ~bucket[h].wr
        /\ \A n \in Managers \ {m} : thr[n].pc # "inside"

\* A chain changes only while its bucket is locked for writing, so a reader's
\* bucket stands still under its lookup.
ChainsStandStep ==
    \A h \in Hashes :
        Chain(h)' # Chain(h) => bucket[h].wr /\ \A t \in Reqs : h \notin thr[t].rd
ChainsStand == [][ChainsStandStep]_vars

\* "lock entire request in deadlock-free manner": every call that was begun ends,
\* requests, exclusive and tried access alike.
CallsEnd == []<>(\A t \in Threads : thr[t].pc = "idle")

\* The locks of ocf_metadata_concurrency.c as a whole: bucket words exact, working
\* requests covered, exclusive access exclusive.
BucketsExact == TypeOK /\ LocksExact /\ RequestCovered /\ ExclusiveAlone

\* The collision table as a whole: sound chains without a doubly mapped core line.
TableSound == ChainsSound /\ MappedOnce
==============================================================================
