--------------------------------- MODULE Nhit ---------------------------------
(* The promotion policy nhit (src/src/promotion): a core line is let into the cache
   only after it has been asked for a number of times.  Core lines are tracked in
   a ring of slots, chained by hash (nhit_hash.c): a new one overwrites the oldest
   slot, which leaves its own chain for that.

   An insertion takes the slot under the pointer's spinlock, locks the bucket of
   the new line and the bucket of the slot's old one, moves the slot from chain to
   chain, and marks the slot valid again.  A query or a purge holds the read lock
   of its bucket over one atomic access to a counter, which is one step here.  All
   of it runs under shared access to the metadata; the policy is switched and its
   parameter set under exclusive access.                                      *)
EXTENDS Integers, Sequences, FiniteSets, FiniteSetsExt

CONSTANTS
    CoreLines,     \* core lines (of one core or of several)
    Hash,          \* hash_function: the bucket of every core line
    NumHash,       \* hash_entries
    RbEntries,     \* rb_entries
    Threads,       \* queues that process requests
    Requests,      \* the requests: sequences of core lines
    Warm,          \* the core lines that are tracked at first
    MaxThreshold,  \* the insertion threshold is 2 .. MaxThreshold
    MaxCalls,      \* bound of the model: requests of every thread
    MaxChanges     \* bound of the model: calls of management

VARIABLES
    type,          \* policy->type
    threshold,     \* cfg->insertion_threshold
    hashMap,       \* hash_map: first slot of every bucket's chain
    lock,          \* hash_locks: who has the bucket locked for writing
    ring,          \* ring_buffer: [line, counter, prev, next, valid]
    rbPointer,     \* rb_pointer
    thr,           \* what every thread is doing
    asked,         \* ghost: times a line was asked for since it was purged, with what
                   \* the purge left in a second slot of the line
    calls, changes

vars == <<type, threshold, hashMap, lock, ring, rbPointer, thr, asked, calls, changes>>
table == <<hashMap, ring>>

NoLine == "none"                        \* OCF_CORE_ID_INVALID
Nobody == "nobody"
End == RbEntries
Slots == 0 .. RbEntries - 1
Buckets == 0 .. NumHash - 1

Idle == [pc |-> "idle", req |-> <<>>, lines |-> <<>>, yes |-> TRUE, slot |-> End, old |-> NoLine]
Line(t) == Head(thr[t].lines)

(* nhit_hash_init, and nhit_hash_deinit with the structures gone *)
EmptyRing == [s \in Slots |-> [line |-> NoLine, counter |-> 0, prev |-> 0, next |-> 0,
                               valid |-> TRUE]]
EmptyMap == [b \in Buckets |-> End]

(* The slots of a chain, in its order. *)
Chain(b) ==
    LET walk[k \in 1 .. RbEntries] ==
            IF k = 1 THEN hashMap[b]
            ELSE LET s == walk[k - 1] IN IF s = End THEN End ELSE ring[s].next
    IN  SelectSeq([k \in 1 .. RbEntries |-> walk[k]], LAMBDA s : s # End)

(* core_line_lookup: the first slot of the chain that tracks the line. *)
Lookup(x) ==
    LET c == Chain(Hash[x])
        hits == {k \in 1 .. Len(c) : ring[c[k]].line = x}
    IN  IF hits = {} THEN End ELSE c[Min(hits)]

(* A bucket that no insertion has locked may be read. *)
Readable(x) == lock[Hash[x]] = Nobody

-----------------------------------------------------------------------------
Finish(t) == [thr EXCEPT ![t] = Idle]
NextLine(t) == [thr EXCEPT ![t].lines = Tail(@), ![t].pc = "query",
                           ![t].slot = End, ![t].old = NoLine]

(* ocf_promotion_req_should_promote; with another policy, or while the cache is
   still filled below the trigger, every request is let in without being counted.
   ocf_promotion_req_purge of a discard begins here as well. *)
Start(t) ==
    /\ thr[t].pc = "idle" /\ calls[t] < MaxCalls[t]
    /\ type = "nhit"
    /\ calls' = [calls EXCEPT ![t] = @ + 1]
    /\ \E r \in Requests, p \in {"query", "purge"} :
          thr' = [thr EXCEPT ![t] = [Idle EXCEPT !.pc = p, !.req = r, !.lines = r]]
    /\ UNCHANGED <<type, threshold, table, rbPointer, lock, asked, changes>>

(* nhit_hash_query finds the line: its counter is bumped and compared with the
   threshold (core_line_should_promote). *)
QueryHit(t) ==
    LET s == Lookup(Line(t)) IN
    /\ thr[t].pc = "query" /\ thr[t].lines # <<>>
    /\ Readable(Line(t)) /\ s # End
    /\ ring' = [ring EXCEPT ![s].counter = @ + 1]
    /\ asked' = [asked EXCEPT ![Line(t)] = @ + 1]
    /\ thr' = [NextLine(t) EXCEPT ![t].yes = @ /\ threshold <= ring[s].counter + 1]
    /\ UNCHANGED <<type, threshold, hashMap, rbPointer, lock, calls, changes>>

(* nhit_hash_query does not find it: on to nhit_hash_insert. *)
QueryMiss(t) ==
    /\ thr[t].pc = "query" /\ thr[t].lines # <<>>
    /\ Readable(Line(t)) /\ Lookup(Line(t)) = End
    /\ thr' = [thr EXCEPT ![t].pc = "slot", ![t].yes = FALSE]
    /\ UNCHANGED <<type, threshold, table, rbPointer, lock, asked, calls, changes>>

(* Mutant of GetRbSlot: a slot that is being filled is taken again. *)
GetRbSlotAnyway(t) ==
    /\ thr[t].pc = "slot"
    /\ ring' = [ring EXCEPT ![rbPointer].valid = FALSE]
    /\ rbPointer' = (rbPointer + 1) % RbEntries
    /\ thr' = [thr EXCEPT ![t].pc = "lock1", ![t].slot = rbPointer,
                          ![t].old = ring[rbPointer].line]
    /\ UNCHANGED <<type, threshold, hashMap, lock, asked, calls, changes>>

(* get_rb_slot: the pointer moves on even when the slot is still being filled, and
   then the line is not inserted.  Reading the slot's line is safe, the slot being
   this thread's now. *)
GetRbSlot(t) ==
    /\ thr[t].pc = "slot"
    /\ ring' = [ring EXCEPT ![rbPointer].valid = FALSE]
    /\ rbPointer' = (rbPointer + 1) % RbEntries
    /\ thr' = IF ring[rbPointer].valid
              THEN [thr EXCEPT ![t].pc = "lock1", ![t].slot = rbPointer,
                               ![t].old = ring[rbPointer].line]
              ELSE NextLine(t)
    /\ UNCHANGED <<type, threshold, hashMap, lock, asked, calls, changes>>

(* The buckets of write_lock_hashes; an empty slot has none. *)
Needed(t) ==
    {Hash[Line(t)]} \cup IF thr[t].old = NoLine THEN {} ELSE {Hash[thr[t].old]}

(* Mutant of LockOrder: the new line's bucket first. *)
LockOrderNewFirst(t) ==
    <<Hash[Line(t)]>> \o
        IF Needed(t) = {Hash[Line(t)]} THEN <<>> ELSE <<Hash[thr[t].old]>>

(* write_lock_hashes: ascending. *)
LockOrder(t) ==
    IF Cardinality(Needed(t)) = 1 THEN <<Min(Needed(t))>>
    ELSE <<Min(Needed(t)), Max(Needed(t))>>

LockHash1(t) ==
    LET b == LockOrder(t)[1] IN
    /\ thr[t].pc = "lock1" /\ lock[b] = Nobody
    /\ lock' = [lock EXCEPT ![b] = t]
    /\ thr' = [thr EXCEPT ![t].pc = IF Len(LockOrder(t)) = 1 THEN "change" ELSE "lock2"]
    /\ UNCHANGED <<type, threshold, table, rbPointer, asked, calls, changes>>

LockHash2(t) ==
    LET b == LockOrder(t)[2] IN
    /\ thr[t].pc = "lock2" /\ lock[b] = Nobody
    /\ lock' = [lock EXCEPT ![b] = t]
    /\ thr' = [thr EXCEPT ![t].pc = "change"]
    /\ UNCHANGED <<type, threshold, table, rbPointer, asked, calls, changes>>

(* collision_remove *)
CollisionRemove(s) ==
    LET next == ring[s].next
        prev == ring[s].prev
        b == Hash[ring[s].line]
        off == [ring EXCEPT ![s].line = NoLine]
        back == IF prev = End THEN off ELSE [off EXCEPT ![prev].next = next]
    IN  IF ring[s].line = NoLine THEN [r |-> ring, m |-> hashMap]
        ELSE [r |-> IF next = End THEN back ELSE [back EXCEPT ![next].prev = prev],
              m |-> IF hashMap[b] = s THEN [hashMap EXCEPT ![b] = next] ELSE hashMap]

(* collision_insert_new *)
CollisionInsertNew(r, m, s, x) ==
    LET head == m[Hash[x]]
        own == [r EXCEPT ![s].line = x, ![s].counter = 1, ![s].next = head,
                         ![s].prev = End]
    IN  [r |-> IF head = End THEN own ELSE [own EXCEPT ![head].prev = s],
         m |-> [m EXCEPT ![Hash[x]] = s]]

(* The slot changes chains under the write locks of both. *)
Change(t) ==
    LET off == CollisionRemove(thr[t].slot)
        new == CollisionInsertNew(off.r, off.m, thr[t].slot, Line(t))
    IN  /\ thr[t].pc = "change"
        /\ ring' = new.r /\ hashMap' = new.m
        /\ asked' = [asked EXCEPT ![Line(t)] = @ + 1]
        /\ thr' = [thr EXCEPT ![t].pc = "unlock"]
        /\ UNCHANGED <<type, threshold, rbPointer, lock, calls, changes>>

(* write_unlock_hashes, by the hashes of the new line and of the old one. *)
UnlockHashes(t) ==
    /\ thr[t].pc = "unlock"
    /\ lock' = [b \in Buckets |-> IF b \in Needed(t) THEN Nobody ELSE lock[b]]
    /\ thr' = [thr EXCEPT ![t].pc = "commit"]
    /\ UNCHANGED <<type, threshold, table, rbPointer, asked, calls, changes>>

(* commit_rb_slot *)
Commit(t) ==
    /\ thr[t].pc = "commit"
    /\ ring' = [ring EXCEPT ![thr[t].slot].valid = TRUE]
    /\ thr' = NextLine(t)
    /\ UNCHANGED <<type, threshold, hashMap, rbPointer, lock, asked, calls, changes>>

(* nhit_req_should_promote: let in by its counters, or because a part of it is
   mapped already; purged once it is mapped, unless mapping fails. *)
Answer(t) ==
    /\ thr[t].pc = "query" /\ thr[t].lines = <<>>
    /\ \/ thr' = Finish(t)
       \/ /\ thr[t].yes \/ Len(thr[t].req) > 1
          /\ thr' = [thr EXCEPT ![t].pc = "purge", ![t].lines = thr[t].req]
    /\ UNCHANGED <<type, threshold, table, rbPointer, lock, asked, calls, changes>>

(* What the copies of a line that a purge does not find have counted. *)
Missed(x, s) ==
    LET others == {ring[k].counter : k \in {j \in Slots \ {s} : ring[j].line = x}}
    IN  IF others = {} THEN 0 ELSE Max(others)

(* core_line_purge: nhit_hash_set_occurences of the slot that is found. *)
PurgeLine(t) ==
    LET s == Lookup(Line(t)) IN
    /\ thr[t].pc = "purge" /\ thr[t].lines # <<>>
    /\ Readable(Line(t))
    /\ ring' = IF s = End THEN ring ELSE [ring EXCEPT ![s].counter = 0]
    /\ asked' = [asked EXCEPT ![Line(t)] = Missed(Line(t), s)]
    /\ thr' = [thr EXCEPT ![t].lines = Tail(@)]
    /\ UNCHANGED <<type, threshold, hashMap, rbPointer, lock, calls, changes>>

PurgeEnd(t) ==
    /\ thr[t].pc = "purge" /\ thr[t].lines = <<>>
    /\ thr' = Finish(t)
    /\ UNCHANGED <<type, threshold, table, rbPointer, lock, asked, calls, changes>>

-----------------------------------------------------------------------------
(* Management, under exclusive access to the metadata: no request is inside. *)
Exclusive == \A t \in Threads : thr[t].pc = "idle"

(* ocf_promotion_set_policy: the old policy is torn down first; one that fails to
   initialise falls back to "always". *)
SetPolicy ==
    /\ changes < MaxChanges /\ Exclusive
    /\ changes' = changes + 1
    /\ hashMap' = EmptyMap /\ ring' = EmptyRing /\ rbPointer' = 0
    /\ asked' = [x \in CoreLines |-> 0]
    /\ type' \in IF type = "nhit" THEN {"always"} ELSE {"nhit", "always"}
    /\ UNCHANGED <<threshold, lock, thr, calls>>

(* nhit_set_param: a threshold in range is stored, another refused. *)
SetParam ==
    /\ changes < MaxChanges /\ Exclusive
    /\ changes' = changes + 1
    /\ threshold' \in 2 .. MaxThreshold
    /\ UNCHANGED <<type, table, rbPointer, lock, thr, asked, calls>>

-----------------------------------------------------------------------------
(* The policy has tracked a few core lines, each asked for once. *)
Init ==
    /\ type = "nhit"
    /\ threshold = MaxThreshold
    /\ LET built[n \in 0 .. Len(Warm)] ==
               IF n = 0 THEN [r |-> EmptyRing, m |-> EmptyMap]
               ELSE LET old == built[n - 1]
                    IN  CollisionInsertNew(old.r, old.m, n - 1, Warm[n])
       IN  ring = built[Len(Warm)].r /\ hashMap = built[Len(Warm)].m
    /\ rbPointer = Len(Warm) % RbEntries
    /\ lock = [b \in Buckets |-> Nobody]
    /\ thr = [t \in Threads |-> Idle]
    /\ asked = [x \in CoreLines |-> IF \E n \in 1 .. Len(Warm) : Warm[n] = x THEN 1 ELSE 0]
    /\ calls = [t \in Threads |-> 0]
    /\ changes = 0

-----------------------------------------------------------------------------
Step(t) ==
    \/ QueryHit(t) \/ QueryMiss(t) \/ GetRbSlot(t) \/ LockHash1(t) \/ LockHash2(t)
    \/ Change(t) \/ UnlockHashes(t) \/ Commit(t) \/ Answer(t) \/ PurgeLine(t)
    \/ PurgeEnd(t)

Next ==
    \/ \E t \in Threads : Start(t) \/ Step(t)
    \/ SetPolicy \/ SetParam

(* A thread inside a request goes on. *)
Fairness == \A t \in Threads : WF_vars(Step(t))

Spec == Init /\ [][Next]_vars /\ Fairness

-----------------------------------------------------------------------------
\* The variables have their types.
TypeOK ==
    /\ type \in {"always", "nhit"} /\ threshold \in 2 .. MaxThreshold
    /\ hashMap \in [Buckets -> Slots \cup {End}]
    /\ rbPointer \in Slots
    /\ lock \in [Buckets -> Threads \cup {Nobody}]
    /\ \A s \in Slots : /\ ring[s].line \in CoreLines \cup {NoLine}
                        /\ ring[s].counter \in Nat
                        /\ {ring[s].prev, ring[s].next} \subseteq Slots \cup {End}
                        /\ ring[s].valid \in BOOLEAN
    /\ \A t \in Threads : thr[t].slot \in Slots \cup {End} /\ thr[t].yes \in BOOLEAN

\* nhit_hash.c: the chain of a bucket holds exactly the slots that track a line of
\* this bucket, each once, and its links agree in both directions.
ChainsSound ==
    type = "nhit" => \A b \in Buckets :
        LET c == Chain(b) IN
        /\ {c[k] : k \in 1 .. Len(c)} =
               {s \in Slots : ring[s].line # NoLine /\ Hash[ring[s].line] = b}
        /\ Cardinality({c[k] : k \in 1 .. Len(c)}) = Len(c)
        /\ \A k \in 1 .. Len(c) : ring[c[k]].prev = IF k = 1 THEN End ELSE c[k - 1]

\* "Valid field in nhit_list_elem is guarded by rb_pointer_lock to make sure we
\* won't try to use the same slot in two threads": a slot has one owner, however
\* far the pointer has gone around, and is invalid exactly while it has one.
SlotOwned ==
    \A s \in Slots :
        Cardinality({t \in Threads : thr[t].slot = s}) = IF ring[s].valid THEN 0 ELSE 1

\* ocf_promotion_set_policy: a request that is inside finds the policy and the
\* structures it began with: the slot it fills still has the line it locked for.
InsidePolicy ==
    \A t \in Threads : thr[t].pc # "idle" =>
        /\ type = "nhit"
        /\ thr[t].pc \in {"lock1", "lock2", "change"} =>
               ring[thr[t].slot].line = thr[t].old /\ ~ring[thr[t].slot].valid

\* core_line_should_promote: a counter never exceeds the times its line was asked
\* for since it was purged, so a line is let in only after that many requests.  When
\* two threads have inserted a line twice, a purge resets the slot it finds; what the
\* other one had counted before is allowed to stay.
CountersEarned ==
    \A s \in Slots : ring[s].line # NoLine => ring[s].counter <= asked[ring[s].line]

\* "in ascending bucket id order (to avoid deadlock)": a request that is inside
\* comes out.
RequestEnds == []<>(\A t \in Threads : thr[t].pc = "idle")

\* The table of nhit_hash.c as a whole: sound chains, slots moved by one thread, used
\* only while it exists, and counters that requests have earned since the line was
\* purged, or before in a second slot that the purge did not find.
RingSound == TypeOK /\ ChainsSound /\ SlotOwned /\ InsidePolicy /\ CountersEarned
==============================================================================
