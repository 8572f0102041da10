-------------------------------- MODULE Alock -------------------------------
(***************************************************************************)
(* The asynchronous reader/writer lock over cache lines                    *)
(* (utils/utils_alock.c with the callbacks of                              *)
(* concurrency/ocf_cache_line_concurrency.c; the metadata page locks of    *)
(* ocf_mio_concurrency.c and ocf_pio_concurrency.c use it the same way).   *)
(*                                                                         *)
(* A request locks the lines of its map in map order.  The fast path tries *)
(* every line and gives back what it got when one is taken; the slow path, *)
(* under the lock's mutex, takes a line or queues a waiter for it.  An     *)
(* unlock hands the line over to the waiters, and the one that gives a     *)
(* request its last line resumes it.                                       *)
(*                                                                         *)
(* One action is one atomic operation on access[] or one critical section  *)
(* of a waiter list's spinlock, with the bookkeeping of the request it     *)
(* belongs to.                                                             *)
(***************************************************************************)
EXTENDS Integers, Sequences, FiniteSets

CONSTANTS
    Reqs,       \* requests
    Entries,    \* the entries of access[] (cache lines)
    NoReq,      \* not a request
    NoEntry,    \* a line of a map that needs no lock: LOOKUP_MISS
    ListOf,     \* the waiter list an entry hashes to: _WAITERS_LIST_ITEM
    WR,         \* OCF_CACHE_LINE_ACCESS_WR, the largest value of access[]
    Calls,      \* the lock calls a request may make: a map and a direction
    CanFail     \* whether env_allocator_new may fail

ASSUME LockAssumption ==
    /\ IsFiniteSet(Reqs) /\ IsFiniteSet(Entries)
    /\ NoReq \notin Reqs /\ NoEntry \notin Entries
    /\ WR \in Nat /\ WR > 1
    /\ DOMAIN ListOf = Entries
    /\ \A c \in Calls : /\ c.map \in Seq(Entries \cup {NoEntry})
                       /\ c.rw \in {"rd", "wr"}
                       /\ \A j, k \in 1..Len(c.map) :
                            c.map[j] = c.map[k] => j = k \/ c.map[j] = NoEntry
    /\ CanFail \in BOOLEAN

VARIABLES
    access,     \* alock->access: 0 idle, 1 .. WR-1 readers, WR a writer
    waiters,    \* alock->waiters_lsts: per entry, the requests queued for it in
                \* order; index and mode of a waiter are its request's
    mutex,      \* the request inside alock->lock, or NoReq
    waiting,    \* alock->waiting
    pc,         \* where each request is in lock_rd / lock_wr / unlock
    rw,         \* req->alock_rw
    map,        \* req->map, reduced to the line each index needs
    i,          \* the loop index of the request's current loop
    locked,     \* req->alock_status: the indices marked locked
    remaining   \* req->lock_remaining

vars == <<access, waiters, mutex, waiting, pc, rw, map, i, locked, remaining>>


PCs == {"idle", "fast", "back", "mutex", "slow", "alloc", "undo", "wait",
        "held", "unlock"}

Init ==
    /\ access = [e \in Entries |-> 0]
    /\ waiters = [e \in Entries |-> <<>>]
    /\ mutex = NoReq
    /\ waiting = 0
    /\ pc = [r \in Reqs |-> "idle"]
    /\ rw = [r \in Reqs |-> "rd"]
    /\ map = [r \in Reqs |-> <<>>]
    /\ i = [r \in Reqs |-> 0]
    /\ locked = [r \in Reqs |-> {}]
    /\ remaining = [r \in Reqs |-> 0]

-----------------------------------------------------------------------------
(* The access counter of one entry and its queue *)

Line(r) == map[r][i[r]]
Queued(r, e) == \E n \in 1..Len(waiters[e]) : waiters[e][n] = r

\* ocf_alock_trylock_entry_wr and ocf_alock_trylock_entry_rd_idle: both take
\* the entry only from idle.
TryIdle(r, e) ==
    /\ access[e] = 0
    /\ access' = [access EXCEPT ![e] = IF rw[r] = "wr" THEN WR ELSE 1]

\* Mutant: a reader joins the readers although others wait for the entry.
JoinsPastWaiters(r, e) ==
    IF rw[r] = "wr" THEN access[e] = 0 ELSE access[e] # WR

\* Under the list's spinlock, a writer needs the entry idle, a reader needs it
\* without a writer and without a waiter (ocf_alock_trylock_entry_rd).
Joins(r, e) ==
    IF rw[r] = "wr" THEN access[e] = 0 ELSE access[e] # WR /\ waiters[e] = <<>>

Joined(r, e) == IF rw[r] = "wr" THEN WR ELSE access[e] + 1

\* The number of waiters at the head of the queue that want to read.
LeadingReads(e) == Cardinality({n \in 1..Len(waiters[e]) :
                                  \A m \in 1..n : rw[waiters[e][m]] = "rd"})

\* How many waiters of e an unlock in the given mode grants.  The first takes
\* the unlocker's place: a writer if the unlocker was a writer or the last
\* reader (wr2wr, rd2wr), a reader always (wr2rd, rd2rd).  After a reader, the
\* readers behind it join (add_unless WR); the first that cannot stops it.
GrantCount(e, mode) ==
    LET room == WR - (IF mode = "wr" THEN 1 ELSE access[e]) + 1
    IN IF waiters[e] = <<>> THEN 0
       ELSE IF rw[waiters[e][1]] = "wr" THEN IF mode = "wr" \/ access[e] = 1 THEN 1 ELSE 0
       ELSE IF LeadingReads(e) < room THEN LeadingReads(e) ELSE room

Granted(e, mode) == {waiters[e][n] : n \in 1..GrantCount(e, mode)}

\* access[e] after that unlock: unchanged hands when somebody took over, one
\* reader less or idle when nobody did.
Released(e, mode) ==
    LET n == GrantCount(e, mode)
        base == IF mode = "wr" THEN 1 ELSE access[e]
    IN IF n = 0 THEN base - 1
       ELSE IF rw[waiters[e][1]] = "wr" THEN WR
       ELSE base + n - 1

\* ocf_alock_unlock_one_rd / _wr for index k of request r: the hand-over, the
\* marks and counters of the granted requests, and the resumption of those
\* that now have all their lines (ocf_alock_entry_locked).  r goes on to next.
UnlockIndex(r, k, next) ==
    LET e == map[r][k]
        granted == Granted(e, rw[r])
        resumed == {q \in granted : remaining[q] = 1}
    IN /\ access' = [access EXCEPT ![e] = Released(e, rw[r])]
       /\ waiters' = [waiters EXCEPT ![e] = SubSeq(@, GrantCount(e, rw[r]) + 1, Len(@))]
       /\ locked' = [q \in Reqs |->
                       (IF q = r THEN locked[q] \ {k} ELSE locked[q])
                         \cup {j \in 1..Len(map[q]) : q \in granted /\ map[q][j] = e}]
       /\ remaining' = [q \in Reqs |-> IF q \in granted THEN remaining[q] - 1
                                       ELSE remaining[q]]
       /\ waiting' = waiting - Cardinality(resumed)
       /\ pc' = [q \in Reqs |-> IF q \in resumed THEN "held"
                                ELSE IF q = r THEN next ELSE pc[q]]

-----------------------------------------------------------------------------
(* ocf_alock_lock_rd / ocf_alock_lock_wr: the fast path *)

\* The call is over: what the request locks next is a new map in a new mode.
Forget(r) ==
    /\ pc' = [pc EXCEPT ![r] = "idle"]
    /\ map' = [map EXCEPT ![r] = <<>>]
    /\ rw' = [rw EXCEPT ![r] = "rd"]
    /\ i' = [i EXCEPT ![r] = 0]

Submit(r) ==
    /\ pc[r] = "idle"
    /\ \E c \in Calls :
         /\ map' = [map EXCEPT ![r] = c.map]
         /\ rw' = [rw EXCEPT ![r] = c.rw]
    /\ i' = [i EXCEPT ![r] = 1]
    /\ pc' = [pc EXCEPT ![r] = "fast"]
    /\ UNCHANGED <<access, waiters, mutex, waiting, locked, remaining>>

\* One iteration of ocf_cl_lock_line_fast that takes its line.
FastTake(r) ==
    /\ pc[r] = "fast" /\ i[r] <= Len(map[r])
    /\ Line(r) # NoEntry
    /\ TryIdle(r, Line(r))
    /\ locked' = [locked EXCEPT ![r] = @ \cup {i[r]}]
    /\ i' = [i EXCEPT ![r] = @ + 1]
    /\ UNCHANGED <<waiters, mutex, waiting, pc, rw, map, remaining>>

FastSkip(r) ==
    /\ pc[r] = "fast" /\ i[r] <= Len(map[r])
    /\ Line(r) = NoEntry
    /\ i' = [i EXCEPT ![r] = @ + 1]
    /\ UNCHANGED <<access, waiters, mutex, waiting, pc, rw, map, locked, remaining>>

FastTaken(r) ==
    /\ pc[r] = "fast" /\ i[r] <= Len(map[r])
    /\ Line(r) # NoEntry
    /\ access[Line(r)] # 0
    /\ pc' = [pc EXCEPT ![r] = "back"]
    /\ UNCHANGED <<access, waiters, mutex, waiting, rw, map, i, locked, remaining>>

FastDone(r) ==
    /\ pc[r] = "fast" /\ i[r] > Len(map[r])
    /\ pc' = [pc EXCEPT ![r] = "held"]
    /\ UNCHANGED <<access, waiters, mutex, waiting, rw, map, i, locked, remaining>>

\* The loop that gives back the lines already taken, last first.
FastBack(r) ==
    /\ pc[r] = "back"
    /\ \/ /\ locked[r] # {}
          /\ \E k \in locked[r] :
               /\ \A n \in locked[r] : n <= k
               /\ UnlockIndex(r, k, "back")
          /\ UNCHANGED i
       \/ /\ locked[r] = {}
          /\ i' = [i EXCEPT ![r] = 0]
          /\ pc' = [pc EXCEPT ![r] = "mutex"]
          /\ UNCHANGED <<access, waiters, waiting, locked, remaining>>
    /\ UNCHANGED <<mutex, rw, map>>

-----------------------------------------------------------------------------
(* The slow path, under alock->lock *)

SlowStart(r) ==
    /\ pc[r] = "mutex" /\ mutex = NoReq
    /\ mutex' = r
    /\ waiting' = waiting + 1
    /\ remaining' = [remaining EXCEPT ![r] = Len(map[r]) + 1]
    /\ i' = [i EXCEPT ![r] = 1]
    /\ pc' = [pc EXCEPT ![r] = "slow"]
    /\ UNCHANGED <<access, waiters, rw, map, locked>>

SlowSkip(r) ==
    /\ pc[r] = "slow" /\ i[r] <= Len(map[r])
    /\ Line(r) = NoEntry
    /\ remaining' = [remaining EXCEPT ![r] = @ - 1]
    /\ i' = [i EXCEPT ![r] = @ + 1]
    /\ UNCHANGED <<access, waiters, mutex, waiting, pc, rw, map, locked>>

\* ocf_alock_lock_one_rd / _wr, first attempt: the entry is idle.
SlowTake(r) ==
    /\ pc[r] = "slow" /\ i[r] <= Len(map[r])
    /\ Line(r) # NoEntry
    /\ TryIdle(r, Line(r))
    /\ locked' = [locked EXCEPT ![r] = @ \cup {i[r]}]
    /\ remaining' = [remaining EXCEPT ![r] = @ - 1]
    /\ i' = [i EXCEPT ![r] = @ + 1]
    /\ UNCHANGED <<waiters, mutex, waiting, pc, rw, map>>

SlowTaken(r) ==
    /\ pc[r] = "slow" /\ i[r] <= Len(map[r])
    /\ Line(r) # NoEntry
    /\ access[Line(r)] # 0
    /\ pc' = [pc EXCEPT ![r] = "alloc"]
    /\ UNCHANGED <<access, waiters, mutex, waiting, rw, map, i, locked, remaining>>

\* The second attempt, under the list's spinlock.
SlowJoin(r) ==
    /\ pc[r] = "alloc"
    /\ Joins(r, Line(r))
    /\ access' = [access EXCEPT ![Line(r)] = Joined(r, Line(r))]
    /\ locked' = [locked EXCEPT ![r] = @ \cup {i[r]}]
    /\ remaining' = [remaining EXCEPT ![r] = @ - 1]
    /\ i' = [i EXCEPT ![r] = @ + 1]
    /\ pc' = [pc EXCEPT ![r] = "slow"]
    /\ UNCHANGED <<waiters, mutex, waiting, rw, map>>

\* Mutant: the entry is not tried again under the spinlock.
EnqueueUnchecked(r) ==
    /\ pc[r] = "alloc"
    /\ waiters' = [waiters EXCEPT ![Line(r)] = Append(@, r)]
    /\ i' = [i EXCEPT ![r] = @ + 1]
    /\ pc' = [pc EXCEPT ![r] = "slow"]
    /\ UNCHANGED <<access, mutex, waiting, rw, map, locked, remaining>>

SlowEnqueue(r) ==
    /\ pc[r] = "alloc"
    /\ ~Joins(r, Line(r))
    /\ waiters' = [waiters EXCEPT ![Line(r)] = Append(@, r)]
    /\ i' = [i EXCEPT ![r] = @ + 1]
    /\ pc' = [pc EXCEPT ![r] = "slow"]
    /\ UNCHANGED <<access, mutex, waiting, rw, map, locked, remaining>>

\* env_allocator_new fails: the request backs out of every index so far.
SlowNoMem(r) ==
    /\ CanFail
    /\ pc[r] = "alloc"
    /\ pc' = [pc EXCEPT ![r] = "undo"]
    /\ UNCHANGED <<access, waiters, mutex, waiting, rw, map, i, locked, remaining>>

\* The entry of the first waiter of r in a list, which several entries may
\* share: a request queues its waiters in map order.
FirstOf(r, l) == {map[r][k] : k \in {k \in 1..Len(map[r]) :
    LET InList(j) == map[r][j] # NoEntry /\ ListOf[map[r][j]] = l /\ Queued(r, map[r][j])
    IN InList(k) /\ \A j \in 1..k-1 : ~InList(j)}}

Without(q, r) == [n \in 1..Len(q)-1 |->
    IF \E m \in 1..n : q[m] = r THEN q[n + 1] ELSE q[n]]

\* ocf_alock_waitlist_remove_entry for the current index: unlock it when it is
\* marked locked, else drop the first waiter of the request from the list.
RemoveEntry(r) ==
    /\ pc[r] = "undo" /\ i[r] > 0
    /\ i' = [i EXCEPT ![r] = @ - 1]
    /\ \/ /\ Line(r) # NoEntry /\ i[r] \in locked[r]
          /\ UnlockIndex(r, i[r], "undo")
       \/ /\ Line(r) # NoEntry /\ i[r] \notin locked[r]
          /\ waiters' = [e \in Entries |-> IF e \in FirstOf(r, ListOf[Line(r)])
                                          THEN Without(waiters[e], r) ELSE waiters[e]]
          /\ UNCHANGED <<access, waiting, pc, locked, remaining>>
       \/ /\ Line(r) = NoEntry
          /\ UNCHANGED <<access, waiters, waiting, pc, locked, remaining>>
    /\ UNCHANGED <<mutex, rw, map>>

\* lock_rd / lock_wr return -OCF_ERR_NO_MEM.
SlowFail(r) ==
    /\ pc[r] = "undo" /\ i[r] = 0
    /\ remaining' = [remaining EXCEPT ![r] = 0]
    /\ waiting' = waiting - 1
    /\ mutex' = NoReq
    /\ Forget(r)
    /\ UNCHANGED <<access, waiters, locked>>

\* The caller gives up its own share of lock_remaining; whoever brings it to
\* zero, here or in an unlock, makes the request go on.
SlowDone(r) ==
    /\ pc[r] = "slow" /\ i[r] > Len(map[r])
    /\ remaining' = [remaining EXCEPT ![r] = @ - 1]
    /\ mutex' = NoReq
    /\ pc' = [pc EXCEPT ![r] = IF remaining[r] = 1 THEN "held" ELSE "wait"]
    /\ waiting' = IF remaining[r] = 1 THEN waiting - 1 ELSE waiting
    /\ UNCHANGED <<access, waiters, rw, map, i, locked>>

-----------------------------------------------------------------------------
(* ocf_req_unlock_rd / ocf_req_unlock_wr *)

Unlock(r) ==
    /\ pc[r] = "held"
    /\ i' = [i EXCEPT ![r] = 1]
    /\ pc' = [pc EXCEPT ![r] = "unlock"]
    /\ UNCHANGED <<access, waiters, mutex, waiting, rw, map, locked, remaining>>

UnlockLine(r) ==
    /\ pc[r] = "unlock" /\ i[r] <= Len(map[r])
    /\ \/ /\ i[r] \in locked[r]
          /\ UnlockIndex(r, i[r], "unlock")
       \/ /\ i[r] \notin locked[r]
          /\ UNCHANGED <<access, waiters, waiting, pc, locked, remaining>>
    /\ i' = [i EXCEPT ![r] = @ + 1]
    /\ UNCHANGED <<mutex, rw, map>>

UnlockDone(r) ==
    /\ pc[r] = "unlock" /\ i[r] > Len(map[r])
    /\ Forget(r)
    /\ UNCHANGED <<access, waiters, mutex, waiting, locked, remaining>>

-----------------------------------------------------------------------------

Fast(r) == FastTake(r) \/ FastSkip(r) \/ FastTaken(r) \/ FastDone(r) \/ FastBack(r)
Slow(r) == SlowSkip(r) \/ SlowTake(r) \/ SlowTaken(r) \/ SlowJoin(r)
              \/ SlowEnqueue(r) \/ RemoveEntry(r) \/ SlowFail(r) \/ SlowDone(r)
Release(r) == Unlock(r) \/ UnlockLine(r) \/ UnlockDone(r)

Next == \E r \in Reqs :
    Submit(r) \/ Fast(r) \/ SlowStart(r) \/ Slow(r) \/ SlowNoMem(r) \/ Release(r)

\* A thread inside a call runs on, a holder unlocks some day, and the mutex,
\* which is never held across a wait, does not starve a thread for ever.
Fairness == \A r \in Reqs :
    WF_vars(Fast(r)) /\ WF_vars(Slow(r)) /\ WF_vars(Release(r)) /\ SF_vars(SlowStart(r))

Spec == Init /\ [][Next]_vars /\ Fairness

-----------------------------------------------------------------------------
(* Properties *)

TypeOK ==
    /\ access \in [Entries -> 0..WR]
    /\ waiters \in [Entries -> Seq(Reqs)]
    /\ mutex \in Reqs \cup {NoReq}
    /\ waiting \in Nat
    /\ pc \in [Reqs -> PCs]
    /\ rw \in [Reqs -> {"rd", "wr"}]
    /\ map \in [Reqs -> Seq(Entries \cup {NoEntry})]
    /\ i \in [Reqs -> Nat]
    /\ locked \in [Reqs -> SUBSET Nat]
    /\ remaining \in [Reqs -> Nat]

\* The requests that have entry e marked locked.
HoldersOf(e) == {r \in Reqs : \E k \in locked[r] : map[r][k] = e}

\* access[e] tells exactly who holds e: one writer alone, or that many readers.
\* Two requests never own a line unless both read it, and no line stays
\* locked that no request has marked.
AccessMatchesHolders == \A e \in Entries :
    \/ /\ access[e] = WR
       /\ \E r \in Reqs : HoldersOf(e) = {r} /\ rw[r] = "wr"
    \/ /\ access[e] = Cardinality(HoldersOf(e))
       /\ \A r \in HoldersOf(e) : rw[r] = "rd"

\* No lost wakeup: an idle entry has no waiter, since every unlock hands over
\* and every waiter looked again under the spinlock before it queued.
IdleHasNoWaiters == \A e \in Entries : access[e] = 0 => waiters[e] = <<>>

\* A resumed request owns every line its map needs, and none before that is
\* resumed with one missing; afterwards nothing of it is left in a queue.
ResumedOwnsAll == \A r \in Reqs : pc[r] = "held" =>
    /\ locked[r] = {k \in 1..Len(map[r]) : map[r][k] # NoEntry}
    /\ remaining[r] = 0

\* A request that has returned, by unlock or with -OCF_ERR_NO_MEM, holds no
\* line and waits for none ("Safely remove cache entry lock waiter").
IdleHoldsNothing == \A r \in Reqs : pc[r] = "idle" =>
    /\ locked[r] = {}
    /\ \A e \in Entries : ~Queued(r, e)

\* alock->waiting counts the requests in the slow path or suspended; it is
\* what ocf_cache_line_concurrency_suspended_no reports.
WaitingExact == waiting =
    Cardinality({r \in Reqs : pc[r] \in {"slow", "alloc", "undo", "wait"}})

\* Nobody overtakes a queued writer: while it stays queued on e, the only
\* requests that get e were queued before it.
NoOvertaking == [][\A e \in Entries : \A n \in 1..Len(waiters[e]) :
    LET w == waiters[e][n]
    IN (rw[w] = "wr" /\ \E m \in 1..Len(waiters'[e]) : waiters'[e][m] = w) =>
         \A r \in HoldersOf(e)' \ HoldersOf(e) :
            \E m \in 1..n-1 : waiters[e][m] = r]_vars

\* Every lock call ends: no deadlock among requests that lock several lines in
\* any order, and no starvation.
LockReturns == \A r \in Reqs : []<>(pc[r] \in {"held", "idle"})

\* The cache line lock as a whole: ownership, access words, waiter lists and
\* counters of ocf_alock agree at every atomic step, nobody is left waiting for a
\* free line, and a request that is resumed owns all of its lines.
LinesLocked ==
    /\ TypeOK /\ AccessMatchesHolders /\ WaitingExact
    /\ IdleHasNoWaiters /\ ResumedOwnsAll /\ IdleHoldsNothing
=============================================================================
