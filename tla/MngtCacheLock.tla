--------------------------- MODULE MngtCacheLock ----------------------------
(***************************************************************************)
(* The life of a cache handle: the management lock of a cache together     *)
(* with its reference counters and the end of a cache stop                 *)
(* (mngt/ocf_mngt_common.c and the tail of mngt/ocf_mngt_cache.c).         *)
(*                                                                         *)
(* refcnt.cache keeps the cache structure allocated, refcnt.lock keeps the *)
(* lock alive while a call is inside it.  ocf_mngt_cache_remove freezes    *)
(* both and registers the callbacks that destroy the lock and the cache.   *)
(* Each counter is atomic here, and its zero callback runs when the frozen *)
(* counter drops to zero, as env_refcnt promises; module RefCnt looks      *)
(* inside that promise.                                                    *)
(***************************************************************************)
EXTENDS AsyncLock

CONSTANTS
    NoClient,
    Modes       \* the directions clients lock in

ASSUME UseAssumption ==
    /\ NoClient \notin Clients
    /\ Modes \subseteq {"rd", "wr"}

VARIABLES
    cref,       \* refcnt.cache
    lref,       \* refcnt.lock
    pc,         \* where each client is
    how,        \* the kind of lock call the client is in
    inside,     \* the clients that hold a reference of refcnt.lock
    stopping,   \* ocf_cache_state_stopping
    listed,     \* the cache is on ctx->caches
    alive,      \* cache->lock is initialised
    freed,      \* the cache structure is deallocated
    failing,    \* the waiters ocf_async_lock_deinit answers with an error
    stopper,    \* the client that stops the cache, or NoClient
    step,       \* where the stop is
    kept        \* references that a refused trylock did not give back

clientVars == <<pc, how, inside, kept>>
stopVars == <<stopping, listed, alive, freed, failing, stopper, step>>
vars == <<lockVars, cref, lref, clientVars, stopVars>>

(* cb: the zero callback, none, registered, about to run, or run. *)
Counter == [n : Nat, frozen : BOOLEAN, cb : {"none", "armed", "fired", "done"}]

(* "out"  no handle                  "ref"    has a handle                 *)
(* "got"  the call's own reference   "in"     about to call lock_fn        *)
(* "asked" queued or granted, the callback not yet called                  *)
(* "own"  owns the lock              "refuse" granted, but it is stopping  *)
(* "put"  about to drop the call's reference                               *)
PCs == {"out", "ref", "got", "in", "asked", "own", "refuse", "put"}

(* A lock call answered inside lock_fn is "sync", a queued one "async". *)
Hows == {"lock", "sync", "async", "try"}

Steps == {"none", "stop", "lfrozen", "larmed", "cfrozen", "carmed", "cmpl", "done"}

Init ==
    /\ LockInit
    /\ cref = [n |-> 1, frozen |-> FALSE, cb |-> "none"]
    /\ lref = [n |-> 0, frozen |-> FALSE, cb |-> "none"]
    /\ pc = [c \in Clients |-> "out"]
    /\ how = [c \in Clients |-> "lock"]
    /\ inside = {}
    /\ stopping = FALSE /\ listed = TRUE /\ alive = TRUE /\ freed = FALSE
    /\ failing = <<>>
    /\ stopper = NoClient /\ step = "none"
    /\ kept = 0

-----------------------------------------------------------------------------
(* env_refcnt, one operation at a time *)

Increased(r) == [r EXCEPT !.n = @ + 1]

Decreased(r) == [r EXCEPT !.n = @ - 1,
                          !.cb = IF r.n = 1 /\ @ = "armed" THEN "fired" ELSE @]

Frozen(r) == [r EXCEPT !.frozen = TRUE]

\* env_refcnt_register_zero_cb on a frozen counter.
Armed(r) == [r EXCEPT !.cb = IF r.n = 0 THEN "fired" ELSE "armed"]

Goto(c, l) == pc' = [pc EXCEPT ![c] = l]

-----------------------------------------------------------------------------
(* A client *)

\* ocf_mngt_cache_get_by_name; with the cache not on the list or its counter
\* frozen the client gets nothing.
GetByName(c) ==
    /\ pc[c] = "out" /\ listed /\ ~cref.frozen
    /\ cref' = Increased(cref)
    /\ Goto(c, "ref")
    /\ UNCHANGED <<lockVars, lref, how, inside, kept, stopVars>>

\* ocf_mngt_cache_put of the handle.
PutHandle(c) ==
    /\ pc[c] = "ref" /\ c \notin inside
    /\ cref' = Decreased(cref)
    /\ Goto(c, "out")
    /\ UNCHANGED <<lockVars, lref, how, inside, kept, stopVars>>

\* Mutant: the call relies on the reference of its caller's handle.
BeginCallUncounted(c, h) ==
    /\ pc[c] = "ref" /\ c \notin inside /\ ~cref.frozen
    /\ how' = [how EXCEPT ![c] = h]
    /\ Goto(c, "got")
    /\ UNCHANGED <<lockVars, cref, lref, inside, kept, stopVars>>

\* _ocf_mngt_cache_lock and _ocf_mngt_cache_trylock start with
\* ocf_mngt_cache_get; frozen, they return an error at once.
BeginCall(c, h) ==
    /\ pc[c] = "ref" /\ c \notin inside /\ ~cref.frozen
    /\ cref' = Increased(cref)
    /\ how' = [how EXCEPT ![c] = h]
    /\ Goto(c, "got")
    /\ UNCHANGED <<lockVars, lref, inside, kept, stopVars>>

EnterLock(c) ==
    /\ pc[c] = "got"
    /\ IF lref.frozen
       THEN Goto(c, "put") /\ UNCHANGED <<lref, inside>>
       ELSE /\ lref' = Increased(lref)
            /\ inside' = inside \cup {c}
            /\ Goto(c, "in")
    /\ UNCHANGED <<lockVars, cref, how, kept, stopVars>>

\* ocf_async_lock_new_waiter fails.
NoWaiter(c) ==
    /\ pc[c] = "in" /\ how[c] = "lock"
    /\ lref' = Decreased(lref)
    /\ inside' = inside \ {c}
    /\ Goto(c, "put")
    /\ UNCHANGED <<lockVars, cref, how, kept, stopVars>>

\* lock_fn(waiter).
LockFn(c, m) ==
    /\ pc[c] = "in" /\ how[c] = "lock"
    /\ \/ Take(c, m) /\ how' = [how EXCEPT ![c] = "sync"]
       \/ Enqueue(c, m) /\ how' = [how EXCEPT ![c] = "async"]
    /\ Goto(c, "asked")
    /\ UNCHANGED <<cref, lref, inside, kept, stopVars>>

\* trylock_fn(&cache->lock).
TrylockFn(c, m) ==
    /\ pc[c] = "in" /\ how[c] = "try"
    /\ \/ Take(c, m) /\ Goto(c, "asked")
       \/ ~CanTake(m) /\ Goto(c, "put") /\ UNCHANGED lockVars
    /\ UNCHANGED <<cref, lref, how, inside, kept, stopVars>>

\* _ocf_mngt_cache_lock_complete without error, and the same test in the
\* trylock: a granted lock is refused when the cache is stopping.  An owner is
\* on its own: the call that granted the lock returns whenever it does.
Answer(c) ==
    /\ pc[c] = "asked" /\ Callable(c) /\ Called(c)
    /\ st' = [st EXCEPT ![c] = "own"]
    /\ IF stopping
       THEN Goto(c, "refuse") /\ UNCHANGED how
       ELSE Goto(c, "own") /\ how' = [how EXCEPT ![c] = "async"]
    /\ UNCHANGED <<rd, wr, waiters, mode, cref, lref, inside, kept, stopVars>>

\* The unlock of a refused grant.  _ocf_mngt_cache_lock_complete then drops the
\* call's reference, _ocf_mngt_cache_trylock does not.
Refuse(c) ==
    /\ pc[c] = "refuse"
    /\ Free(c)
    /\ Goto(c, IF how[c] = "try" THEN "ref" ELSE "put")
    /\ kept' = IF how[c] = "try" THEN kept + 1 ELSE kept
    /\ UNCHANGED <<cref, lref, how, inside, stopVars>>

\* env_refcnt_dec(&cache->refcnt.lock) at the end of the call; a call answered
\* inside lock_fn, and a trylock, are first through with the answer.
LeaveLock(c) ==
    /\ c \in inside
    /\ pc[c] # "in"
    /\ how[c] \in {"sync", "try"} => pc[c] \notin {"asked", "refuse", "put"}
    /\ lref' = Decreased(lref)
    /\ inside' = inside \ {c}
    /\ UNCHANGED <<lockVars, cref, pc, how, kept, stopVars>>

\* ocf_mngt_cache_unlock / _read_unlock: unlock_fn, then the put.  The client
\* that stops the cache keeps the lock until its stop completes.
UnlockCache(c) ==
    /\ pc[c] = "own"
    /\ stopper = c => step \in {"cmpl", "done"}
    /\ Free(c)
    /\ Goto(c, "put")
    /\ UNCHANGED <<cref, lref, how, inside, kept, stopVars>>

PutCall(c) ==
    /\ pc[c] = "put"
    /\ cref' = Decreased(cref)
    /\ Goto(c, "ref")
    /\ UNCHANGED <<lockVars, lref, how, inside, kept, stopVars>>

-----------------------------------------------------------------------------
(* The stop of the cache, by a client that has it locked for write *)

Stop(c) ==
    /\ pc[c] = "own" /\ mode[c] = "wr" /\ step = "none"
    /\ stopping' = TRUE /\ stopper' = c /\ step' = "stop"
    /\ UNCHANGED <<lockVars, cref, lref, clientVars, listed, alive, freed, failing>>

\* ocf_mngt_cache_stop_finish with an error: the cache runs on.
StopFailed ==
    /\ step = "stop"
    /\ stopping' = FALSE /\ stopper' = NoClient /\ step' = "none"
    /\ UNCHANGED <<lockVars, cref, lref, clientVars, listed, alive, freed, failing>>

\* ocf_mngt_cache_lock_deinit.
LockFreeze ==
    /\ step = "stop"
    /\ cref' = Increased(cref)
    /\ lref' = Frozen(lref)
    /\ step' = "lfrozen"
    /\ UNCHANGED <<lockVars, clientVars, stopping, listed, alive, freed, failing, stopper>>

LockArm ==
    /\ step = "lfrozen"
    /\ lref' = Armed(lref)
    /\ step' = "larmed"
    /\ UNCHANGED <<lockVars, cref, clientVars, stopping, listed, alive, freed, failing, stopper>>

\* ocf_mngt_cache_remove: the cache's own counter, then the list.
CacheFreeze ==
    /\ step = "larmed"
    /\ cref' = Frozen(cref)
    /\ step' = "cfrozen"
    /\ UNCHANGED <<lockVars, lref, clientVars, stopping, listed, alive, freed, failing, stopper>>

CacheArm ==
    /\ step = "cfrozen"
    /\ cref' = Armed(cref)
    /\ step' = "carmed"
    /\ UNCHANGED <<lockVars, lref, clientVars, stopping, listed, alive, freed, failing, stopper>>

Unlist ==
    /\ step = "carmed"
    /\ listed' = FALSE
    /\ step' = "cmpl"
    /\ UNCHANGED <<lockVars, cref, lref, clientVars, stopping, alive, freed, failing, stopper>>

\* "Finally release cache instance", after the completion was called.
FinalPut ==
    /\ step = "cmpl"
    /\ cref' = Decreased(cref)
    /\ step' = "done"
    /\ UNCHANGED <<lockVars, lref, clientVars, stopping, listed, alive, freed, failing, stopper>>

\* Mutant: the waiters of the destroyed lock are forgotten.
LockDeinitSilent ==
    /\ lref.cb = "fired" /\ alive
    /\ alive' = FALSE
    /\ waiters' = <<>>
    /\ UNCHANGED <<rd, wr, run, st, mode, cref, lref, clientVars, stopping,
                   listed, freed, failing, stopper, step>>

\* _ocf_mngt_cache_lock_deinit, the zero callback of refcnt.lock: the lock is
\* destroyed, its waiters are answered with -OCF_ERR_NO_LOCK one by one, each
\* giving up its call's reference, and so does the callback.
LockDeinit ==
    /\ lref.cb = "fired" /\ alive
    /\ alive' = FALSE
    /\ failing' = waiters
    /\ waiters' = <<>>
    /\ UNCHANGED <<rd, wr, run, st, mode, cref, lref, clientVars, stopping,
                   listed, freed, stopper, step>>

FailWaiter ==
    /\ failing # <<>>
    /\ failing' = Tail(failing)
    /\ st' = [st EXCEPT ![Head(failing)] = "out"]
    /\ Goto(Head(failing), "ref")
    /\ cref' = Decreased(cref)
    /\ UNCHANGED <<rd, wr, waiters, run, mode, lref, how, inside, kept, stopping,
                   listed, alive, freed, stopper, step>>

\* The put; env_refcnt_deinit after it does nothing.
LockDeinitDone ==
    /\ lref.cb = "fired" /\ ~alive /\ failing = <<>>
    /\ cref' = Decreased(cref)
    /\ lref' = [lref EXCEPT !.cb = "done"]
    /\ UNCHANGED <<lockVars, clientVars, stopVars>>

\* _ocf_mngt_cache_dealloc, the zero callback of refcnt.cache.
Dealloc ==
    /\ cref.cb = "fired"
    /\ freed' = TRUE
    /\ cref' = [cref EXCEPT !.cb = "done"]
    /\ UNCHANGED <<lockVars, lref, clientVars, stopping, listed, alive, failing,
                   stopper, step>>

-----------------------------------------------------------------------------

Call(c) ==
    \/ EnterLock(c) \/ NoWaiter(c) \/ \E m \in Modes : LockFn(c, m) \/ TrylockFn(c, m)
    \/ Answer(c) \/ Refuse(c) \/ PutCall(c)

StopStep ==
    LockFreeze \/ LockArm \/ CacheFreeze \/ CacheArm \/ Unlist \/ FinalPut

ZeroCallback == LockDeinit \/ FailWaiter \/ LockDeinitDone \/ Dealloc

Next ==
    \/ \E c \in Clients :
         \/ GetByName(c) \/ PutHandle(c)
         \/ BeginCall(c, "lock") \/ BeginCall(c, "try")
         \/ Call(c) \/ LeaveLock(c) \/ UnlockCache(c) \/ Stop(c)
    \/ StopFailed \/ StopStep \/ ZeroCallback

\* Threads inside a call, the stop and the callbacks run on; clients unlock in
\* the end, however often they try a stop that fails, and put their handles.
Fairness ==
    /\ \A c \in Clients : /\ WF_vars(Call(c)) /\ WF_vars(LeaveLock(c))
                          /\ SF_vars(UnlockCache(c)) /\ WF_vars(PutHandle(c))
    /\ WF_vars(StopStep) /\ WF_vars(ZeroCallback)

Spec == Init /\ [][Next]_vars /\ Fairness

-----------------------------------------------------------------------------
(* Properties *)

TypeOK ==
    /\ LockTypeOK
    /\ cref \in Counter /\ lref \in Counter
    /\ pc \in [Clients -> PCs] /\ how \in [Clients -> Hows]
    /\ inside \subseteq Clients
    /\ \A b \in {stopping, listed, alive, freed} : b \in BOOLEAN
    /\ failing \in Seq(Clients)
    /\ stopper \in Clients \cup {NoClient} /\ step \in Steps
    /\ kept \in Nat

InCall == {"got", "in", "asked", "own", "refuse", "put"}

\* A deallocated cache is out of everybody's reach: no client has a handle or
\* is inside a call, no callback is running on it, and it cannot be looked up.
FreedIsUnreachable == freed =>
    /\ \A c \in Clients : pc[c] = "out"
    /\ inside = {} /\ failing = <<>> /\ step = "done"
    /\ lref.cb = "done" /\ ~listed

\* What ocf_async_lock_deinit leaves behind: a destroyed lock has no waiter and
\* no call is about to enter the lock functions, because a call inside them keeps
\* it alive by its reference of refcnt.lock.  An unlock has no such reference, so
\* some still run on the destroyed lock: that of the client which stopped the
\* cache, in or after its completion, and those of grants made before the
\* destruction, which are refused when they are answered.  There are no others.
DeadLockLeft == ~alive =>
    /\ waiters = <<>>
    /\ \A c \in Clients :
          /\ pc[c] # "in"
          /\ st[c] \in {"granted", "own"} => c = stopper \/ pc[c] \in {"asked", "refuse"}

\* While the cache is stopping, and for ever once it is stopped, nobody but the
\* client that stops it is told that it owns the lock.
OnlyStopperOwns == stopping => \A c \in Clients : pc[c] = "own" => c = stopper

\* The lock and the clients agree on who has it, also across refused grants,
\* and one writer at most has it.
OwnersExact ==
    /\ \A c \in Clients : pc[c] \in {"own", "refuse"} <=> st[c] = "own"
    /\ LockExact

\* "If cache don't have any reference - deallocate it" (inc/ocf_mngt.h): after
\* the stop, with no handle, no call and the lock gone, the cache is freed.
UnreferencedIsFreed ==
    (step = "done" /\ lref.cb = "done" /\ \A c \in Clients : pc[c] = "out")
        => cref.cb \in {"fired", "done"}

Handles == {c \in Clients : pc[c] # "out"}
Calls == {c \in Clients : pc[c] \in InCall}

\* refcnt.cache counts the start's reference, the handles, the calls and the
\* pending end of the lock, and nothing else but the references that refused
\* trylocks fail to put (`kept'): with one of those the cache is never freed.
CacheRefExact == cref.n = kept
    + (IF step = "done" THEN 0 ELSE 1)
    + Cardinality(Handles) + Cardinality(Calls)
    + (IF step \in {"none", "stop"} \/ lref.cb = "done" THEN 0 ELSE 1)

\* A stopped cache is deallocated once its users are through with it, unless
\* a refused trylock has kept a reference.
StoppedIsFreed == []<>(step \in {"cmpl", "done"} => freed \/ kept > 0)

\* Every lock call is answered, also those caught by the stop.
CallAnswered == \A c \in Clients : []<>(pc[c] # "asked")

\* The handle of a cache as a whole.  Owners are exact; references are, counting
\* the one that a refused trylock never gives back (_ocf_mngt_cache_trylock); only
\* the stopper owns a stopping cache; a freed cache is out of reach; and nobody
\* enters a destroyed lock, though the stopper and refused clients unlock it.
HandleSound ==
    /\ TypeOK /\ OwnersExact /\ CacheRefExact
    /\ FreedIsUnreachable /\ DeadLockLeft /\ OnlyStopperOwns
=============================================================================
