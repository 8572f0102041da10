------------------------------ MODULE AsyncLock -----------------------------
(***************************************************************************)
(* The asynchronous reader/writer lock of utils/utils_async_lock.c, which  *)
(* serialises management operations on a cache.  A call that cannot take   *)
(* the lock queues a waiter; the unlock that leaves the lock free collects *)
(* the waiters it can grant, under waiters_lock, and runs their callbacks  *)
(* one after the other once the spinlock is released.                      *)
(*                                                                         *)
(* One action is one critical section of waiters_lock or one callback.     *)
(***************************************************************************)
EXTENDS Integers, Sequences, FiniteSets

CONSTANT Clients

ASSUME ClientsAssumption == IsFiniteSet(Clients)

VARIABLES
    rd,         \* lock->rd: the number of readers
    wr,         \* lock->wr: 1 when a writer has the lock
    waiters,    \* lock->waiters: queued clients in order
    run,        \* the waiters list of _ocf_async_lock_run_waiters: granted
                \* clients whose callback the unlocker has still to call
    st,         \* what each client has of the lock
    mode        \* waiter->write_lock: "rd" or "wr"

lockVars == <<rd, wr, waiters, run, st, mode>>

(* "granted": the lock counts the client, its callback has not been called *)
States == {"out", "queued", "granted", "own"}

LockInit ==
    /\ rd = 0 /\ wr = 0
    /\ waiters = <<>> /\ run = <<>>
    /\ st = [c \in Clients |-> "out"]
    /\ mode = [c \in Clients |-> "rd"]

-----------------------------------------------------------------------------
(* The critical sections *)

\* Mutant: a reader does not mind the queue.
CanTakePastQueue(m) == wr = 0 /\ (m = "wr" => rd = 0)

\* _ocf_async_trylock and _ocf_async_read_trylock.
CanTake(m) ==
    wr = 0 /\ IF m = "wr" THEN rd = 0 ELSE waiters = <<>>

\* The lock is taken at once; the caller calls its own callback next.
Take(c, m) ==
    /\ CanTake(m)
    /\ rd' = IF m = "rd" THEN rd + 1 ELSE rd
    /\ wr' = IF m = "wr" THEN 1 ELSE wr
    /\ st' = [st EXCEPT ![c] = "granted"]
    /\ mode' = [mode EXCEPT ![c] = m]
    /\ UNCHANGED <<waiters, run>>

Enqueue(c, m) ==
    /\ ~CanTake(m)
    /\ waiters' = Append(waiters, c)
    /\ st' = [st EXCEPT ![c] = "queued"]
    /\ mode' = [mode EXCEPT ![c] = m]
    /\ UNCHANGED <<rd, wr, run>>

LeadingReaders ==
    Cardinality({n \in 1..Len(waiters) : \A k \in 1..n : mode[waiters[k]] = "rd"})

\* Mutant: only the head of the queue is collected.
CollectedHead == IF waiters = <<>> THEN 0 ELSE 1

\* _ocf_async_lock_collect_waiters on a free lock: all readers at the head of
\* the queue, or else the writer at its head.
Collected == IF LeadingReaders > 0 THEN LeadingReaders
             ELSE IF waiters # <<>> THEN 1 ELSE 0

\* ocf_async_unlock and ocf_async_read_unlock, when mode[c] tells which.
Free(c) ==
    IF mode[c] = "rd" /\ rd > 1
    THEN /\ rd' = rd - 1
         /\ st' = [st EXCEPT ![c] = "out"]
         /\ UNCHANGED <<wr, waiters, run, mode>>
    ELSE LET n == Collected
             granted == SubSeq(waiters, 1, n)
             writer == n > 0 /\ mode[waiters[1]] = "wr"
         IN /\ rd' = IF writer THEN 0 ELSE n
            /\ wr' = IF writer THEN 1 ELSE 0
            /\ waiters' = SubSeq(waiters, n + 1, Len(waiters))
            /\ run' = run \o granted
            /\ st' = [x \in Clients |->
                        IF \E k \in 1..n : waiters[k] = x THEN "granted"
                        ELSE IF x = c THEN "out" ELSE st[x]]
            /\ UNCHANGED mode

OnRun(c) == \E k \in 1..Len(run) : run[k] = c

\* c's callback is the next one to be called: its own caller calls it, or it
\* is the first of the list the unlocker walks.
Callable(c) ==
    /\ st[c] = "granted"
    /\ OnRun(c) => Head(run) = c

Called(c) == run' = IF OnRun(c) THEN Tail(run) ELSE run

-----------------------------------------------------------------------------
(* The lock by itself, with clients that unlock what they got *)

Lock(c, m) == st[c] = "out" /\ (Take(c, m) \/ Enqueue(c, m))

\* ocf_async_trylock / ocf_async_read_trylock; a failure changes nothing.
Trylock(c, m) == st[c] = "out" /\ Take(c, m)

Callback(c) ==
    /\ Callable(c) /\ Called(c)
    /\ st' = [st EXCEPT ![c] = "own"]
    /\ UNCHANGED <<rd, wr, waiters, mode>>

Unlock(c) == st[c] = "own" /\ Free(c)

LockNext == \E c \in Clients :
    \/ \E m \in {"rd", "wr"} : Lock(c, m) \/ Trylock(c, m)
    \/ Callback(c)
    \/ Unlock(c)

\* A caller inside a call runs on, and an owner unlocks some day.
LockFairness == \A c \in Clients : WF_lockVars(Callback(c)) /\ WF_lockVars(Unlock(c))

LockSpec == LockInit /\ [][LockNext]_lockVars /\ LockFairness

-----------------------------------------------------------------------------
(* Properties *)

LockTypeOK ==
    /\ rd \in Nat /\ wr \in 0..1
    /\ waiters \in Seq(Clients) /\ run \in Seq(Clients)
    /\ st \in [Clients -> States]
    /\ mode \in [Clients -> {"rd", "wr"}]

Having(m) == {c \in Clients : st[c] \in {"granted", "own"} /\ mode[c] = m}

\* rd and wr count exactly the clients the lock was granted to, and a writer
\* is alone: what the ENV_BUG_ON in both unlock functions rely on.
LockExact ==
    /\ rd = Cardinality(Having("rd"))
    /\ wr = Cardinality(Having("wr"))
    /\ wr = 1 => rd = 0

\* The queue holds exactly the clients whose call is unanswered, once each,
\* and the callbacks still to be run are of clients that were granted.
QueueExact ==
    /\ \A c \in Clients : st[c] = "queued" <=> \E k \in 1..Len(waiters) : waiters[k] = c
    /\ \A j, k \in 1..Len(waiters) : waiters[j] = waiters[k] => j = k
    /\ \A k \in 1..Len(run) : st[run[k]] = "granted"

\* Nobody waits without a reason: the head of the queue is a reader only while
\* a writer has the lock, a writer only while somebody has it.
HeadHasReason == waiters # <<>> =>
    IF mode[waiters[1]] = "rd" THEN wr = 1 ELSE wr = 1 \/ rd > 0

\* First come, first served: whoever gets the lock had nobody in front of it
\* in the queue who is still there, and a client that was not queued gets it
\* only when nobody was.
FirstComeFirstServed == [][\A c \in Clients :
    (st[c] \in {"out", "queued"} /\ st'[c] = "granted") =>
        \A k \in 1..Len(waiters) :
            \/ st'[waiters[k]] = "granted"
            \/ \E j \in 1..k-1 : waiters[j] = c]_lockVars

\* Every queued call is answered.
Answered == \A c \in Clients : []<>(st[c] \in {"out", "own"})

\* The lock of utils_async_lock.c as a whole: exact owners, an exact queue, and
\* nobody waiting for nothing.
LockSound == LockTypeOK /\ LockExact /\ QueueExact /\ HeadHasReason
=============================================================================
