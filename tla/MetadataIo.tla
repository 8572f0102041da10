----------------------------- MODULE MetadataIo -----------------------------
(***************************************************************************)
(* Asynchronous metadata I/O: metadata_io.c, its users in metadata_raw.c   *)
(* and the page locks of ocf_mio_concurrency.c.                            *)
(*                                                                         *)
(* A job flushes the metadata pages of a request, flushes or loads a whole *)
(* segment, or zeroes it.  Each contiguous range of its pages is one       *)
(* asynchronous request (metadata_io_request_asynch) served by a few       *)
(* worker requests (metadata_io_request) that take the next MaxIo pages    *)
(* over and over.  Three counters tell when it is over: req_current hands  *)
(* the pages out, req_remaining guards the completion callback and         *)
(* req_active the memory.                                                  *)
(*                                                                         *)
(* The page locks are those of module Alock, used for writing only; here   *)
(* they are FIFO queues whose head owns the page.                          *)
(***************************************************************************)
EXTENDS Naturals, Sequences, FiniteSets, FiniteSetsExt

CONSTANTS
    Pages,      \* metadata pages 1 .. n
    Jobs,       \* jobs
    Plans,      \* what the jobs may be: functions to [kind, pages]
    MaxIo,      \* pages per device request (metadata_io_max_page)
    ReqLimit,   \* METADATA_IO_REQS_LIMIT
    MaxError,   \* bound: failing device requests
    MaxNoMem    \* bound: failing allocations

VARIABLES
    job,      \* per job: [st, kind, pages, ranges, cur, cnt, err, want]
    ar,       \* per job and first page: the asynchronous request
    mr,       \* per job, first page and index: the worker request
    queue,    \* per page: FIFO of workers, the head owns the page
    mem,      \* per page: version in memory
    disk,     \* per page: version on the device
    lost,     \* ghost: jobs whose completion a known defect dropped
    errors, nomem

vars == <<job, ar, mr, queue, mem, disk, lost, errors, nomem>>

Ars == Jobs \X Pages
Mrs == Jobs \X Pages \X (1 .. ReqLimit)
ArOf(m) == <<m[1], m[2]>>

DivRoundUp(a, b) == (a + b - 1) \div b

\* The worker requests an asynchronous request of n pages has.
ReqCount(n) == Min({DivRoundUp(n, MaxIo), ReqLimit})

\* struct metadata_io_request_asynch and struct metadata_io_request.
AsyncRequest == [count : Nat, remaining : Nat, active : Nat, current : Nat,
                 err : BOOLEAN, live : BOOLEAN]
IoRequest == [pc : {"lock", "wait", "do", "io", "advance", "complete",
                    "gone"},
              page : Nat, count : 0 .. MaxIo, buf : [Pages -> Nat],
              ended : BOOLEAN]    \* ghost: metadata_io_req_end was called

NoAsync == [count |-> 0, remaining |-> 0, active |-> 0, current |-> 0,
            err |-> FALSE, live |-> FALSE]
NoBuf == [p \in Pages |-> 0]
NoWorker == [pc |-> "gone", page |-> 0, count |-> 0, buf |-> NoBuf,
             ended |-> FALSE]

\* The loop of _raw_ram_flush_do_asynch over the sorted page numbers: the
\* first pages and lengths of the runs of consecutive pages.
Run(S, p) ==
    CHOOSE n \in 1 .. Cardinality(Pages) :
        /\ \A k \in 0 .. n - 1 : p + k \in S
        /\ p + n \notin S
Ranges(S) == {p \in S : p - 1 \notin S}

\* The pages of a worker request.
PagesOf(m) == mr[m].page .. (mr[m].page + mr[m].count - 1)

IsWrite(j) == job[j].kind # "load"
UsesLock(j) == job[j].kind \in {"flush", "all"}

Init ==
    /\ \E plan \in Plans :
         job = [j \in Jobs |->
                  [st |-> "idle", kind |-> plan[j].kind,
                   pages |-> plan[j].pages, ranges |-> Ranges(plan[j].pages),
                   cur |-> 0, nr |-> 0, cnt |-> 0, err |-> FALSE,
                   want |-> [p \in Pages |-> 0]]]
    /\ ar = [a \in Ars |-> NoAsync]
    /\ mr = [m \in Mrs |-> NoWorker]
    /\ queue = [p \in Pages |-> <<>>]
    /\ mem = [p \in Pages |-> 1]
    /\ disk = [p \in Pages |-> 1]
    /\ lost = {} /\ errors = 0 /\ nomem = 0
-----------------------------------------------------------------------------
(* Counters and completion.                                                *)

\* _raw_ram_flush_do_asynch_io_complete and the completion routines of the
\* other kinds: one reference of the job's context is dropped, the last one
\* calls the owner back.
JobDrop(j, J, e) ==
    [J EXCEPT ![j].cnt = @ - 1, ![j].err = @ \/ e,
              ![j].st = IF J[j].cnt = 1 THEN "done" ELSE @]

\* metadata_io_req_end: req_remaining drops, the last one completes the range.
ReqEnd(a, A, J) ==
    [a |-> [A EXCEPT ![a].remaining = @ - 1],
     j |-> IF A[a].remaining = 1 THEN JobDrop(a[1], J, A[a].err) ELSE J]

\* metadata_io_req_finalize: req_active drops, the last one frees the memory.
Finalize(a, A) ==
    [A EXCEPT ![a] = IF A[a].active > 1 THEN [@ EXCEPT !.active = @ - 1]
                     ELSE NoAsync]

\* metadata_io_req_advance: the worker takes the next pages or ends.
Taken(a, A, m) ==
    LET c == A[a].current IN
    [page |-> m[2] + c * MaxIo,
     count |-> IF c >= DivRoundUp(A[a].count, MaxIo) THEN 0
               ELSE Min({A[a].count - c * MaxIo, MaxIo})]
-----------------------------------------------------------------------------
(* The issuer: _raw_ram_flush_do_asynch, _raw_ram_flush_all,               *)
(* _raw_ram_load_all, raw_ram_zero and metadata_io_i_asynch.               *)

\* The metadata of the pages has changed in memory (or is about to be read).
Begin(j) ==
    /\ job[j].st = "idle"
    /\ mem' = [p \in Pages |->
                 IF p \notin job[j].pages \/ job[j].kind = "zero" THEN mem[p]
                 ELSE IF job[j].kind = "load" THEN 0 ELSE mem[p] + 1]
    /\ job' = [job EXCEPT ![j].st = "issuing", ![j].cnt = 1,
                          ![j].want = CASE job[j].kind = "load" -> disk
                                        [] job[j].kind = "zero" -> @
                                        [] OTHER -> mem']
    /\ UNCHANGED <<ar, mr, queue, disk, lost, errors, nomem>>

\* The next range: its asynchronous request is allocated and set up.
Issue(j) ==
    LET p == Min(job[j].ranges) IN
    /\ job[j].st = "issuing" /\ job[j].cur = 0 /\ job[j].ranges # {}
    /\ job' = [job EXCEPT ![j].ranges = @ \ {p}, ![j].cur = p, ![j].nr = 0,
                 ![j].cnt = IF job[j].kind = "flush" THEN @ + 1 ELSE @]
    /\ ar' = [ar EXCEPT ![<<j, p>>] =
                [count |-> Run(job[j].pages, p), remaining |-> 1, active |-> 1,
                 current |-> 0, err |-> FALSE, live |-> TRUE]]
    /\ UNCHANGED <<mr, queue, mem, disk, lost, errors, nomem>>

\* The allocation fails.  The request flush has counted the range already and
\* leaves the loop: its own reference is dropped, that of the range never is.
\* Zeroing ignores the result.
IssueNoMem(j) ==
    /\ job[j].st = "issuing" /\ job[j].cur = 0 /\ job[j].ranges # {}
    /\ nomem < MaxNoMem /\ nomem' = nomem + 1
    /\ job' = IF job[j].kind \in {"all", "load"}
              THEN JobDrop(j, [job EXCEPT ![j].ranges = {}], TRUE)
              ELSE [job EXCEPT ![j].ranges = {}, ![j].err = TRUE,
                               ![j].st = "waiting"]
    /\ lost' = IF job[j].kind \in {"flush", "zero"} THEN lost \cup {j} ELSE lost
    /\ UNCHANGED <<ar, mr, queue, mem, disk, errors>>

\* metadata_io_req_start: one more worker, which takes its first pages.
StartReq(j) ==
    LET a == <<j, job[j].cur>>
        m == <<j, job[j].cur, job[j].nr + 1>>
        A == [ar EXCEPT ![a].remaining = @ + 1, ![a].active = @ + 1]
        t == Taken(a, A, m)
    IN
    /\ job[j].cur # 0 /\ job[j].nr < ReqCount(ar[a].count)
    /\ IF ar[a].err \/ t.count = 0
       THEN LET A2 == IF ar[a].err THEN A ELSE [A EXCEPT ![a].current = @ + 1]
                e == ReqEnd(a, A2, job)
            IN /\ ar' = Finalize(a, e.a)
               /\ job' = [e.j EXCEPT ![j].nr = @ + 1]
               /\ mr' = mr
       ELSE /\ ar' = [A EXCEPT ![a].current = @ + 1]
            /\ job' = [job EXCEPT ![j].nr = @ + 1]
            /\ mr' = [mr EXCEPT ![m].page = t.page, ![m].count = t.count,
                        ![m].pc = IF UsesLock(j) THEN "lock" ELSE "do"]
    /\ UNCHANGED <<queue, mem, disk, lost, errors, nomem>>

\* The issuer drops its own references of the asynchronous request.
DropRemaining(j) ==
    LET a == <<j, job[j].cur>>  e == ReqEnd(a, ar, job) IN
    /\ job[j].cur # 0 /\ job[j].nr = ReqCount(ar[a].count)
    /\ ar' = e.a
    /\ job' = [e.j EXCEPT ![j].nr = @ + 1]
    /\ UNCHANGED <<mr, queue, mem, disk, lost, errors, nomem>>

DropActive(j) ==
    LET a == <<j, job[j].cur>> IN
    /\ job[j].cur # 0 /\ job[j].nr > ReqCount(ar[a].count)
    /\ ar' = Finalize(a, ar)
    /\ job' = [job EXCEPT ![j].cur = 0]
    /\ UNCHANGED <<mr, queue, mem, disk, lost, errors, nomem>>

\* Mutant: the issuer keeps its own reference.
FinishIssueKeeps(j) ==
    /\ job[j].kind = "flush" /\ job[j].st = "issuing"
    /\ job[j].cur = 0 /\ job[j].ranges = {}
    /\ job' = [job EXCEPT ![j].st = "waiting"]
    /\ UNCHANGED <<ar, mr, queue, mem, disk, lost, errors, nomem>>

\* All ranges of a request flush are issued: its own reference is dropped.
FinishIssue(j) ==
    /\ job[j].kind = "flush" /\ job[j].st = "issuing"
    /\ job[j].cur = 0 /\ job[j].ranges = {}
    /\ job' = JobDrop(j, [job EXCEPT ![j].st = "waiting"], FALSE)
    /\ UNCHANGED <<ar, mr, queue, mem, disk, lost, errors, nomem>>
-----------------------------------------------------------------------------
(* The workers.                                                            *)

\* metadata_io_restart_req: write-lock the pages of this round.
Lock(m) ==
    /\ mr[m].pc = "lock"
    /\ queue' = [p \in Pages |-> IF p \in PagesOf(m) THEN Append(queue[p], m)
                                 ELSE queue[p]]
    /\ mr' = [mr EXCEPT ![m].pc = "wait"]
    /\ UNCHANGED <<job, ar, mem, disk, lost, errors, nomem>>

\* The lock could not allocate a waiter: the worker is finalized without
\* metadata_io_req_end, so req_remaining never reaches zero.
LockNoMem(m) ==
    /\ mr[m].pc = "lock" /\ \E p \in PagesOf(m) : queue[p] # <<>>
    /\ nomem < MaxNoMem /\ nomem' = nomem + 1
    /\ ar' = Finalize(ArOf(m), [ar EXCEPT ![ArOf(m)].err = TRUE])
    /\ mr' = [mr EXCEPT ![m] = NoWorker]
    /\ lost' = lost \cup {m[1]}
    /\ UNCHANGED <<job, queue, mem, disk, errors>>

\* metadata_io_page_lock_acquired: all pages are owned.
Locked(m) == \A p \in PagesOf(m) : Head(queue[p]) = m

\* metadata_io_do: fill the buffer with the latest metadata and submit.
Do(m) ==
    /\ mr[m].pc = "do" \/ (mr[m].pc = "wait" /\ Locked(m))
    /\ mr' = [mr EXCEPT ![m].pc = "io",
                ![m].buf = CASE job[m[1]].kind = "zero" -> [p \in Pages |-> 0]
                             [] job[m[1]].kind = "load" -> @
                             [] OTHER -> mem]
    /\ UNCHANGED <<job, ar, queue, mem, disk, lost, errors, nomem>>

\* metadata_io_end, first part: the device answers, the pages are unlocked.
Unlocked(m) ==
    [p \in Pages |-> IF UsesLock(m[1]) /\ p \in PagesOf(m) THEN Tail(queue[p])
                     ELSE queue[p]]
Written(m) == [p \in Pages |-> IF p \in PagesOf(m) THEN mr[m].buf[p]
                               ELSE disk[p]]

IoEnd(m) ==
    /\ mr[m].pc = "io"
    /\ queue' = Unlocked(m)
    /\ mr' = [mr EXCEPT ![m].pc = "advance", ![m].buf = NoBuf]
    /\ \/ /\ IF IsWrite(m[1])
             THEN disk' = Written(m) /\ mem' = mem
             ELSE /\ mem' = [p \in Pages |-> IF p \in PagesOf(m) THEN disk[p]
                                             ELSE mem[p]]
                  /\ disk' = disk
          /\ UNCHANGED <<ar, errors>>
       \/ /\ errors < MaxError /\ errors' = errors + 1
          /\ ar' = [ar EXCEPT ![ArOf(m)].err = TRUE]
          /\ mem' = mem
          /\ disk' \in {disk} \cup (IF IsWrite(m[1]) THEN {Written(m)} ELSE {})
    /\ UNCHANGED <<job, lost, nomem>>

\* metadata_io_req_advance: after an error, or when no page is left, the
\* worker ends (its count is set to zero only in the second case).
Advance(m) ==
    LET a == ArOf(m)  t == Taken(a, ar, m) IN
    /\ mr[m].pc = "advance"
    /\ IF ar[a].err \/ t.count = 0
       THEN LET A == IF ar[a].err THEN ar ELSE [ar EXCEPT ![a].current = @ + 1]
                e == ReqEnd(a, A, job)
            IN /\ ar' = e.a /\ job' = e.j
               /\ mr' = [mr EXCEPT ![m].pc = "complete", ![m].ended = TRUE,
                           ![m].count = IF ar[a].err THEN @ ELSE 0]
       ELSE /\ ar' = [ar EXCEPT ![a].current = @ + 1]
            /\ mr' = [mr EXCEPT ![m].pc = "complete", ![m].page = t.page,
                                ![m].count = t.count]
            /\ UNCHANGED job
    /\ UNCHANGED <<queue, mem, disk, lost, errors, nomem>>

\* metadata_io_req_complete: the next round, or the end.  The error is read
\* again here: when another worker failed after this one took its next pages,
\* this one is finalized without having ended, and the range never completes.
Complete(m) ==
    LET a == ArOf(m) IN
    /\ mr[m].pc = "complete"
    /\ IF mr[m].count = 0 \/ ar[a].err
       THEN /\ ar' = Finalize(a, ar)
            /\ mr' = [mr EXCEPT ![m] = NoWorker]
            /\ lost' = IF mr[m].ended THEN lost ELSE lost \cup {m[1]}
       ELSE /\ mr' = [mr EXCEPT ![m].pc = IF UsesLock(m[1]) THEN "lock"
                                          ELSE "do"]
            /\ UNCHANGED <<ar, lost>>
    /\ UNCHANGED <<job, queue, mem, disk, errors, nomem>>

Issuer(j) ==
    Issue(j) \/ IssueNoMem(j) \/ StartReq(j) \/ DropRemaining(j)
    \/ DropActive(j) \/ FinishIssue(j)

Worker(m) ==
    Lock(m) \/ LockNoMem(m) \/ Do(m) \/ IoEnd(m) \/ Advance(m) \/ Complete(m)

Next ==
    \/ \E j \in Jobs : Begin(j) \/ Issuer(j)
    \/ \E m \in Mrs : Worker(m)

Spec == Init /\ [][Next]_vars
-----------------------------------------------------------------------------
TypeOK ==
    /\ \A a \in Ars : ar[a] \in AsyncRequest
    /\ \A m \in Mrs : mr[m] \in IoRequest
    /\ \A j \in Jobs : job[j].st \in {"idle", "issuing", "waiting", "done"}
                       /\ job[j].cnt \in Nat

\* The memory of an asynchronous request outlives its users: req_active
\* counts the workers that may still touch it and the issuer, and the job's
\* context, which a worker fills its buffer from, outlives every worker that
\* has not ended.
NoUseAfterFree ==
    \A a \in Ars :
        LET users == {m \in Mrs : ArOf(m) = a
                                  /\ mr[m].pc # "gone"}
        IN /\ ar[a].active = Cardinality(users)
                             + (IF job[a[1]].cur = a[2] THEN 1 ELSE 0)
           /\ ar[a].live <=> ar[a].active > 0
           /\ job[a[1]].st = "done" =>
                 \A m \in users : mr[m].pc \in {"advance", "complete"}
                                  /\ mr[m].ended

\* A job that reports success has its pages on the device, as they were when
\* it began or newer, and they stay so: a worker that filled its buffer
\* earlier never overwrites a later one's (the page lock is held from the
\* fill to the answer).  A load has filled the memory from the device.
DoneDurable ==
    \A j \in Jobs : job[j].st = "done" /\ ~job[j].err =>
        \A p \in job[j].pages :
            CASE job[j].kind = "load" -> mem[p] >= job[j].want[p]
              [] job[j].kind = "zero" -> disk[p] = 0
              [] OTHER -> disk[p] >= job[j].want[p]

\* No callback is lost: when the issuer of a job is through and none of its
\* workers is left, its owner has been called back, unless one of the known
\* defects (an allocation that fails in the middle, the error that is read
\* twice) dropped a reference for good.
Over(j) ==
    /\ job[j].cur = 0 /\ job[j].ranges = {}
    /\ job[j].st \in (IF job[j].kind = "flush" THEN {"waiting", "done"}
                      ELSE {"issuing", "waiting", "done"})
    /\ \A m \in Mrs : m[1] = j => mr[m].pc = "gone"

CallbackOwed == \A j \in Jobs : Over(j) => job[j].st = "done" \/ j \in lost

\* Metadata I/O as a whole: nothing used after it was freed, what was reported done
\* is on the device, and every completion is owed exactly once, but for the jobs
\* whose completion one of the known defects dropped (`lost`).
PagesSound == TypeOK /\ NoUseAfterFree /\ DoneDurable /\ CallbackOwed
=============================================================================
