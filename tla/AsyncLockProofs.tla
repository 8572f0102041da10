--------------------------- MODULE AsyncLockProofs ---------------------------
(***************************************************************************)
(* Proofs about the asynchronous lock, for any finite set of clients.      *)
(*                                                                         *)
(* LockInv is the inductive invariant: the types, the exact counts, a sane *)
(* queue and list of callbacks, and that the head of the queue has a       *)
(* reason to wait.  That every unanswered call is on the queue is kept     *)
(* apart: it ends with the lock, when MngtCacheLock takes the queue away.  *)
(* Both are shown for Take, Enqueue, Free and for a callback, of which     *)
(* LockNext and the handle of MngtCacheLock are made.                      *)
(***************************************************************************)
EXTENDS AsyncLock, CountingProofs, SequenceTheorems

QueueSane ==
    /\ \A k \in 1..Len(waiters) : st[waiters[k]] = "queued"
    /\ \A j, k \in 1..Len(waiters) : waiters[j] = waiters[k] => j = k
    /\ \A k \in 1..Len(run) : st[run[k]] = "granted"
    /\ \A j, k \in 1..Len(run) : run[j] = run[k] => j = k

QueuedWaits == \A c \in Clients : st[c] = "queued" => \E k \in 1..Len(waiters) : waiters[k] = c

LockInv ==
    /\ LockTypeOK
    /\ LockExact
    /\ QueueSane
    /\ HeadHasReason

-----------------------------------------------------------------------------
(* Counting *)

\* The clients that have the lock in a mode are finitely many.
LEMMA FiniteHaving ==
    ASSUME NEW m
    PROVE  IsFiniteSet(Having(m)) /\ Cardinality(Having(m)) \in Nat
<1>1. Having(m) \subseteq Clients
  BY DEF Having
<1> QED  BY <1>1, ClientsAssumption, FS_Subset, FS_CardinalityType

\* _ocf_async_lock_collect_waiters: what is collected is a prefix of the queue;
\* it is empty only if the queue is; it is readers only, up to the first writer,
\* or it is the writer at the head.
LEMMA CollectedPrefix ==
    ASSUME LockTypeOK
    PROVE  /\ Collected \in 0..Len(waiters)
           /\ Collected = 0 => waiters = <<>>
           /\ \/ /\ \A k \in 1..Collected : mode[waiters[k]] = "rd"
                 /\ Collected < Len(waiters) => mode[waiters[Collected + 1]] = "wr"
              \/ Collected = 1 /\ mode[waiters[1]] = "wr"
<1> DEFINE S == {n \in 1..Len(waiters) : \A k \in 1..n : mode[waiters[k]] = "rd"}
<1>1. Len(waiters) \in Nat /\ \A k \in 1..Len(waiters) : waiters[k] \in Clients
  BY DEF LockTypeOK
<1>2. S \in SUBSET (1..Len(waiters)) /\ \A s \in S : \A k \in 1..s : k \in S
  BY <1>1
<1>3. LeadingReaders = Cardinality(S)
  BY DEF LeadingReaders
<1> HIDE DEF S
<1>4. LeadingReaders \in 0..Len(waiters) /\ S = 1..LeadingReaders
  BY <1>1, <1>2, <1>3, PrefixIsInterval
<1> USE DEF S
<1>5. \A k \in 1..LeadingReaders : mode[waiters[k]] = "rd"
  BY <1>4
<1>6. LeadingReaders < Len(waiters) => mode[waiters[LeadingReaders + 1]] = "wr"
  <2> SUFFICES ASSUME LeadingReaders < Len(waiters), mode[waiters[LeadingReaders + 1]] # "wr"
               PROVE  FALSE
    OBVIOUS
  <2>1. mode[waiters[LeadingReaders + 1]] = "rd"
    BY <1>1, <1>4 DEF LockTypeOK
  <2>2. LeadingReaders + 1 \in S
    BY <2>1, <1>4, <1>5
  <2> QED  BY <2>2, <1>4
<1>7. waiters = <<>> <=> Len(waiters) = 0
  BY EmptySeq, <1>1 DEF LockTypeOK
<1> QED  BY <1>1, <1>4, <1>5, <1>6, <1>7 DEF Collected

-----------------------------------------------------------------------------
(* The operations of the lock *)

\* The lock at its start.
LEMMA LockInitInv == LockInit => LockInv /\ QueuedWaits
<1> SUFFICES ASSUME LockInit PROVE LockInv /\ QueuedWaits
  OBVIOUS
<1>1. Having("rd") = {} /\ Having("wr") = {}
  BY DEF LockInit, Having
<1>2. LockTypeOK
  BY DEF LockInit, LockTypeOK, States
<1>3. LockExact
  BY <1>1, FS_EmptySet DEF LockInit, LockExact
<1> QED
  BY <1>2, <1>3 DEF LockInit, LockInv, QueueSane, QueuedWaits, HeadHasReason

\* The head of a waiting queue waits for somebody who has the lock, so a lock
\* that a writer can take has no queue.
LEMMA FreeMeansNoQueue ==
    ASSUME LockInv, NEW m \in {"rd", "wr"}, CanTake(m)
    PROVE  waiters = <<>>
<1>1. waiters # <<>> => waiters[1] \in Clients
  BY DEF LockInv, LockTypeOK
<1> QED  BY <1>1 DEF LockInv, LockTypeOK, CanTake, HeadHasReason

\* _ocf_async_trylock, _ocf_async_read_trylock.
LEMMA TakeInv ==
    ASSUME LockInv, NEW c \in Clients, NEW m \in {"rd", "wr"}, st[c] = "out", Take(c, m)
    PROVE  LockInv' /\ \A x \in Clients : st'[x] = "queued" <=> st[x] = "queued"
<1> USE DEF LockInv
<1>1. LockTypeOK'
  BY DEF Take, LockTypeOK, States
<1>2. \A x \in Clients : st'[x] = (IF x = c THEN "granted" ELSE st[x])
                      /\ mode'[x] = (IF x = c THEN m ELSE mode[x])
  BY DEF Take, LockTypeOK
<1>3. c \notin Having("rd") /\ c \notin Having("wr")
  BY DEF Having
<1>4. Having(m)' = Having(m) \cup {c}
  BY <1>2 DEF Having
<1>5. \A o \in {"rd", "wr"} : o # m => Having(o)' = Having(o)
  BY <1>2 DEF Having
<1>6. Cardinality(Having(m)') = Cardinality(Having(m)) + 1
  BY <1>3, <1>4, FiniteHaving, FS_AddElement
<1>7. LockExact'
  BY <1>5, <1>6 DEF LockExact, LockTypeOK, Take, CanTake
<1>8. waiters = <<>>
  BY FreeMeansNoQueue DEF Take
<1>9. QueueSane' /\ HeadHasReason'
  BY <1>2, <1>8 DEF QueueSane, HeadHasReason, Take, LockTypeOK
<1> QED  BY <1>1, <1>2, <1>7, <1>9

\* A call that cannot have the lock queues at the end.
LEMMA EnqueueInv ==
    ASSUME LockInv, NEW c \in Clients, NEW m \in {"rd", "wr"}, st[c] = "out", Enqueue(c, m)
    PROVE  LockInv' /\ (QueuedWaits => QueuedWaits')
<1> USE DEF LockInv
<1>1. waiters \in Seq(Clients) /\ waiters' = Append(waiters, c)
  BY DEF Enqueue, LockTypeOK
<1>2. /\ waiters' \in Seq(Clients) /\ Len(waiters') = Len(waiters) + 1
      /\ \A i \in 1..Len(waiters) : waiters'[i] = waiters[i]
      /\ waiters'[Len(waiters) + 1] = c
  BY <1>1, AppendProperties
<1>3. LockTypeOK'
  BY <1>2 DEF Enqueue, LockTypeOK, States
<1>4. \A x \in Clients : st'[x] = (IF x = c THEN "queued" ELSE st[x])
                      /\ mode'[x] = (IF x = c THEN m ELSE mode[x])
  BY DEF Enqueue, LockTypeOK
<1>5. Having("rd")' = Having("rd") /\ Having("wr")' = Having("wr")
  BY <1>4 DEF Having
<1>6. LockExact'
  BY <1>5 DEF LockExact, Enqueue
<1>7. \A k \in 1..Len(waiters) : waiters[k] \in Clients /\ waiters[k] # c
  BY <1>1 DEF QueueSane
<1>8. \A k \in 1..Len(run) : run[k] \in Clients /\ run[k] # c
  BY DEF LockTypeOK, QueueSane
<1>9. QueueSane' /\ (QueuedWaits => QueuedWaits')
  <2>1. \A k \in 1..Len(waiters') : st'[waiters'[k]] = "queued"
    BY <1>1, <1>2, <1>4, <1>7 DEF QueueSane
  <2>2. \A j, k \in 1..Len(waiters') : waiters'[j] = waiters'[k] => j = k
    BY <1>1, <1>2, <1>7 DEF QueueSane
  <2>3. \A k \in 1..Len(run') : st'[run'[k]] = "granted"
    BY <1>4, <1>8 DEF QueueSane, Enqueue
  <2>4. QueuedWaits => QueuedWaits'
    BY <1>1, <1>2, <1>4 DEF QueuedWaits
  <2> QED  BY <2>1, <2>2, <2>3, <2>4 DEF QueueSane, Enqueue
<1>10. HeadHasReason'
  <2>1. CASE waiters = <<>>
    <3>1. waiters'[1] = c
      BY <2>1, <1>2
    <3> QED  BY <3>1, <2>1, <1>4 DEF HeadHasReason, Enqueue, CanTake, LockTypeOK
  <2>2. CASE waiters # <<>>
    <3>1. 1 \in 1..Len(waiters)
      BY <2>2, <1>1
    <3>2. waiters'[1] = waiters[1] /\ mode'[waiters[1]] = mode[waiters[1]]
      BY <3>1, <1>2, <1>4, <1>7
    <3> QED  BY <3>2, <2>2 DEF HeadHasReason, Enqueue
  <2> QED  BY <2>1, <2>2
<1> QED  BY <1>3, <1>6, <1>9, <1>10
\* The callback of a client that has got the lock.
LEMMA CalledInv ==
    ASSUME LockInv, NEW c \in Clients, NEW s \in {"own", "granted"},
           Callable(c), Called(c),
           st' = [st EXCEPT ![c] = s], UNCHANGED <<rd, wr, waiters, mode>>
    PROVE  LockInv' /\ \A x \in Clients : st'[x] = "queued" <=> st[x] = "queued"
<1> USE DEF LockInv
<1>1. \A x \in Clients : st'[x] = (IF x = c THEN s ELSE st[x])
  BY DEF LockTypeOK
<1>2. st[c] = "granted"
  BY DEF Callable
<1>3. /\ run' \in Seq(Clients)
      /\ \A k \in 1..Len(run') : \E j \in 1..Len(run) : run'[k] = run[j] /\ run[j] # c
      /\ \A j, k \in 1..Len(run') : run'[j] = run'[k] => j = k
  <2>1. CASE OnRun(c)
    <3>1. run \in Seq(Clients) /\ run # <<>> /\ run[1] = c /\ run' = Tail(run)
      BY <2>1 DEF Callable, Called, OnRun, LockTypeOK
    <3>2. /\ run' \in Seq(Clients) /\ Len(run') = Len(run) - 1
          /\ \A k \in 1..Len(run') : run'[k] = run[k + 1]
      BY <3>1, HeadTailProperties
    <3>3. Len(run) \in Nat
      BY <3>1
    <3>4. \A k \in 1..Len(run') : k + 1 \in 1..Len(run) /\ run[k + 1] # run[1]
      BY <3>2, <3>3 DEF QueueSane
    <3>5. \A j, k \in 1..Len(run') : run'[j] = run'[k] => j = k
      BY <3>2, <3>3 DEF QueueSane
    <3> QED  BY <3>1, <3>2, <3>4, <3>5
  <2>2. CASE ~OnRun(c)
    BY <2>2 DEF Called, OnRun, LockTypeOK, QueueSane
  <2> QED  BY <2>1, <2>2
<1>4. LockTypeOK'
  BY <1>3 DEF LockTypeOK, States
<1>5. Having("rd")' = Having("rd") /\ Having("wr")' = Having("wr")
  BY <1>1, <1>2 DEF Having
<1>6. LockExact'
  BY <1>5 DEF LockExact
<1>7. QueueSane' /\ \A x \in Clients : st'[x] = "queued" <=> st[x] = "queued"
  <2>1. \A k \in 1..Len(run') : run'[k] \in Clients /\ run'[k] # c /\ st[run'[k]] = "granted"
    BY <1>3 DEF QueueSane, LockTypeOK
  <2>2. \A x \in Clients : st'[x] = "queued" <=> st[x] = "queued"
    BY <1>1, <1>2
  <2>3. \A k \in 1..Len(waiters) : waiters[k] \in Clients
    BY DEF LockTypeOK
  <2> QED  BY <1>1, <1>3, <2>1, <2>2, <2>3 DEF QueueSane
<1>8. HeadHasReason'
  BY DEF HeadHasReason
<1> QED  BY <1>4, <1>6, <1>7, <1>8

\* An owner whose unlock leaves the lock free was alone: nobody else has been
\* granted the lock, and no callback is still to be called.
LEMMA LastOwner ==
    ASSUME LockInv, NEW c \in Clients, st[c] = "own", ~(mode[c] = "rd" /\ rd > 1)
    PROVE  /\ \A x \in Clients : st[x] \in {"granted", "own"} => x = c
           /\ run = <<>>
<1> USE DEF LockInv
<1>1. ASSUME NEW m \in {"rd", "wr"}, mode[c] = m, Cardinality(Having(m)) <= 1
      PROVE  Having(m) = {c}
  <2>1. c \in Having(m)
    BY <1>1 DEF Having
  <2>2. Cardinality({c}) = 1
    BY FS_Singleton
  <2> QED  BY <2>1, <2>2, <1>1, FiniteHaving, FS_Subset
<1>2. \A m \in {"rd", "wr"} : Cardinality(Having(m)) = 0 => Having(m) = {}
  BY FiniteHaving, FS_EmptySet
<1>3. /\ mode[c] = "rd" => Having("rd") = {c} /\ Having("wr") = {}
      /\ mode[c] = "wr" => Having("wr") = {c} /\ Having("rd") = {}
  <2>1. CASE mode[c] = "rd"
    <3>1. rd \in Nat /\ rd <= 1 /\ wr \in 0..1
      BY <2>1 DEF LockTypeOK
    <3>2. Having("rd") = {c}
      BY <2>1, <3>1, <1>1 DEF LockExact
    <3>3. rd = 1
      BY <3>2, FS_Singleton DEF LockExact
    <3> QED  BY <2>1, <3>1, <3>2, <3>3, <1>2 DEF LockExact
  <2>2. CASE mode[c] = "wr"
    <3>1. rd \in Nat /\ wr \in 0..1
      BY DEF LockTypeOK
    <3>2. Having("wr") = {c}
      BY <2>2, <3>1, <1>1 DEF LockExact
    <3>3. wr = 1 /\ rd = 0
      BY <3>2, FS_Singleton DEF LockExact
    <3> QED  BY <2>2, <3>2, <3>3, <1>2 DEF LockExact
  <2> QED  BY <2>1, <2>2
<1>4. \A x \in Clients : st[x] \in {"granted", "own"} => x = c
  BY <1>3 DEF Having, LockTypeOK
<1>5. run = <<>>
  <2>1. \A k \in 1..Len(run) : run[k] \in Clients /\ st[run[k]] = "granted"
    BY DEF QueueSane, LockTypeOK
  <2>2. \A k \in 1..Len(run) : FALSE
    BY <2>1, <1>4
  <2>3. run \in Seq(Clients) /\ Len(run) \in Nat
    BY DEF LockTypeOK
  <2>4. Len(run) = 0
    BY <2>2, <2>3
  <2> QED  BY <2>3, <2>4, EmptySeq
<1> QED  BY <1>4, <1>5

\* ocf_async_read_unlock while other readers stay.
LEMMA ReaderLeavesInv ==
    ASSUME LockInv, NEW c \in Clients, st[c] = "own", mode[c] = "rd", rd > 1, Free(c)
    PROVE  /\ LockInv'
           /\ \A x \in Clients : st'[x] = "granted" => st[x] = "granted"
           /\ \A x \in Clients : st'[x] = "queued" <=> st[x] = "queued"
           /\ waiters' = waiters
<1> USE DEF LockInv
<1>1. /\ rd' = rd - 1 /\ st' = [st EXCEPT ![c] = "out"]
      /\ UNCHANGED <<wr, waiters, run, mode>>
  BY DEF Free
<1>2. \A x \in Clients : st'[x] = (IF x = c THEN "out" ELSE st[x])
  BY <1>1 DEF LockTypeOK
<1>3. c \in Having("rd") /\ Having("rd")' = Having("rd") \ {c} /\ Having("wr")' = Having("wr")
  BY <1>1, <1>2 DEF Having
<1>4. LockTypeOK'
  BY <1>1 DEF LockTypeOK, States
<1>5. wr = 0
  BY DEF LockExact, LockTypeOK
<1>6. Cardinality(Having("rd") \ {c}) = Cardinality(Having("rd")) - 1
  BY <1>3, FiniteHaving, FS_RemoveElement
<1>7. LockExact'
  BY <1>1, <1>3, <1>5, <1>6 DEF LockExact
<1>8. QueueSane'
  <2>1. \A k \in 1..Len(run) : run[k] \in Clients /\ run[k] # c
    BY DEF QueueSane, LockTypeOK
  <2>2. \A k \in 1..Len(waiters) : waiters[k] \in Clients /\ waiters[k] # c
    BY DEF QueueSane, LockTypeOK
  <2> QED  BY <1>1, <1>2, <2>1, <2>2 DEF QueueSane
<1>9. HeadHasReason'
  BY <1>1, <1>5 DEF HeadHasReason, LockTypeOK
<1> QED  BY <1>1, <1>2, <1>4, <1>7, <1>8, <1>9

\* The unlock that leaves the lock free: the clients it collects, and nobody
\* else, are granted the lock.
LEMMA LastLeaves ==
    ASSUME LockInv, NEW c \in Clients, st[c] = "own", ~(mode[c] = "rd" /\ rd > 1), Free(c)
    PROVE  /\ Collected \in 0..Len(waiters)
           /\ \A k \in 1..Len(waiters) : waiters[k] \in Clients /\ waiters[k] # c
           /\ \A x \in Clients : st'[x] = IF \E k \in 1..Collected : waiters[k] = x
                                            THEN "granted" ELSE IF x = c THEN "out" ELSE st[x]
           /\ \A x \in Clients : st'[x] \in {"granted", "own"}
                                   <=> \E k \in 1..Collected : waiters[k] = x
           /\ waiters' = SubSeq(waiters, Collected + 1, Len(waiters))
           /\ run' = SubSeq(waiters, 1, Collected)
<1> USE DEF LockInv
<1> DEFINE n == Collected
<1>1. n \in 0..Len(waiters)
  BY CollectedPrefix
<1>2. /\ st' = [x \in Clients |-> IF \E k \in 1..n : waiters[k] = x THEN "granted"
                                  ELSE IF x = c THEN "out" ELSE st[x]]
      /\ waiters' = SubSeq(waiters, n + 1, Len(waiters))
      /\ run' = run \o SubSeq(waiters, 1, n)
  BY DEF Free
<1> HIDE DEF n
<1>3. waiters \in Seq(Clients) /\ Len(waiters) \in Nat
  BY DEF LockTypeOK
<1>4. \A k \in 1..Len(waiters) : waiters[k] \in Clients /\ waiters[k] # c
  BY <1>3 DEF QueueSane
<1>5. SubSeq(waiters, 1, n) \in Seq(Clients)
  BY <1>1, <1>3, SubSeqProperties
<1>6. run' = SubSeq(waiters, 1, n)
  BY <1>2, <1>5, LastOwner, ConcatEmptySeq
<1>7. \A x \in Clients : st'[x] = IF \E k \in 1..n : waiters[k] = x THEN "granted"
                                   ELSE IF x = c THEN "out" ELSE st[x]
  BY <1>2
<1>8. \A x \in Clients : st'[x] \in {"granted", "own"} <=> \E k \in 1..n : waiters[k] = x
  BY <1>7, LastOwner
<1> QED  BY <1>1, <1>2, <1>4, <1>6, <1>7, <1>8 DEF n

LEMMA LastLeavesInv ==
    ASSUME LockInv, NEW c \in Clients, st[c] = "own", ~(mode[c] = "rd" /\ rd > 1), Free(c)
    PROVE  LockInv' /\ (QueuedWaits => QueuedWaits')
<1> USE DEF LockInv
<1> DEFINE n == Collected
           writer == n > 0 /\ mode[waiters[1]] = "wr"
           T == {x \in Clients : \E k \in 1..n : waiters[k] = x}
<1>1. /\ rd' = (IF writer THEN 0 ELSE n) /\ wr' = (IF writer THEN 1 ELSE 0)
      /\ mode' = mode
  BY DEF Free
<1>2. /\ n \in 0..Len(waiters)
      /\ \A k \in 1..Len(waiters) : waiters[k] \in Clients /\ waiters[k] # c
      /\ \A x \in Clients : st'[x] = IF \E k \in 1..n : waiters[k] = x THEN "granted"
                                      ELSE IF x = c THEN "out" ELSE st[x]
      /\ \A x \in Clients : st'[x] \in {"granted", "own"} <=> \E k \in 1..n : waiters[k] = x
      /\ waiters' = SubSeq(waiters, n + 1, Len(waiters))
      /\ run' = SubSeq(waiters, 1, n)
  BY LastLeaves
<1>3. /\ n = 0 => waiters = <<>>
      /\ ~writer => /\ \A k \in 1..n : mode[waiters[k]] = "rd"
                    /\ n < Len(waiters) => mode[waiters[n + 1]] = "wr"
      /\ writer => n = 1
  BY <1>2, CollectedPrefix
<1>4. st' \in [Clients -> States]
  BY <1>2 DEF Free, LockTypeOK, States
<1> HIDE DEF n
<1>5. waiters \in Seq(Clients) /\ Len(waiters) \in Nat
  BY DEF LockTypeOK
<1>6. /\ waiters' \in Seq(Clients) /\ Len(waiters') = Len(waiters) - n
      /\ \A k \in 1..Len(waiters') : waiters'[k] = waiters[k + n]
  BY <1>2, <1>5
<1>7. /\ run' \in Seq(Clients) /\ Len(run') = n
      /\ \A k \in 1..n : run'[k] = waiters[k]
  BY <1>2, <1>5
<1>8. LockTypeOK'
  BY <1>1, <1>2, <1>4, <1>6, <1>7 DEF LockTypeOK
<1>9. Cardinality(T) = n
  BY <1>2, <1>5, PrefixCount DEF QueueSane
<1>10. LockExact'
  <2>1. CASE writer
    <3>1. \A x \in T : mode[x] = "wr"
      BY <2>1, <1>3
    <3>2. Having("wr")' = T /\ Having("rd")' = {}
      BY <3>1, <1>1, <1>2 DEF Having
    <3> QED  BY <2>1, <3>2, <1>1, <1>3, <1>9, FS_EmptySet DEF LockExact
  <2>2. CASE ~writer
    <3>1. \A x \in T : mode[x] = "rd"
      BY <2>2, <1>3
    <3>2. Having("rd")' = T /\ Having("wr")' = {}
      BY <3>1, <1>1, <1>2 DEF Having
    <3> QED  BY <2>2, <3>2, <1>1, <1>9, FS_EmptySet DEF LockExact
  <2> QED  BY <2>1, <2>2
<1>11. QueueSane'
  <2>1. ASSUME NEW j \in 1..Len(waiters') PROVE st'[waiters'[j]] = "queued"
    <3>1. j + n \in 1..Len(waiters) /\ waiters'[j] = waiters[j + n] /\ j + n > n
      BY <1>2, <1>5, <1>6
    <3>2. ~\E k \in 1..n : waiters[k] = waiters[j + n]
      BY <3>1, <1>2, <1>5 DEF QueueSane
    <3>3. waiters[j + n] \in Clients /\ waiters[j + n] # c /\ st[waiters[j + n]] = "queued"
      BY <3>1, <1>2 DEF QueueSane
    <3>4. \A x \in Clients : x # c /\ (~\E k \in 1..n : waiters[k] = x) => st'[x] = st[x]
      BY <1>2
    <3>5. st'[waiters[j + n]] = "queued"
      BY <3>2, <3>3, <3>4
    <3> QED  BY <3>1, <3>5
  <2>2. \A j, k \in 1..Len(waiters') : waiters'[j] = waiters'[k] => j = k
    BY <1>2, <1>5, <1>6 DEF QueueSane
  <2>3. \A k \in 1..Len(run') : st'[run'[k]] = "granted"
    BY <1>2, <1>7
  <2>4. \A j, k \in 1..Len(run') : run'[j] = run'[k] => j = k
    BY <1>2, <1>5, <1>7 DEF QueueSane
  <2> QED  BY <2>1, <2>2, <2>3, <2>4 DEF QueueSane
<1>12. ASSUME QueuedWaits, NEW x \in Clients, st'[x] = "queued"
       PROVE  \E k \in 1..Len(waiters') : waiters'[k] = x
  <2>1. st[x] = "queued" /\ ~\E k \in 1..n : waiters[k] = x
    BY <1>2, <1>12
  <2>2. PICK k \in 1..Len(waiters) : waiters[k] = x
    BY <2>1, <1>12 DEF QueuedWaits
  <2>3. k - n \in 1..Len(waiters') /\ waiters'[k - n] = x
    BY <2>1, <2>2, <1>2, <1>5, <1>6
  <2> QED  BY <2>3
<1>13. HeadHasReason'
  <2> SUFFICES ASSUME waiters' # <<>>
               PROVE  wr' = 1 \/ (rd' > 0 /\ mode[waiters'[1]] = "wr")
    BY <1>1 DEF HeadHasReason
  <2>1. Len(waiters') # 0
    BY <1>6, EmptySeq
  <2>2. 1 \in 1..Len(waiters') /\ n < Len(waiters) /\ n > 0
    BY <2>1, <1>2, <1>3, <1>5, <1>6
  <2>3. waiters'[1] = waiters[n + 1]
    BY <2>2, <1>2, <1>6
  <2> QED  BY <2>2, <2>3, <1>1, <1>3
<1> QED  BY <1>8, <1>10, <1>11, <1>12, <1>13 DEF QueuedWaits

\* What an unlock does to the clients: its caller is out, and the only others
\* it touches are waiters that are granted the lock.
LEMMA FreeEffect ==
    ASSUME LockInv, NEW c \in Clients, st[c] = "own", Free(c)
    PROVE  /\ LockInv' /\ (QueuedWaits => QueuedWaits')
           /\ st'[c] = "out"
           /\ \A x \in Clients \ {c} :
                 st'[x] = st[x] \/ (st[x] = "queued" /\ st'[x] = "granted")
           /\ waiters = <<>> => /\ waiters' = <<>>
                                /\ \A x \in Clients \ {c} : st'[x] = st[x]
<1>1. CASE mode[c] = "rd" /\ rd > 1
  <2>1. st' = [st EXCEPT ![c] = "out"] /\ waiters' = waiters
    BY <1>1 DEF Free
  <2>2. st'[c] = "out" /\ \A x \in Clients \ {c} : st'[x] = st[x]
    BY <2>1 DEF LockInv, LockTypeOK
  <2>3. LockInv' /\ (QueuedWaits => QueuedWaits')
    BY <1>1, ReaderLeavesInv DEF QueuedWaits
  <2> QED  BY <2>1, <2>2, <2>3
<1>2. CASE ~(mode[c] = "rd" /\ rd > 1)
  <2> DEFINE n == Collected
  <2>1. /\ n \in 0..Len(waiters)
        /\ \A k \in 1..Len(waiters) : waiters[k] \in Clients /\ waiters[k] # c
        /\ \A x \in Clients : st'[x] = IF \E k \in 1..n : waiters[k] = x
                                        THEN "granted" ELSE IF x = c THEN "out" ELSE st[x]
        /\ waiters' = SubSeq(waiters, n + 1, Len(waiters))
    BY <1>2, LastLeaves
  <2> HIDE DEF n
  <2>2. waiters \in Seq(Clients) /\ Len(waiters) \in Nat
    BY DEF LockInv, LockTypeOK
  <2>3. \A k \in 1..Len(waiters) : st[waiters[k]] = "queued"
    BY DEF LockInv, QueueSane
  <2>4. \A k \in 1..n : k \in 1..Len(waiters)
    BY <2>1, <2>2
  <2>5. st'[c] = "out"
    BY <2>1, <2>4
  <2>6. \A x \in Clients \ {c} : st'[x] = st[x] \/ (st[x] = "queued" /\ st'[x] = "granted")
    BY <2>1, <2>3, <2>4
  <2>7. ASSUME waiters = <<>>
        PROVE  waiters' = <<>> /\ \A x \in Clients \ {c} : st'[x] = st[x]
    <3>1. Len(waiters) = 0 /\ n = 0
      BY <2>7, <2>1, <2>2
    <3>2. Len(waiters') = 0 /\ waiters' \in Seq(Clients)
      BY <3>1, <2>1, <2>2
    <3>3. \A x \in Clients \ {c} : st'[x] = st[x]
      BY <3>1, <2>1
    <3> QED  BY <3>2, <3>3, EmptySeq
  <2> QED  BY <1>2, <2>5, <2>6, <2>7, LastLeavesInv
<1> QED  BY <1>1, <1>2

-----------------------------------------------------------------------------
(* The lock by itself *)

LEMMA LockStutter ==
    ASSUME LockInv, UNCHANGED lockVars
    PROVE  LockInv' /\ (QueuedWaits => QueuedWaits')
BY DEF LockInv, LockTypeOK, LockExact, Having, QueueSane, QueuedWaits, HeadHasReason, lockVars

LEMMA LockNextInv ==
    LockInv /\ QueuedWaits /\ [LockNext]_lockVars => LockInv' /\ QueuedWaits'
<1> SUFFICES ASSUME LockInv, QueuedWaits, [LockNext]_lockVars
             PROVE  LockInv' /\ QueuedWaits'
  OBVIOUS
<1>1. CASE UNCHANGED lockVars
  BY <1>1, LockStutter
<1>2. ASSUME NEW c \in Clients, NEW m \in {"rd", "wr"}, Lock(c, m) \/ Trylock(c, m)
      PROVE  LockInv' /\ QueuedWaits'
  BY <1>2, TakeInv, EnqueueInv DEF Lock, Trylock, Take, QueuedWaits
<1>3. ASSUME NEW c \in Clients, Callback(c) PROVE LockInv' /\ QueuedWaits'
  BY <1>3, CalledInv DEF Callback, QueuedWaits
<1>4. ASSUME NEW c \in Clients, Unlock(c) PROVE LockInv' /\ QueuedWaits'
  BY <1>4, FreeEffect DEF Unlock
<1> QED  BY <1>1, <1>2, <1>3, <1>4 DEF LockNext

THEOREM LockInvariance == LockSpec => [](LockInv /\ QueuedWaits)
BY LockInitInv, LockNextInv, PTL DEF LockSpec

\* Whatever clients lock, try, and unlock: rd and wr count exactly the clients
\* that have the lock, a writer is alone, the queue holds exactly the
\* unanswered calls, and its head waits for somebody.
THEOREM LockIsSound == LockSpec => []LockSound
<1>1. LockInv /\ QueuedWaits => LockSound
  BY DEF LockInv, LockSound, QueueSane, QueuedWaits, QueueExact, LockTypeOK
<1> QED  BY <1>1, LockInvariance, PTL

\* Nobody is granted the lock before a client that queued earlier.
THEOREM LockIsFair == LockSpec => FirstComeFirstServed
<1> DEFINE Fair(c) == (st[c] \in {"out", "queued"} /\ st'[c] = "granted") =>
                         \A k \in 1..Len(waiters) :
                            \/ st'[waiters[k]] = "granted"
                            \/ \E j \in 1..k-1 : waiters[j] = c
<1>1. ASSUME LockInv, LockNext, NEW x \in Clients PROVE Fair(x)
  <2>1. ASSUME NEW c \in Clients, NEW m \in {"rd", "wr"}, st[c] = "out", Take(c, m) PROVE Fair(x)
    BY <1>1, <2>1, FreeMeansNoQueue DEF Take
  <2>2. ASSUME NEW c \in Clients, NEW m \in {"rd", "wr"}, Enqueue(c, m) PROVE Fair(x)
    BY <1>1, <2>2 DEF Enqueue, LockInv, LockTypeOK
  <2>3. ASSUME NEW c \in Clients, Callback(c) PROVE Fair(x)
    BY <1>1, <2>3 DEF Callback, LockInv, LockTypeOK
  <2>4. ASSUME NEW c \in Clients, st[c] = "own", mode[c] = "rd", rd > 1, Free(c) PROVE Fair(x)
    BY <1>1, <2>4, ReaderLeavesInv
  <2>5. ASSUME NEW c \in Clients, st[c] = "own", ~(mode[c] = "rd" /\ rd > 1), Free(c),
               st[x] \in {"out", "queued"}, st'[x] = "granted", NEW k \in 1..Len(waiters),
               st'[waiters[k]] # "granted"
        PROVE  \E j \in 1..k-1 : waiters[j] = x
    <3>1. PICK j \in 1..Collected : waiters[j] = x
      BY <1>1, <2>5, LastLeaves
    <3>2. Collected \in 0..Len(waiters) /\ Len(waiters) \in Nat /\ waiters[k] \in Clients
      BY <1>1, <2>5, LastLeaves DEF LockInv, LockTypeOK
    <3>3. k \notin 1..Collected
      BY <1>1, <2>5, <3>2, LastLeaves
    <3>4. j \in 1..k-1
      BY <3>2, <3>3
    <3> QED  BY <3>1, <3>4
  <2> QED
    BY <1>1, <2>1, <2>2, <2>3, <2>4, <2>5 DEF LockNext, Lock, Trylock, Unlock
<1>2. LockInv /\ [LockNext]_lockVars => [\A c \in Clients : Fair(c)]_lockVars
  BY <1>1
<1> QED  BY <1>2, LockInvariance, PTL DEF LockSpec, FirstComeFirstServed

=============================================================================
