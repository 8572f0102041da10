------------------------------- MODULE MCLocks -------------------------------
(***************************************************************************)
(* The locked structures of the data path, side by side: the cache line    *)
(* lock, and the hash table with its bucket and global locks.  The part    *)
(* named by `part` runs, the other one stays in its initial state.         *)
(***************************************************************************)
EXTENDS Alock, TLC

CONSTANTS r1, r2, r3, e1, e2

VARIABLES
    part,
    global, bucket, info, table, thr, begun

Call(m, mode) == [map |-> m, rw |-> mode]
MixedCalls == {Call(<<NoEntry, e1>>, "rd"), Call(<<e1, e2>>, "wr"), Call(<<e2, e1>>, "wr")}
OwnLists == [e \in Entries |-> e]

HASH == INSTANCE HashTable WITH
    NumHash <- 3, Entries <- 3, NumCore <- 5, Warm <- <<1, 4>>, MaxRd <- 1, NumGlobal <- 2,
    Reqs <- {"r1", "r2"}, LockIdx <- [r1 |-> 0, r2 |-> 1],
    Ranges <- {<<2, 2>>, <<0, 1>>, <<1, 4>>}, Managers <- {"m"}, MaxCalls <- 1,
    map <- table, calls <- begun

hashvars == <<global, bucket, info, table, thr, begun>>

MCInit == part \in {"alock", "hash"} /\ Init /\ HASH!Init

MCNext ==
    \/ part = "alock" /\ Next /\ UNCHANGED <<part, hashvars>>
    \/ part = "hash" /\ HASH!Next /\ UNCHANGED <<part, vars>>

(* The fairness of the part that runs. *)
MCFairness ==
    /\ \A r \in Reqs :
         /\ WF_vars(part = "alock" /\ Fast(r)) /\ WF_vars(part = "alock" /\ Slow(r))
         /\ WF_vars(part = "alock" /\ Release(r)) /\ SF_vars(part = "alock" /\ SlowStart(r))
    /\ \A t \in {"r1", "r2"} : WF_hashvars(part = "hash" /\ HASH!ReqStep(t))
    /\ WF_hashvars(part = "hash" /\ HASH!ManagerStep("m"))

MCSpec ==
    /\ MCInit /\ [][MCNext]_<<part, vars, hashvars>>
    /\ MCFairness

\* HashTable: bucket words are exact, working requests covered, exclusive access is
\* exclusive.
BucketsExact == part = "hash" => HASH!BucketsExact

\* HashTable: chains are sound and no core line is mapped by two cache lines.
TableSound == part = "hash" => HASH!TableSound

\* HashTable: a chain changes only under its bucket's write lock.
ChainsStand == [][part = "hash" => HASH!ChainsStandStep]_hashvars

\* Alock and HashTable: every lock call returns, and every request and manager that
\* asked for its buckets gets through.
CallsReturn == LockReturns /\ HASH!CallsEnd
==============================================================================
