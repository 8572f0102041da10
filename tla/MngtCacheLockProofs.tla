------------------------- MODULE MngtCacheLockProofs -------------------------
(***************************************************************************)
(* Proofs about the handle of a cache, for any finite set of clients.      *)
(*                                                                         *)
(* HandleInv is the inductive invariant.  To the exact references and the  *)
(* invariant of the lock it adds where each client and the lock stand      *)
(* towards one another, which step of the stop froze or armed which        *)
(* counter, and that a counter whose callback runs is zero: then nobody is *)
(* inside the lock functions, or nobody has a handle.                      *)
(***************************************************************************)
EXTENDS MngtCacheLock, AsyncLockProofs

\* A client in the queue is on the list of the lock, or of its destruction.
QueuedSomewhere ==
    /\ alive => failing = <<>> /\ QueuedWaits
    /\ ~alive => /\ waiters = <<>>
                 /\ \A c \in Clients : st[c] = "queued" =>
                                          \E k \in 1..Len(failing) : failing[k] = c
    /\ \A k \in 1..Len(failing) : st[failing[k]] = "queued"
    /\ \A j, k \in 1..Len(failing) : failing[j] = failing[k] => j = k

ClientsAgree == \A c \in Clients :
    /\ pc[c] \in {"own", "refuse"} <=> st[c] = "own"
    /\ pc[c] = "asked" <=> st[c] \in {"queued", "granted"}
    /\ pc[c] = "in" => c \in inside
    /\ c \in inside => pc[c] \notin {"out", "got"}

LockRefExact == lref.n = Cardinality(inside)

ZeroWhenFired ==
    /\ lref.cb \in {"fired", "done"} => lref.n = 0
    /\ cref.cb \in {"fired", "done"} => cref.n = 0

StopExact ==
    /\ stopping <=> step # "none"
    /\ listed <=> step \notin {"cmpl", "done"}
    /\ lref.frozen <=> step \notin {"none", "stop"}
    /\ lref.cb # "none" <=> step \notin {"none", "stop", "lfrozen"}
    /\ cref.frozen <=> step \in {"cfrozen", "carmed", "cmpl", "done"}
    /\ cref.cb # "none" <=> step \in {"carmed", "cmpl", "done"}
    /\ ~alive => lref.cb \in {"fired", "done"}
    /\ lref.cb = "done" => ~alive /\ failing = <<>>
    /\ freed => cref.cb = "done"

HandleInv ==
    /\ TypeOK
    /\ LockInv
    /\ QueuedSomewhere
    /\ ClientsAgree
    /\ LockRefExact
    /\ ZeroWhenFired
    /\ StopExact
    /\ OnlyStopperOwns
    /\ CacheRefExact

-----------------------------------------------------------------------------
(* Counting, and env_refcnt *)

\* One client in or out of a set of clients counts as one.
LEMMA OneClient ==
    ASSUME NEW S \in SUBSET Clients, NEW T \in SUBSET Clients, NEW c \in Clients,
           \A x \in Clients \ {c} : x \in S <=> x \in T
    PROVE  /\ Cardinality(S) \in Nat /\ Cardinality(T) \in Nat
           /\ Cardinality(T) + (IF c \in S THEN 1 ELSE 0)
                = Cardinality(S) + (IF c \in T THEN 1 ELSE 0)
           /\ c \in S => Cardinality(S) > 0
BY CountOne, ClientsAssumption

\* A client that goes to l counts as a handle and as a call as its places say.
LEMMA GotoCounts ==
    ASSUME TypeOK, NEW c \in Clients, NEW l \in PCs, Goto(c, l)
    PROVE  /\ pc' \in [Clients -> PCs] /\ pc'[c] = l
           /\ \A x \in Clients \ {c} : pc'[x] = pc[x]
           /\ Cardinality(Handles) \in Nat /\ Cardinality(Calls) \in Nat
           /\ Cardinality(Handles') \in Nat /\ Cardinality(Calls') \in Nat
           /\ Cardinality(Handles') + (IF pc[c] # "out" THEN 1 ELSE 0)
                = Cardinality(Handles) + (IF l # "out" THEN 1 ELSE 0)
           /\ Cardinality(Calls') + (IF pc[c] \in InCall THEN 1 ELSE 0)
                = Cardinality(Calls) + (IF l \in InCall THEN 1 ELSE 0)
<1>1. /\ pc' \in [Clients -> PCs] /\ pc'[c] = l
      /\ \A x \in Clients \ {c} : pc'[x] = pc[x]
  BY DEF Goto, TypeOK
<1>2. /\ Handles \in SUBSET Clients /\ Handles' \in SUBSET Clients
      /\ Calls \in SUBSET Clients /\ Calls' \in SUBSET Clients
  BY DEF Handles, Calls
<1>3. /\ \A x \in Clients \ {c} : x \in Handles <=> x \in Handles'
      /\ \A x \in Clients \ {c} : x \in Calls <=> x \in Calls'
  BY <1>1 DEF Handles, Calls
<1>4. /\ c \in Handles <=> pc[c] # "out"
      /\ c \in Handles' <=> l # "out"
      /\ c \in Calls <=> pc[c] \in InCall
      /\ c \in Calls' <=> l \in InCall
  BY <1>1 DEF Handles, Calls
<1>5. /\ Cardinality(Handles) \in Nat /\ Cardinality(Handles') \in Nat
      /\ Cardinality(Handles') + (IF pc[c] # "out" THEN 1 ELSE 0)
           = Cardinality(Handles) + (IF l # "out" THEN 1 ELSE 0)
  BY <1>2, <1>3, <1>4, OneClient
<1>6. /\ Cardinality(Calls) \in Nat /\ Cardinality(Calls') \in Nat
      /\ Cardinality(Calls') + (IF pc[c] \in InCall THEN 1 ELSE 0)
           = Cardinality(Calls) + (IF l \in InCall THEN 1 ELSE 0)
  BY <1>2, <1>3, <1>4, OneClient
<1> QED  BY <1>1, <1>5, <1>6

\* The operations of a counter, field by field.
LEMMA IncreasedFields ==
    ASSUME NEW r \in Counter
    PROVE  /\ Increased(r) \in Counter /\ r.n \in Nat
           /\ Increased(r).n = r.n + 1 /\ Increased(r).frozen = r.frozen
           /\ Increased(r).cb = r.cb
BY DEF Counter, Increased

LEMMA DecreasedFields ==
    ASSUME NEW r \in Counter, r.n > 0
    PROVE  /\ Decreased(r) \in Counter /\ r.n \in Nat
           /\ Decreased(r).n = r.n - 1 /\ Decreased(r).frozen = r.frozen
           /\ Decreased(r).cb = IF r.n = 1 /\ r.cb = "armed" THEN "fired" ELSE r.cb
<1>1. /\ Decreased(r).n = r.n - 1 /\ Decreased(r).frozen = r.frozen
      /\ Decreased(r).cb = IF r.n = 1 /\ r.cb = "armed" THEN "fired" ELSE r.cb
  BY DEF Counter, Decreased
<1>2. r.n - 1 \in Nat /\ r.n \in Nat
  BY DEF Counter
<1>3. Decreased(r) \in Counter
  <2>1. CASE r.n = 1 /\ r.cb = "armed"
    <3>1. Decreased(r) = [r EXCEPT !.n = @ - 1, !.cb = "fired"]
      BY <2>1 DEF Decreased
    <3> QED  BY <1>2, <3>1 DEF Counter
  <2>2. CASE ~(r.n = 1 /\ r.cb = "armed")
    <3>1. Decreased(r) = [r EXCEPT !.n = @ - 1]
      BY <2>2 DEF Decreased, Counter
    <3> QED  BY <1>2, <3>1 DEF Counter
  <2> QED  BY <2>1, <2>2
<1> QED  BY <1>1, <1>2, <1>3

LEMMA FrozenFields ==
    ASSUME NEW r \in Counter
    PROVE  /\ Frozen(r) \in Counter
           /\ Frozen(r).n = r.n /\ Frozen(r).frozen = TRUE /\ Frozen(r).cb = r.cb
BY DEF Counter, Frozen

LEMMA ArmedFields ==
    ASSUME NEW r \in Counter
    PROVE  /\ Armed(r) \in Counter
           /\ Armed(r).n = r.n /\ Armed(r).frozen = r.frozen
           /\ Armed(r).cb = IF r.n = 0 THEN "fired" ELSE "armed"
BY DEF Counter, Armed

-----------------------------------------------------------------------------
(* The actions *)

LEMMA InitHandleInv == Init => HandleInv
<1> SUFFICES ASSUME Init PROVE HandleInv
  OBVIOUS
<1>1. LockInv /\ QueuedWaits
  BY LockInitInv DEF Init
<1>2. Handles = {} /\ Calls = {}
  BY DEF Init, Handles, Calls, InCall
<1>3. TypeOK
  <2>1. cref \in Counter /\ lref \in Counter
    BY DEF Init, Counter
  <2>2. pc \in [Clients -> PCs] /\ how \in [Clients -> Hows] /\ step \in Steps
    BY DEF Init, PCs, Hows, Steps
  <2>3. failing \in Seq(Clients) /\ inside \subseteq Clients /\ kept \in Nat
        /\ stopper \in Clients \cup {NoClient}
    BY DEF Init
  <2>4. \A b \in {stopping, listed, alive, freed} : b \in BOOLEAN
    BY DEF Init
  <2> QED  BY <1>1, <2>1, <2>2, <2>3, <2>4 DEF TypeOK, LockInv
<1>4. QueuedSomewhere /\ ClientsAgree /\ ZeroWhenFired /\ StopExact /\ OnlyStopperOwns
  BY <1>1 DEF Init, LockInit, QueuedSomewhere, ClientsAgree, ZeroWhenFired, StopExact, OnlyStopperOwns
<1>5. LockRefExact /\ CacheRefExact
  BY <1>2, FS_EmptySet DEF Init, LockRefExact, CacheRefExact
<1> QED  BY <1>1, <1>3, <1>4, <1>5 DEF HandleInv

\* What leaves the lock and its end alone.
LEMMA LockFrame ==
    ASSUME HandleInv, UNCHANGED <<lockVars, alive, failing>>
    PROVE  LockInv' /\ QueuedSomewhere'
<1>1. LockInv' /\ (QueuedWaits => QueuedWaits')
  BY LockStutter DEF HandleInv
<1>2. QueuedSomewhere'
  BY <1>1 DEF HandleInv, QueuedSomewhere, lockVars
<1> QED  BY <1>1, <1>2

\* A reference of a counter is taken only while it is not frozen, for a handle
\* or for a call.
LEMMA GetInv ==
    ASSUME HandleInv, NEW c \in Clients, NEW l \in {"ref", "got"},
           pc[c] = (IF l = "ref" THEN "out" ELSE "ref"), c \notin inside,
           ~cref.frozen, cref' = Increased(cref), Goto(c, l), how' \in [Clients -> Hows],
           UNCHANGED <<lockVars, lref, inside, kept, stopVars>>
    PROVE  HandleInv'
<1> USE DEF HandleInv
<1>1. UNCHANGED <<stopping, listed, alive, freed, failing, stopper, step>>
  BY DEF stopVars
<1>2. LockInv' /\ QueuedSomewhere'
  BY <1>1, LockFrame
<1>3. cref \in Counter /\ lref \in Counter
  BY DEF TypeOK
<1>4. /\ cref' \in Counter /\ cref'.n = cref.n + 1 /\ cref'.frozen = cref.frozen
      /\ cref'.cb = cref.cb /\ cref.n \in Nat
  BY <1>3, IncreasedFields
<1>5. /\ pc' \in [Clients -> PCs] /\ pc'[c] = l
      /\ \A x \in Clients \ {c} : pc'[x] = pc[x]
  BY GotoCounts DEF PCs
<1>6. TypeOK'
  BY <1>1, <1>2, <1>4, <1>5 DEF TypeOK, LockInv
<1>7. ClientsAgree' /\ OnlyStopperOwns'
  BY <1>1, <1>5 DEF ClientsAgree, OnlyStopperOwns, lockVars
<1>8. LockRefExact' /\ ZeroWhenFired' /\ StopExact'
  BY <1>1, <1>4 DEF LockRefExact, ZeroWhenFired, StopExact
<1>9. CacheRefExact'
  <2>1. /\ Cardinality(Handles) \in Nat /\ Cardinality(Calls) \in Nat
        /\ Cardinality(Handles') \in Nat /\ Cardinality(Calls') \in Nat
        /\ Cardinality(Handles') = Cardinality(Handles) + (IF l = "ref" THEN 1 ELSE 0)
        /\ Cardinality(Calls') = Cardinality(Calls) + (IF l = "got" THEN 1 ELSE 0)
    BY GotoCounts DEF PCs, InCall
  <2>2. kept' = kept /\ kept \in Nat /\ lref' = lref
    BY DEF TypeOK
  <2> QED  BY <1>1, <1>4, <2>1, <2>2 DEF CacheRefExact
<1> QED  BY <1>2, <1>6, <1>7, <1>8, <1>9

\* ocf_mngt_cache_put, of a handle or at the end of a call.
LEMMA PutInv ==
    ASSUME HandleInv, NEW c \in Clients, NEW l \in {"ref", "out"},
           pc[c] = (IF l = "ref" THEN "put" ELSE "ref"), l = "out" => c \notin inside,
           cref' = Decreased(cref), Goto(c, l),
           UNCHANGED <<lockVars, lref, how, inside, kept, stopVars>>
    PROVE  HandleInv'
<1> USE DEF HandleInv
<1>1. UNCHANGED <<stopping, listed, alive, freed, failing, stopper, step>>
  BY DEF stopVars
<1>2. LockInv' /\ QueuedSomewhere'
  BY <1>1, LockFrame
<1>3. cref \in Counter /\ lref \in Counter
  BY DEF TypeOK
<1>4. /\ pc' \in [Clients -> PCs] /\ pc'[c] = l
      /\ \A x \in Clients \ {c} : pc'[x] = pc[x]
  BY GotoCounts DEF PCs
<1>5. /\ Cardinality(Handles) \in Nat /\ Cardinality(Calls) \in Nat
      /\ Cardinality(Handles') \in Nat /\ Cardinality(Calls') \in Nat
      /\ Cardinality(Handles') = Cardinality(Handles) - (IF l = "ref" THEN 0 ELSE 1)
      /\ Cardinality(Calls') = Cardinality(Calls) - (IF l = "ref" THEN 1 ELSE 0)
  BY GotoCounts DEF PCs, InCall
<1>6. cref.n > 0 /\ cref.n \in Nat
  BY <1>3, <1>5 DEF CacheRefExact, TypeOK, Counter
<1>7. /\ cref' \in Counter /\ cref'.n = cref.n - 1 /\ cref'.frozen = cref.frozen
      /\ cref'.cb = (IF cref.n = 1 /\ cref.cb = "armed" THEN "fired" ELSE cref.cb)
  BY <1>3, <1>6, DecreasedFields
<1>8. TypeOK'
  BY <1>1, <1>2, <1>4, <1>7 DEF TypeOK, LockInv
<1>9. ClientsAgree' /\ OnlyStopperOwns'
  BY <1>1, <1>4 DEF ClientsAgree, OnlyStopperOwns, lockVars
<1>10. LockRefExact' /\ ZeroWhenFired' /\ StopExact'
  BY <1>1, <1>6, <1>7 DEF LockRefExact, ZeroWhenFired, StopExact
<1>11. CacheRefExact'
  <2>1. kept' = kept /\ kept \in Nat /\ lref' = lref
    BY DEF TypeOK
  <2> QED  BY <1>1, <1>5, <1>6, <1>7, <2>1 DEF CacheRefExact
<1> QED  BY <1>2, <1>8, <1>9, <1>10, <1>11

\* A lock call takes its reference of refcnt.lock, or finds it frozen.
LEMMA EnterLockInv ==
    ASSUME HandleInv, NEW c \in Clients, EnterLock(c)
    PROVE  HandleInv'
<1> USE DEF HandleInv
<1>1. /\ UNCHANGED <<lockVars, cref, how, kept>>
      /\ UNCHANGED <<stopping, listed, alive, freed, failing, stopper, step>>
  BY DEF EnterLock, stopVars
<1>2. LockInv' /\ QueuedSomewhere'
  BY <1>1, LockFrame
<1>3. PICK l \in {"put", "in"} : Goto(c, l) /\ (l = "put" <=> lref.frozen)
  BY DEF EnterLock
<1>4. pc[c] = "got" /\ c \notin inside
  BY DEF EnterLock, ClientsAgree
<1>5. /\ pc' \in [Clients -> PCs] /\ pc'[c] = l
      /\ \A x \in Clients \ {c} : pc'[x] = pc[x]
  BY <1>3, GotoCounts DEF PCs
<1>6. Cardinality(Handles') = Cardinality(Handles) /\ Cardinality(Calls') = Cardinality(Calls)
  BY <1>3, <1>4, GotoCounts DEF PCs, InCall
<1>7. lref \in Counter /\ inside \in SUBSET Clients
  BY DEF TypeOK
<1>8. /\ inside' \in SUBSET Clients /\ (\A x \in Clients \ {c} : x \in inside' <=> x \in inside)
      /\ lref' \in Counter /\ lref'.frozen = lref.frozen /\ lref'.cb = lref.cb
      /\ l = "put" => inside' = inside /\ lref' = lref
      /\ l = "in" => inside' = inside \cup {c} /\ lref'.n = lref.n + 1
  <2>1. CASE lref.frozen
    BY <2>1, <1>3, <1>7 DEF EnterLock
  <2>2. CASE ~lref.frozen
    <3>1. lref' = Increased(lref) /\ inside' = inside \cup {c}
      BY <2>2 DEF EnterLock
    <3>2. /\ lref' \in Counter /\ lref'.n = lref.n + 1 /\ lref'.frozen = lref.frozen
          /\ lref'.cb = lref.cb
      BY <3>1, <1>7, IncreasedFields
    <3> QED  BY <2>2, <3>1, <3>2, <1>3, <1>7
  <2> QED  BY <2>1, <2>2
<1>9. LockRefExact'
  BY <1>4, <1>7, <1>8, OneClient DEF LockRefExact
<1>10. TypeOK'
  BY <1>1, <1>2, <1>5, <1>8 DEF TypeOK, LockInv
<1>11. ClientsAgree' /\ OnlyStopperOwns'
  BY <1>1, <1>4, <1>5, <1>8 DEF ClientsAgree, OnlyStopperOwns, lockVars
<1>12. StopExact'
  BY <1>1, <1>8 DEF StopExact
<1>13. ZeroWhenFired'
  BY <1>1, <1>3, <1>8 DEF ZeroWhenFired, StopExact
<1>14. CacheRefExact'
  BY <1>1, <1>6, <1>8 DEF CacheRefExact
<1> QED  BY <1>2, <1>9, <1>10, <1>11, <1>12, <1>13, <1>14

\* A lock call gives its reference of refcnt.lock back: at its end, or when it
\* could not allocate a waiter.
LEMMA LeaveInv ==
    ASSUME HandleInv, NEW c \in inside, NEW l \in PCs, Goto(c, l),
           IF pc[c] = "in" THEN l = "put" ELSE l = pc[c],
           lref' = Decreased(lref), inside' = inside \ {c},
           UNCHANGED <<lockVars, cref, how, kept, stopVars>>
    PROVE  HandleInv'
<1> USE DEF HandleInv
<1>1. UNCHANGED <<stopping, listed, alive, freed, failing, stopper, step>>
  BY DEF stopVars
<1>2. LockInv' /\ QueuedSomewhere'
  BY <1>1, LockFrame
<1>3. c \in Clients /\ lref \in Counter /\ inside \in SUBSET Clients /\ inside' \in SUBSET Clients
  BY DEF TypeOK
<1>4. /\ pc' \in [Clients -> PCs] /\ pc'[c] = l
      /\ \A x \in Clients \ {c} : pc'[x] = pc[x]
  BY <1>3, GotoCounts
<1>5. Cardinality(Handles') = Cardinality(Handles) /\ Cardinality(Calls') = Cardinality(Calls)
  BY <1>3, GotoCounts DEF InCall
<1>6. /\ Cardinality(inside) \in Nat /\ Cardinality(inside) > 0
      /\ Cardinality(inside') = Cardinality(inside) - 1
  BY <1>3, OneClient
<1>7. lref.n \in Nat /\ lref.n > 0
  BY <1>6 DEF LockRefExact
<1>8. /\ lref' \in Counter /\ lref'.n = lref.n - 1 /\ lref'.frozen = lref.frozen
      /\ lref'.cb = (IF lref.n = 1 /\ lref.cb = "armed" THEN "fired" ELSE lref.cb)
  BY <1>3, <1>7, DecreasedFields
<1>9. LockRefExact'
  BY <1>6, <1>8 DEF LockRefExact
<1>10. TypeOK'
  BY <1>1, <1>2, <1>3, <1>4, <1>8 DEF TypeOK, LockInv
<1>11. ClientsAgree' /\ OnlyStopperOwns'
  BY <1>1, <1>3, <1>4 DEF ClientsAgree, OnlyStopperOwns, lockVars
<1>12. lref.cb \notin {"fired", "done"}
  BY <1>7 DEF ZeroWhenFired
<1>13. StopExact' /\ ZeroWhenFired'
  BY <1>1, <1>7, <1>8, <1>12 DEF StopExact, ZeroWhenFired
<1>14. CacheRefExact'
  BY <1>1, <1>5, <1>8, <1>12 DEF CacheRefExact
<1> QED  BY <1>2, <1>9, <1>10, <1>11, <1>13, <1>14

\* A step of a call inside the lock, once the lock's part is known.
LEMMA InLockInv ==
    ASSUME HandleInv, NEW c \in Clients, NEW l \in PCs, Goto(c, l),
           pc[c] \in InCall, l \in InCall \cup {"ref"}, l # "got",
           kept' = (IF l = "ref" THEN kept + 1 ELSE kept), l = "own" => ~stopping,
           how' \in [Clients -> Hows],
           UNCHANGED <<cref, lref, inside, stopVars>>,
           LockInv', QueuedSomewhere', ClientsAgree'
    PROVE  HandleInv'
<1> USE DEF HandleInv
<1>1. UNCHANGED <<stopping, listed, alive, freed, failing, stopper, step>>
  BY DEF stopVars
<1>2. /\ pc' \in [Clients -> PCs] /\ pc'[c] = l
      /\ \A x \in Clients \ {c} : pc'[x] = pc[x]
  BY GotoCounts
<1>3. /\ Cardinality(Handles') = Cardinality(Handles) /\ Cardinality(Handles) \in Nat
      /\ Cardinality(Calls') = Cardinality(Calls) - (IF l = "ref" THEN 1 ELSE 0)
      /\ Cardinality(Calls') \in Nat /\ Cardinality(Calls) \in Nat
  BY GotoCounts DEF InCall
<1>4. kept \in Nat /\ kept' \in Nat
  BY DEF TypeOK
<1>5. TypeOK'
  BY <1>1, <1>2, <1>4 DEF TypeOK, LockInv
<1>6. OnlyStopperOwns'
  BY <1>1, <1>2 DEF OnlyStopperOwns
<1>7. LockRefExact' /\ ZeroWhenFired' /\ StopExact'
  BY <1>1 DEF LockRefExact, ZeroWhenFired, StopExact
<1>8. CacheRefExact'
  BY <1>1, <1>3, <1>4 DEF CacheRefExact
<1> QED  BY <1>5, <1>6, <1>7, <1>8

\* The queue and the list of the destruction, under a step of a lock function.
LEMMA QueueStays ==
    ASSUME HandleInv, UNCHANGED <<alive, failing>>, alive => QueuedWaits',
           ~alive => /\ waiters' = <<>>
                     /\ \A x \in Clients : st'[x] = "queued" <=> st[x] = "queued"
    PROVE  QueuedSomewhere'
<1> USE DEF HandleInv
<1>1. CASE alive
  BY <1>1 DEF QueuedSomewhere
<1>2. CASE ~alive
  <2>1. failing \in Seq(Clients)
    BY DEF TypeOK
  <2>2. \A k \in 1..Len(failing) : failing[k] \in Clients
    BY <2>1
  <2> QED  BY <1>2, <2>2 DEF QueuedSomewhere
<1> QED  BY <1>1, <1>2

\* A client inside lock_fn or trylock_fn keeps the lock alive.
LEMMA InsideKeepsAlive ==
    ASSUME HandleInv, NEW c \in Clients, pc[c] = "in"
    PROVE  alive /\ QueuedWaits /\ st[c] = "out"
<1> USE DEF HandleInv
<1>1. c \in inside /\ inside \in SUBSET Clients
  BY DEF ClientsAgree, TypeOK
<1>2. lref.n \in Nat /\ lref.n > 0
  BY <1>1, OneClient DEF LockRefExact
<1>3. alive
  BY <1>2 DEF StopExact, ZeroWhenFired, TypeOK
<1>4. st[c] \in States /\ st[c] # "own" /\ st[c] \notin {"queued", "granted"}
  BY DEF ClientsAgree, TypeOK, LockTypeOK
<1> QED  BY <1>3, <1>4 DEF QueuedSomewhere, States

LEMMA TakenInv ==
    ASSUME HandleInv, NEW c \in Clients, NEW m \in Modes, pc[c] = "in",
           Take(c, m) \/ Enqueue(c, m), Goto(c, "asked"),
           how' \in [Clients -> Hows], UNCHANGED <<cref, lref, inside, kept, stopVars>>
    PROVE  HandleInv'
<1> USE DEF HandleInv
<1>1. alive /\ QueuedWaits /\ st[c] = "out" /\ m \in {"rd", "wr"}
  BY InsideKeepsAlive, UseAssumption
<1>2. LockInv' /\ QueuedWaits' /\ st'[c] \in {"queued", "granted"}
      /\ \A x \in Clients \ {c} : st'[x] = st[x]
  <2>1. CASE Take(c, m)
    <3>1. LockInv' /\ \A x \in Clients : st'[x] = "queued" <=> st[x] = "queued"
      BY <2>1, <1>1, TakeInv
    <3>2. waiters' = waiters /\ st' = [st EXCEPT ![c] = "granted"] /\ st \in [Clients -> States]
      BY <2>1 DEF Take, TypeOK, LockTypeOK
    <3>3. QueuedWaits'
      BY <3>1, <3>2, <1>1 DEF QueuedWaits
    <3> QED  BY <3>1, <3>2, <3>3
  <2>2. CASE Enqueue(c, m)
    <3>1. LockInv' /\ QueuedWaits'
      BY <2>2, <1>1, EnqueueInv
    <3>2. st' = [st EXCEPT ![c] = "queued"] /\ st \in [Clients -> States]
      BY <2>2 DEF Enqueue, TypeOK, LockTypeOK
    <3> QED  BY <3>1, <3>2
  <2> QED  BY <2>1, <2>2
<1>3. QueuedSomewhere'
  BY <1>1, <1>2, QueueStays DEF stopVars
<1>4. /\ pc'[c] = "asked" /\ \A x \in Clients \ {c} : pc'[x] = pc[x]
  BY GotoCounts DEF PCs
<1>5. ClientsAgree'
  BY <1>2, <1>4 DEF ClientsAgree
<1> QED  BY <1>2, <1>3, <1>5, InLockInv DEF PCs, InCall

LEMMA LockFnInv ==
    ASSUME HandleInv, NEW c \in Clients, NEW m \in Modes, LockFn(c, m) \/ TrylockFn(c, m)
    PROVE  HandleInv'
<1> USE DEF HandleInv
<1>1. how \in [Clients -> Hows]
  BY DEF TypeOK
<1>2. CASE LockFn(c, m)
  <2>1. how' \in [Clients -> Hows]
    BY <1>1, <1>2 DEF LockFn, Hows
  <2> QED  BY <1>2, <2>1, TakenInv DEF LockFn
<1>3. CASE TrylockFn(c, m) /\ Take(c, m) /\ Goto(c, "asked")
  BY <1>1, <1>3, TakenInv DEF TrylockFn
<1>4. CASE TrylockFn(c, m) /\ Goto(c, "put") /\ UNCHANGED lockVars
  <2>1. LockInv' /\ QueuedSomewhere'
    BY <1>4, LockFrame DEF TrylockFn, stopVars
  <2>2. /\ pc'[c] = "put" /\ \A x \in Clients \ {c} : pc'[x] = pc[x]
    BY <1>4, GotoCounts DEF PCs
  <2>3. ClientsAgree'
    BY <1>4, <2>2 DEF ClientsAgree, TrylockFn, lockVars
  <2>4. /\ UNCHANGED <<cref, lref, how, inside, kept, stopVars>> /\ pc[c] = "in"
    BY <1>4 DEF TrylockFn
  <2> QED  BY <1>1, <1>4, <2>1, <2>3, <2>4, InLockInv DEF PCs, InCall
<1> QED  BY <1>2, <1>3, <1>4 DEF TrylockFn

LEMMA AnswerInv ==
    ASSUME HandleInv, NEW c \in Clients, Answer(c)
    PROVE  HandleInv'
<1> USE DEF HandleInv
<1>1. /\ pc[c] = "asked" /\ st \in [Clients -> States] /\ st' = [st EXCEPT ![c] = "own"]
      /\ UNCHANGED <<rd, wr, waiters, mode, cref, lref, inside, kept, stopVars>>
  BY DEF Answer, TypeOK, LockTypeOK
<1>2. LockInv' /\ \A x \in Clients : st'[x] = "queued" <=> st[x] = "queued"
  BY <1>1, CalledInv DEF Answer
<1>3. QueuedWaits => QueuedWaits'
  BY <1>1, <1>2 DEF QueuedWaits
<1>4. QueuedSomewhere'
  <2>1. UNCHANGED <<alive, failing>>
    BY <1>1 DEF stopVars
  <2>2. alive => QueuedWaits'
    BY <1>3 DEF QueuedSomewhere
  <2>3. ~alive => waiters' = <<>>
    BY <1>1 DEF QueuedSomewhere
  <2> QED  BY <1>2, <2>1, <2>2, <2>3, QueueStays
<1>5. PICK l \in {"own", "refuse"} : Goto(c, l) /\ (l = "own" => ~stopping)
  BY DEF Answer
<1>6. how' \in [Clients -> Hows]
  BY DEF Answer, TypeOK, Hows
<1>7. l \in PCs /\ l \in InCall /\ l # "got" /\ l # "ref" /\ pc[c] \in InCall
  BY <1>1, <1>5 DEF PCs, InCall
<1>8. pc'[c] = l /\ \A x \in Clients \ {c} : pc'[x] = pc[x]
  BY <1>5, <1>7, GotoCounts
<1>9. ClientsAgree'
  BY <1>1, <1>5, <1>8 DEF ClientsAgree
<1> QED  BY <1>1, <1>2, <1>4, <1>5, <1>6, <1>7, <1>9, InLockInv

\* An unlock: of an owner, or of a grant the stop refuses.
LEMMA FreedInv ==
    ASSUME HandleInv, NEW c \in Clients, pc[c] \in {"own", "refuse"}, Free(c),
           NEW l \in {"put", "ref"}, Goto(c, l), kept' = (IF l = "ref" THEN kept + 1 ELSE kept),
           UNCHANGED <<cref, lref, how, inside, stopVars>>
    PROVE  HandleInv'
<1> USE DEF HandleInv
<1>1. st[c] = "own"
  BY DEF ClientsAgree
<1>2. /\ LockInv' /\ (QueuedWaits => QueuedWaits')
      /\ st'[c] = "out"
      /\ \A x \in Clients \ {c} :
            st'[x] = st[x] \/ (st[x] = "queued" /\ st'[x] = "granted")
      /\ waiters = <<>> => /\ waiters' = <<>>
                           /\ \A x \in Clients \ {c} : st'[x] = st[x]
  BY <1>1, FreeEffect
<1>3. QueuedSomewhere'
  <2>1. UNCHANGED <<alive, failing>>
    BY DEF stopVars
  <2>2. alive => QueuedWaits'
    BY <1>2 DEF QueuedSomewhere
  <2>3. ~alive => /\ waiters' = <<>>
                  /\ \A x \in Clients : st'[x] = "queued" <=> st[x] = "queued"
    BY <1>1, <1>2 DEF QueuedSomewhere
  <2> QED  BY <2>1, <2>2, <2>3, QueueStays
<1>4. l \in PCs /\ l \in InCall \cup {"ref"} /\ l # "got" /\ l # "own" /\ pc[c] \in InCall
  BY DEF PCs, InCall
<1>5. pc'[c] = l /\ \A x \in Clients \ {c} : pc'[x] = pc[x]
  BY <1>4, GotoCounts
<1>6. ClientsAgree'
  BY <1>2, <1>5 DEF ClientsAgree
<1>7. how' \in [Clients -> Hows]
  BY DEF TypeOK
<1> QED  BY <1>2, <1>3, <1>4, <1>6, <1>7, InLockInv

LEMMA UnlockInv ==
    ASSUME HandleInv, NEW c \in Clients, Refuse(c) \/ UnlockCache(c)
    PROVE  HandleInv'
<1>1. CASE Refuse(c)
  <2> DEFINE l == IF how[c] = "try" THEN "ref" ELSE "put"
  <2>1. l \in {"put", "ref"} /\ Goto(c, l) /\ kept' = (IF l = "ref" THEN kept + 1 ELSE kept)
    BY <1>1 DEF Refuse
  <2>2. pc[c] = "refuse" /\ Free(c) /\ UNCHANGED <<cref, lref, how, inside, stopVars>>
    BY <1>1 DEF Refuse
  <2> HIDE DEF l
  <2> QED  BY <2>1, <2>2, FreedInv
<1>2. CASE UnlockCache(c)
  BY <1>2, FreedInv DEF UnlockCache
<1> QED  BY <1>1, <1>2

-----------------------------------------------------------------------------
(* The stop and the zero callbacks *)

\* What a step of the stop or of a callback leaves alone.
LEMMA StopFrame ==
    ASSUME HandleInv, UNCHANGED <<lockVars, clientVars, alive, failing>>,
           lref' \in Counter, lref'.n = lref.n
    PROVE  /\ LockInv' /\ QueuedSomewhere' /\ ClientsAgree' /\ LockRefExact'
           /\ Handles' = Handles /\ Calls' = Calls
           /\ Cardinality(Handles) \in Nat /\ Cardinality(Calls) \in Nat
           /\ (/\ cref' \in Counter
               /\ \A b \in {stopping', listed', freed'} : b \in BOOLEAN
               /\ stopper' \in Clients \cup {NoClient} /\ step' \in Steps) => TypeOK'
<1> USE DEF HandleInv
<1>1. UNCHANGED <<pc, how, inside, kept>>
  BY DEF clientVars
<1>2. LockInv' /\ QueuedSomewhere'
  BY LockFrame
<1>3. ClientsAgree' /\ LockRefExact'
  BY <1>1 DEF ClientsAgree, LockRefExact, lockVars
<1>4. Handles' = Handles /\ Calls' = Calls
  BY <1>1 DEF Handles, Calls
<1>5. Cardinality(Handles) \in Nat /\ Cardinality(Calls) \in Nat
  <2>1. Handles \in SUBSET Clients /\ Calls \in SUBSET Clients
    BY DEF Handles, Calls
  <2> QED  BY <2>1, ClientsAssumption, FS_Subset, FS_CardinalityType
<1>6. (/\ cref' \in Counter
       /\ \A b \in {stopping', listed', freed'} : b \in BOOLEAN
       /\ stopper' \in Clients \cup {NoClient} /\ step' \in Steps) => TypeOK'
  BY <1>1, <1>2 DEF TypeOK, LockInv
<1> QED  BY <1>2, <1>3, <1>4, <1>5, <1>6

LEMMA StopBeginsInv ==
    ASSUME HandleInv, StopFailed \/ \E c \in Clients : Stop(c)
    PROVE  HandleInv'
<1> USE DEF HandleInv
<1>1. /\ UNCHANGED <<lockVars, cref, lref, clientVars, listed, alive, freed, failing>>
      /\ lref \in Counter /\ cref \in Counter
  BY DEF Stop, StopFailed, TypeOK
<1>2. /\ stopping' \in BOOLEAN /\ stopper' \in Clients \cup {NoClient} /\ step' \in Steps
      /\ step \in {"none", "stop"} /\ step' \in {"none", "stop"}
      /\ stopping' <=> step' # "none"
  BY DEF Stop, StopFailed, Steps
<1>3. listed \in BOOLEAN /\ freed \in BOOLEAN
  BY DEF TypeOK
<1>4. /\ TypeOK' /\ LockInv' /\ QueuedSomewhere' /\ ClientsAgree' /\ LockRefExact'
      /\ Handles' = Handles /\ Calls' = Calls
  BY <1>1, <1>2, <1>3, StopFrame
<1>5. ZeroWhenFired' /\ StopExact'
  BY <1>1, <1>2 DEF ZeroWhenFired, StopExact
<1>6. CacheRefExact'
  BY <1>1, <1>2, <1>4 DEF CacheRefExact, clientVars
<1>7. OnlyStopperOwns'
  <2>1. CASE StopFailed
    BY <2>1 DEF StopFailed, OnlyStopperOwns
  <2>2. ASSUME NEW c \in Clients, Stop(c)
        PROVE  OnlyStopperOwns'
    <3>1. pc[c] = "own" /\ mode[c] = "wr" /\ stopper' = c /\ pc' = pc
      BY <2>2 DEF Stop, clientVars
    <3>2. st[c] = "own"
      BY <3>1 DEF ClientsAgree
    <3>3. \A x \in Clients : st[x] \in {"granted", "own"} => x = c
      BY <3>1, <3>2, LastOwner
    <3> QED  BY <3>1, <3>3 DEF OnlyStopperOwns, ClientsAgree
  <2> QED  BY <2>1, <2>2
<1> QED  BY <1>4, <1>5, <1>6, <1>7

LEMMA StopStepInv ==
    ASSUME HandleInv, StopStep
    PROVE  HandleInv'
<1> USE DEF HandleInv
<1>1. /\ UNCHANGED <<lockVars, clientVars, stopping, alive, freed, failing, stopper>>
      /\ step \notin {"none", "done"} /\ step' \notin {"none", "stop"}
  BY DEF StopStep, LockFreeze, LockArm, CacheFreeze, CacheArm, Unlist, FinalPut
<1>2. /\ lref \in Counter /\ cref \in Counter /\ listed \in BOOLEAN /\ freed \in BOOLEAN
      /\ stopping \in BOOLEAN /\ stopper \in Clients \cup {NoClient} /\ step \in Steps
      /\ kept \in Nat /\ kept' = kept
  BY <1>1 DEF TypeOK, clientVars
<1>3. OnlyStopperOwns'
  BY <1>1 DEF OnlyStopperOwns, clientVars
<1>4. ASSUME lref' \in Counter, lref'.n = lref.n, cref' \in Counter, listed' \in BOOLEAN,
             step' \in Steps, ZeroWhenFired', StopExact',
             cref'.n - (IF step' = "done" THEN 0 ELSE 1)
                     - (IF step' \in {"none", "stop"} \/ lref'.cb = "done" THEN 0 ELSE 1)
               = cref.n - (IF step = "done" THEN 0 ELSE 1)
                     - (IF step \in {"none", "stop"} \/ lref.cb = "done" THEN 0 ELSE 1)
      PROVE  HandleInv'
  <2>1. /\ TypeOK' /\ LockInv' /\ QueuedSomewhere' /\ ClientsAgree' /\ LockRefExact'
        /\ Handles' = Handles /\ Calls' = Calls
        /\ Cardinality(Handles) \in Nat /\ Cardinality(Calls) \in Nat
    BY <1>1, <1>2, <1>4, StopFrame
  <2>2. cref.n \in Nat /\ cref'.n \in Nat
    BY <1>2, <1>4 DEF Counter
  <2>3. CacheRefExact'
    BY <1>2, <1>4, <2>1, <2>2 DEF CacheRefExact
  <2> QED  BY <1>3, <1>4, <2>1, <2>3
<1>5. cref.n \in Nat /\ lref.n \in Nat /\ cref.cb \in {"none", "armed", "fired", "done"}
  BY <1>2 DEF Counter
<1>6. CASE LockFreeze
  <2>1. /\ cref' \in Counter /\ cref'.n = cref.n + 1 /\ cref'.frozen = cref.frozen
        /\ cref'.cb = cref.cb
        /\ lref' \in Counter /\ lref'.n = lref.n /\ lref'.frozen = TRUE /\ lref'.cb = lref.cb
        /\ step = "stop" /\ step' = "lfrozen" /\ listed' = listed
    BY <1>2, <1>6, IncreasedFields, FrozenFields DEF LockFreeze
  <2>2. lref.cb = "none" /\ cref.cb = "none"
    BY <2>1 DEF StopExact
  <2>3. ZeroWhenFired' /\ StopExact'
    BY <1>1, <2>1, <2>2 DEF ZeroWhenFired, StopExact
  <2> QED  BY <1>2, <1>4, <1>5, <2>1, <2>2, <2>3 DEF Steps
<1>7. CASE LockArm
  <2>1. /\ lref' \in Counter /\ lref'.n = lref.n /\ lref'.frozen = lref.frozen
        /\ lref'.cb = (IF lref.n = 0 THEN "fired" ELSE "armed")
        /\ step = "lfrozen" /\ step' = "larmed" /\ listed' = listed /\ cref' = cref
    BY <1>2, <1>7, ArmedFields DEF LockArm
  <2>2. lref.cb = "none" /\ alive
    BY <2>1 DEF StopExact
  <2>3. ZeroWhenFired' /\ StopExact'
    BY <1>1, <2>1, <2>2 DEF ZeroWhenFired, StopExact
  <2> QED  BY <1>2, <1>4, <1>5, <2>1, <2>2, <2>3 DEF Steps
<1>8. CASE CacheFreeze
  <2>1. /\ cref' \in Counter /\ cref'.n = cref.n /\ cref'.frozen = TRUE /\ cref'.cb = cref.cb
        /\ step = "larmed" /\ step' = "cfrozen" /\ listed' = listed /\ lref' = lref
    BY <1>2, <1>8, FrozenFields DEF CacheFreeze
  <2>2. ZeroWhenFired' /\ StopExact'
    BY <1>1, <2>1 DEF ZeroWhenFired, StopExact
  <2> QED  BY <1>2, <1>4, <1>5, <2>1, <2>2 DEF Steps
<1>9. CASE CacheArm
  <2>1. /\ cref' \in Counter /\ cref'.n = cref.n /\ cref'.frozen = cref.frozen
        /\ cref'.cb = (IF cref.n = 0 THEN "fired" ELSE "armed")
        /\ step = "cfrozen" /\ step' = "carmed" /\ listed' = listed /\ lref' = lref
    BY <1>2, <1>9, ArmedFields DEF CacheArm
  <2>2. ZeroWhenFired' /\ StopExact'
    BY <1>1, <2>1 DEF ZeroWhenFired, StopExact
  <2> QED  BY <1>2, <1>4, <1>5, <2>1, <2>2 DEF Steps
<1>10. CASE Unlist
  <2>1. step = "carmed" /\ step' = "cmpl" /\ listed' = FALSE /\ lref' = lref /\ cref' = cref
    BY <1>10 DEF Unlist
  <2>2. ZeroWhenFired' /\ StopExact'
    BY <1>1, <2>1 DEF ZeroWhenFired, StopExact
  <2> QED  BY <1>2, <1>4, <1>5, <2>1, <2>2 DEF Steps
<1>11. CASE FinalPut
  <2>1. step = "cmpl" /\ step' = "done" /\ listed' = listed /\ lref' = lref
        /\ cref' = Decreased(cref)
    BY <1>11 DEF FinalPut
  <2>2. Cardinality(Handles) \in Nat /\ Cardinality(Calls) \in Nat
    BY <1>1, <1>2, <2>1, StopFrame
  <2>3. cref.n > 0
    BY <1>2, <1>5, <2>1, <2>2 DEF CacheRefExact
  <2>4. cref.cb = "armed"
    BY <1>5, <2>1, <2>3 DEF ZeroWhenFired, StopExact
  <2>5. /\ cref' \in Counter /\ cref'.n = cref.n - 1 /\ cref'.frozen = cref.frozen
        /\ cref'.cb = (IF cref.n = 1 THEN "fired" ELSE "armed")
    BY <1>2, <2>1, <2>3, <2>4, DecreasedFields
  <2>6. ZeroWhenFired' /\ StopExact'
    BY <1>1, <1>5, <2>1, <2>4, <2>5 DEF ZeroWhenFired, StopExact
  <2> QED  BY <1>2, <1>4, <1>5, <2>1, <2>5, <2>6 DEF Steps
<1> QED  BY <1>6, <1>7, <1>8, <1>9, <1>10, <1>11 DEF StopStep

\* The lock is destroyed with nobody inside its functions: the queue becomes
\* the list of the waiters to fail.
LEMMA LockDeinitInv ==
    ASSUME HandleInv, LockDeinit
    PROVE  HandleInv'
<1> USE DEF HandleInv
<1>1. /\ lref.cb = "fired" /\ alive /\ ~alive' /\ alive' \in BOOLEAN
      /\ failing' = waiters /\ waiters' = <<>>
      /\ UNCHANGED <<rd, wr, run, st, mode, cref, lref, pc, how, inside, kept>>
      /\ UNCHANGED <<stopping, listed, freed, stopper, step>>
  BY DEF LockDeinit, clientVars
<1>2. waiters \in Seq(Clients) /\ waiters' \in Seq(Clients)
  BY <1>1 DEF TypeOK, LockTypeOK
<1>3. LockInv'
  <2>1. LockTypeOK' /\ LockExact'
    BY <1>1, <1>2 DEF LockInv, LockTypeOK, LockExact, Having
  <2>2. HeadHasReason'
    BY <1>1 DEF HeadHasReason
  <2>3. QueueSane'
    BY <1>1 DEF LockInv, QueueSane
  <2> QED  BY <2>1, <2>2, <2>3 DEF LockInv
<1>4. QueuedSomewhere'
  BY <1>1 DEF LockInv, QueueSane, QueuedWaits, QueuedSomewhere
<1>5. TypeOK'
  BY <1>1, <1>2, <1>3 DEF TypeOK, LockInv
<1>6. ClientsAgree' /\ LockRefExact' /\ ZeroWhenFired' /\ OnlyStopperOwns'
  BY <1>1 DEF ClientsAgree, LockRefExact, ZeroWhenFired, OnlyStopperOwns
<1>7. StopExact'
  BY <1>1 DEF StopExact
<1>8. CacheRefExact'
  <2>1. Handles' = Handles /\ Calls' = Calls
    BY <1>1 DEF Handles, Calls
  <2> QED  BY <1>1, <2>1 DEF CacheRefExact
<1> QED  BY <1>3, <1>4, <1>5, <1>6, <1>7, <1>8

\* One waiter of the destroyed lock is told that it failed.
LEMMA FailWaiterInv ==
    ASSUME HandleInv, FailWaiter
    PROVE  HandleInv'
<1> USE DEF HandleInv
<1> DEFINE h == Head(failing)
<1>1. /\ failing # <<>> /\ failing' = Tail(failing) /\ st' = [st EXCEPT ![h] = "out"]
      /\ Goto(h, "ref") /\ cref' = Decreased(cref)
      /\ UNCHANGED <<rd, wr, waiters, run, mode, lref, how, inside, kept>>
      /\ UNCHANGED <<stopping, listed, alive, freed, stopper, step>>
  BY DEF FailWaiter
<1>2. /\ failing \in Seq(Clients) /\ st \in [Clients -> States] /\ cref \in Counter
      /\ run \in Seq(Clients) /\ waiters \in Seq(Clients) /\ kept \in Nat
  BY DEF TypeOK, LockTypeOK
<1>3. /\ h \in Clients /\ h = failing[1] /\ Len(failing) \in Nat /\ Len(failing) > 0
      /\ failing' \in Seq(Clients) /\ Len(failing') = Len(failing) - 1
      /\ \A k \in 1..Len(failing') : failing'[k] = failing[k + 1]
  BY <1>1, <1>2, HeadTailProperties
<1>4. st[h] = "queued" /\ ~alive /\ waiters = <<>>
  BY <1>1, <1>3 DEF QueuedSomewhere
<1>5. pc[h] = "asked"
  BY <1>3, <1>4 DEF ClientsAgree
<1> HIDE DEF h
<1>6. /\ st' \in [Clients -> States] /\ st'[h] = "out"
      /\ \A x \in Clients \ {h} : st'[x] = st[x]
  BY <1>1, <1>2, <1>3 DEF States
<1>7. /\ pc' \in [Clients -> PCs] /\ pc'[h] = "ref"
      /\ \A x \in Clients \ {h} : pc'[x] = pc[x]
      /\ Cardinality(Handles') = Cardinality(Handles) /\ Cardinality(Handles) \in Nat
      /\ Cardinality(Calls') = Cardinality(Calls) - 1
      /\ Cardinality(Calls') \in Nat /\ Cardinality(Calls) \in Nat
  BY <1>1, <1>3, <1>5, GotoCounts DEF PCs, InCall
<1>8. LockInv'
  <2>1. LockTypeOK'
    BY <1>1, <1>6 DEF LockInv, LockTypeOK
  <2>2. \A m : Having(m)' = Having(m)
    BY <1>1, <1>3, <1>4, <1>6 DEF Having
  <2>3. LockExact' /\ HeadHasReason'
    BY <1>1, <1>4, <2>2 DEF LockInv, LockExact, HeadHasReason
  <2>4. \A k \in 1..Len(run) : run[k] \in Clients
    BY <1>2
  <2>5. QueueSane'
    BY <1>1, <1>4, <1>6, <2>4 DEF LockInv, QueueSane
  <2> QED  BY <2>1, <2>3, <2>5 DEF LockInv
<1>9. QueuedSomewhere'
  <2>1. \A j, k \in 1..Len(failing) : failing[j] = failing[k] => j = k
    BY DEF QueuedSomewhere
  <2>2. \A k \in 1..Len(failing') : failing'[k] # h /\ failing'[k] \in Clients
    BY <1>2, <1>3, <2>1
  <2>3. \A k \in 1..Len(failing') : st'[failing'[k]] = "queued"
    BY <1>3, <1>6, <2>2 DEF QueuedSomewhere
  <2>4. \A j, k \in 1..Len(failing') : failing'[j] = failing'[k] => j = k
    <3> SUFFICES ASSUME NEW j \in 1..Len(failing'), NEW k \in 1..Len(failing'),
                        failing'[j] = failing'[k]
                 PROVE  j = k
      OBVIOUS
    <3>1. j + 1 \in 1..Len(failing) /\ k + 1 \in 1..Len(failing) /\ j \in Int /\ k \in Int
      BY <1>3
    <3>2. failing[j + 1] = failing[k + 1]
      BY <1>3
    <3>3. j + 1 = k + 1
      BY <2>1, <3>1, <3>2
    <3> QED  BY <3>1, <3>3
  <2>5. ASSUME NEW c \in Clients, st'[c] = "queued"
        PROVE  \E k \in 1..Len(failing') : failing'[k] = c
    <3>1. c # h /\ st[c] = "queued"
      BY <1>6, <2>5
    <3>2. PICK k \in 1..Len(failing) : failing[k] = c
      BY <1>4, <3>1 DEF QueuedSomewhere
    <3>3. k # 1 /\ k - 1 \in 1..Len(failing') /\ failing'[k - 1] = failing[(k - 1) + 1]
      BY <1>3, <3>1, <3>2
    <3>4. (k - 1) + 1 = k
      OBVIOUS
    <3> QED  BY <3>2, <3>3, <3>4
  <2> QED  BY <1>1, <1>4, <2>3, <2>4, <2>5 DEF QueuedSomewhere
<1>10. ClientsAgree'
  BY <1>1, <1>3, <1>4, <1>5, <1>6, <1>7 DEF ClientsAgree
<1>11. cref.n \in Nat /\ cref.n > 0 /\ cref.cb \in {"none", "armed", "fired", "done"}
  BY <1>2, <1>7 DEF CacheRefExact, Counter
<1>12. /\ cref' \in Counter /\ cref'.n = cref.n - 1 /\ cref'.frozen = cref.frozen
       /\ cref'.cb = (IF cref.n = 1 /\ cref.cb = "armed" THEN "fired" ELSE cref.cb)
  BY <1>1, <1>2, <1>11, DecreasedFields
<1>13. TypeOK'
  BY <1>1, <1>3, <1>7, <1>8, <1>12 DEF TypeOK, LockInv
<1>14. LockRefExact' /\ OnlyStopperOwns'
  BY <1>1, <1>7 DEF LockRefExact, OnlyStopperOwns
<1>15. cref.cb \notin {"fired", "done"}
  BY <1>11 DEF ZeroWhenFired
<1>16. ZeroWhenFired'
  BY <1>1, <1>11, <1>12, <1>15 DEF ZeroWhenFired
<1>17. StopExact'
  <2>1. lref.cb # "done"
    BY <1>1 DEF StopExact
  <2> QED  BY <1>1, <1>12, <1>15, <2>1 DEF StopExact
<1>18. CacheRefExact'
  BY <1>1, <1>2, <1>7, <1>11, <1>12 DEF CacheRefExact
<1> QED  BY <1>8, <1>9, <1>10, <1>13, <1>14, <1>16, <1>17, <1>18

LEMMA CallbackEndsInv ==
    ASSUME HandleInv, LockDeinitDone \/ Dealloc
    PROVE  HandleInv'
<1> USE DEF HandleInv
<1>1. /\ UNCHANGED <<lockVars, clientVars, stopping, listed, alive, failing, stopper, step>>
  BY DEF LockDeinitDone, Dealloc, stopVars
<1>2. /\ lref \in Counter /\ cref \in Counter /\ listed \in BOOLEAN /\ freed \in BOOLEAN
      /\ stopping \in BOOLEAN /\ stopper \in Clients \cup {NoClient} /\ step \in Steps
      /\ kept \in Nat /\ kept' = kept
  BY <1>1 DEF TypeOK, clientVars
<1>3. OnlyStopperOwns'
  BY <1>1 DEF OnlyStopperOwns, clientVars
<1>4. /\ Cardinality(Handles) \in Nat /\ Cardinality(Calls) \in Nat
  <2>1. Handles \in SUBSET Clients /\ Calls \in SUBSET Clients
    BY DEF Handles, Calls
  <2> QED  BY <2>1, ClientsAssumption, FS_Subset, FS_CardinalityType
<1>5. cref.n \in Nat /\ cref.cb \in {"none", "armed", "fired", "done"}
  BY <1>2 DEF Counter
<1>6. CASE LockDeinitDone
  <2>1. /\ lref.cb = "fired" /\ ~alive /\ failing = <<>> /\ freed' = freed
        /\ cref' = Decreased(cref) /\ lref' = [lref EXCEPT !.cb = "done"]
    BY <1>6 DEF LockDeinitDone, stopVars
  <2>2. step \notin {"none", "stop"}
    BY <2>1 DEF StopExact
  <2>3. cref.n > 0
    BY <1>2, <1>4, <1>5, <2>1, <2>2 DEF CacheRefExact
  <2>4. cref.cb \notin {"fired", "done"}
    BY <2>3 DEF ZeroWhenFired
  <2>5. /\ cref' \in Counter /\ cref'.n = cref.n - 1 /\ cref'.frozen = cref.frozen
        /\ cref'.cb = (IF cref.n = 1 /\ cref.cb = "armed" THEN "fired" ELSE cref.cb)
    BY <1>2, <2>1, <2>3, DecreasedFields
  <2>6. /\ lref' \in Counter /\ lref'.n = lref.n /\ lref'.frozen = lref.frozen
        /\ lref'.cb = "done"
    BY <1>2, <2>1 DEF Counter
  <2>7. /\ TypeOK' /\ LockInv' /\ QueuedSomewhere' /\ ClientsAgree' /\ LockRefExact'
        /\ Handles' = Handles /\ Calls' = Calls
    BY <1>1, <1>2, <2>1, <2>5, <2>6, StopFrame
  <2>8. ZeroWhenFired'
    BY <1>5, <2>1, <2>3, <2>4, <2>5, <2>6 DEF ZeroWhenFired
  <2>9. StopExact'
    BY <1>1, <2>1, <2>2, <2>4, <2>5, <2>6 DEF StopExact
  <2>10. CacheRefExact'
    BY <1>1, <1>2, <1>4, <1>5, <2>1, <2>2, <2>5, <2>6, <2>7 DEF CacheRefExact
  <2> QED  BY <1>3, <2>7, <2>8, <2>9, <2>10
<1>7. CASE Dealloc
  <2>1. /\ cref.cb = "fired" /\ freed' = TRUE /\ cref' = [cref EXCEPT !.cb = "done"]
        /\ lref' = lref
    BY <1>7 DEF Dealloc
  <2>2. /\ cref' \in Counter /\ cref'.n = cref.n /\ cref'.frozen = cref.frozen
        /\ cref'.cb = "done"
    BY <1>2, <2>1 DEF Counter
  <2>3. /\ TypeOK' /\ LockInv' /\ QueuedSomewhere' /\ ClientsAgree' /\ LockRefExact'
        /\ Handles' = Handles /\ Calls' = Calls
    BY <1>1, <1>2, <2>1, <2>2, StopFrame
  <2>4. ZeroWhenFired' /\ StopExact'
    BY <1>1, <2>1, <2>2 DEF ZeroWhenFired, StopExact
  <2>5. CacheRefExact'
    BY <1>1, <1>2, <2>1, <2>2, <2>3 DEF CacheRefExact
  <2> QED  BY <1>3, <2>3, <2>4, <2>5
<1> QED  BY <1>6, <1>7

-----------------------------------------------------------------------------
(* The theorems *)

LEMMA HandleStutter ==
    ASSUME HandleInv, UNCHANGED vars
    PROVE  HandleInv'
<1> USE DEF HandleInv
<1>1. UNCHANGED <<lockVars, cref, lref, clientVars, stopVars>>
  BY DEF vars
<1>2. /\ UNCHANGED <<pc, how, inside, kept>>
      /\ UNCHANGED <<stopping, listed, alive, freed, failing, stopper, step>>
  BY <1>1 DEF clientVars, stopVars
<1>3. /\ lref \in Counter /\ cref \in Counter /\ listed \in BOOLEAN /\ freed \in BOOLEAN
      /\ stopping \in BOOLEAN /\ stopper \in Clients \cup {NoClient} /\ step \in Steps
  BY DEF TypeOK
<1>4. /\ TypeOK' /\ LockInv' /\ QueuedSomewhere' /\ ClientsAgree' /\ LockRefExact'
      /\ Handles' = Handles /\ Calls' = Calls
  BY <1>1, <1>2, <1>3, StopFrame
<1>5. ZeroWhenFired' /\ StopExact' /\ OnlyStopperOwns'
  BY <1>1, <1>2 DEF ZeroWhenFired, StopExact, OnlyStopperOwns
<1>6. CacheRefExact'
  BY <1>1, <1>2, <1>4 DEF CacheRefExact
<1> QED  BY <1>4, <1>5, <1>6

LEMMA NextHandleInv == HandleInv /\ [Next]_vars => HandleInv'
<1> SUFFICES ASSUME HandleInv, [Next]_vars PROVE HandleInv'
  OBVIOUS
<1>1. CASE UNCHANGED vars
  BY <1>1, HandleStutter
<1>2. ASSUME NEW c \in Clients,
             GetByName(c) \/ BeginCall(c, "lock") \/ BeginCall(c, "try")
                \/ PutHandle(c) \/ PutCall(c)
      PROVE  HandleInv'
  <2>1. how \in [Clients -> Hows]
    BY DEF HandleInv, TypeOK
  <2>2. CASE GetByName(c)
    <3>1. c \notin inside
      BY <2>2 DEF GetByName, HandleInv, ClientsAgree
    <3> QED  BY <2>1, <2>2, <3>1, GetInv DEF GetByName
  <2>3. ASSUME NEW k \in {"lock", "try"}, BeginCall(c, k)
        PROVE  HandleInv'
    <3>1. how' \in [Clients -> Hows]
      BY <2>1, <2>3 DEF BeginCall, Hows
    <3> QED  BY <2>3, <3>1, GetInv DEF BeginCall
  <2>4. CASE PutHandle(c)
    BY <2>4, PutInv DEF PutHandle
  <2>5. CASE PutCall(c)
    BY <2>5, PutInv DEF PutCall
  <2> QED  BY <1>2, <2>2, <2>3, <2>4, <2>5
<1>3. ASSUME NEW c \in Clients, EnterLock(c) PROVE HandleInv'
  BY <1>3, EnterLockInv
<1>4. ASSUME NEW c \in Clients, NoWaiter(c) \/ LeaveLock(c) PROVE HandleInv'
  <2>1. pc \in [Clients -> PCs]
    BY DEF HandleInv, TypeOK
  <2>2. CASE NoWaiter(c)
    <3>1. c \in inside
      BY <2>2 DEF NoWaiter, HandleInv, ClientsAgree
    <3> QED  BY <2>2, <3>1, LeaveInv DEF NoWaiter, PCs
  <2>3. CASE LeaveLock(c)
    <3>1. Goto(c, pc[c]) /\ pc[c] \in PCs
      BY <2>1, <2>3 DEF LeaveLock, Goto
    <3> QED  BY <2>3, <3>1, LeaveInv DEF LeaveLock
  <2> QED  BY <1>4, <2>2, <2>3
<1>5. ASSUME NEW c \in Clients, NEW m \in Modes, LockFn(c, m) \/ TrylockFn(c, m)
      PROVE  HandleInv'
  BY <1>5, LockFnInv
<1>6. ASSUME NEW c \in Clients, Answer(c) PROVE HandleInv'
  BY <1>6, AnswerInv
<1>7. ASSUME NEW c \in Clients, Refuse(c) \/ UnlockCache(c) PROVE HandleInv'
  BY <1>7, UnlockInv
<1>8. ASSUME NEW c \in Clients, Stop(c) PROVE HandleInv'
  BY <1>8, StopBeginsInv
<1>9. CASE StopFailed \/ StopStep
  BY <1>9, StopBeginsInv, StopStepInv
<1>10. CASE ZeroCallback
  BY <1>10, LockDeinitInv, FailWaiterInv, CallbackEndsInv DEF ZeroCallback
<1> QED
  BY <1>1, <1>2, <1>3, <1>4, <1>5, <1>6, <1>7, <1>8, <1>9, <1>10 DEF Next, Call

\* HandleInv holds for ever: where clients, lock, stop and counters stand.
THEOREM HandleInvariance == Spec => []HandleInv
<1>1. Init => HandleInv
  BY InitHandleInv
<1> QED  BY <1>1, NextHandleInv, PTL DEF Spec

\* Whatever the clients do with a cache while one of them stops it, refcnt.cache
\* counts exactly its references (with those that refused trylocks keep), one
\* writer at most has the lock, nobody but the stopper is told that it owns a
\* stopping cache, nobody has or can look up a freed cache, and a destroyed lock
\* has no waiter and is entered by nobody.  Unlocks of a destroyed lock remain:
\* only the stopper's and those of clients that are being refused.
THEOREM HandleIsSound == Spec => []HandleSound
<1>1. HandleInv => HandleSound
  <2> SUFFICES ASSUME HandleInv PROVE HandleSound
    OBVIOUS
  <2> USE DEF HandleInv
  <2>1. OwnersExact
    BY DEF OwnersExact, ClientsAgree, LockInv
  <2>2. inside \in SUBSET Clients /\ IsFiniteSet(inside)
    BY ClientsAssumption, FS_Subset DEF TypeOK
  <2>3. lref.n = 0 => inside = {}
    BY <2>2, FS_EmptySet DEF LockRefExact
  <2>4. DeadLockLeft
    <3> SUFFICES ASSUME ~alive
                 PROVE  /\ waiters = <<>>
                        /\ \A c \in Clients :
                              /\ pc[c] # "in"
                              /\ st[c] \in {"granted", "own"} =>
                                    c = stopper \/ pc[c] \in {"asked", "refuse"}
      BY DEF DeadLockLeft
    <3>1. waiters = <<>> /\ inside = {} /\ stopping
      BY <2>3 DEF QueuedSomewhere, StopExact, ZeroWhenFired
    <3> QED  BY <3>1 DEF ClientsAgree, OnlyStopperOwns
  <2>5. ASSUME freed
        PROVE  /\ \A c \in Clients : pc[c] = "out"
               /\ inside = {} /\ failing = <<>> /\ step = "done"
               /\ lref.cb = "done" /\ ~listed
    <3>1. cref.n = 0 /\ step \in {"carmed", "cmpl", "done"}
      BY <2>5 DEF StopExact, ZeroWhenFired
    <3>2. /\ Handles \in SUBSET Clients /\ Calls \in SUBSET Clients
          /\ IsFiniteSet(Handles) /\ IsFiniteSet(Calls)
          /\ Cardinality(Handles) \in Nat /\ Cardinality(Calls) \in Nat
      <4>1. Handles \in SUBSET Clients /\ Calls \in SUBSET Clients
        BY DEF Handles, Calls
      <4> QED  BY <4>1, ClientsAssumption, FS_Subset, FS_CardinalityType
    <3>3. kept \in Nat
      BY DEF TypeOK
    <3>4. Cardinality(Handles) = 0 /\ step = "done" /\ lref.cb = "done"
      <4> DEFINE start == IF step = "done" THEN 0 ELSE 1
                 end == IF lref.cb = "done" THEN 0 ELSE 1
      <4>1. start \in Nat /\ end \in Nat
        OBVIOUS
      <4>2. 0 = kept + start + Cardinality(Handles) + Cardinality(Calls) + end
        BY <3>1 DEF CacheRefExact
      <4>3. start = 0 /\ end = 0 /\ Cardinality(Handles) = 0
        <5> HIDE DEF start, end
        <5> QED  BY <3>2, <3>3, <4>1, <4>2
      <4> QED  BY <4>3
    <3>5. Handles = {}
      BY <3>2, <3>4, FS_EmptySet
    <3>6. \A c \in Clients : pc[c] = "out"
      BY <3>5 DEF Handles
    <3>7. inside = {} /\ failing = <<>> /\ ~listed
      BY <2>3, <3>4 DEF StopExact, ZeroWhenFired
    <3> QED  BY <3>4, <3>6, <3>7
  <2>6. FreedIsUnreachable
    BY <2>5 DEF FreedIsUnreachable
  <2> QED  BY <2>1, <2>4, <2>6 DEF HandleSound
<1> QED  BY <1>1, HandleInvariance, PTL

=============================================================================
