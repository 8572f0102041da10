---------------------------- MODULE RefCntProofs ----------------------------
(***************************************************************************)
(* Proofs about the reference counter, for any number of users, managers   *)
(* and freezers.                                                           *)
(*                                                                         *)
(* IInv is the inductive invariant: the exact counts, the phase a          *)
(* registering manager is in, and what makes a callback trustworthy: a     *)
(* thread that dropped the counter to zero after the callback was armed    *)
(* left no holder behind, and a frozen counter admits none.                *)
(***************************************************************************)
EXTENDS RefCnt, FiniteSetTheorems, TLAPS

Registering == {m \in Managers : pc[m] \in {"frozen", "pinned"}}

OneRegistration ==
    /\ \A m \in Registering : phase = "closing"
    /\ \A m, n \in Registering : m = n

ZeroMeansDrained ==
    (phase = "draining" /\ stale = {}
        /\ (calls > 0 \/ \E t \in Threads : pc[t] = "zero")) => Holders = {}

IInv == /\ TypeOK
        /\ CounterExact
        /\ FreezeExact
        /\ CallbackOnce
        /\ OneRegistration
        /\ ZeroMeansDrained

-----------------------------------------------------------------------------
(* Finite sets of threads *)

\* The threads, and so the pinning ones, are finitely many.
LEMMA FiniteThreads ==
    /\ IsFiniteSet(Threads)
    /\ IsFiniteSet(Pinning)
    /\ Cardinality(Pinning) \in Nat
<1>1. IsFiniteSet(Threads)
  BY FS_Union, ThreadsAssumption DEF Threads
<1>2. Pinning \subseteq Threads
  BY DEF Pinning
<1> QED  BY <1>1, <1>2, FS_Subset, FS_CardinalityType

\* A freezer counts as one, whatever set of freezers it joins or leaves.
LEMMA FreezerCount ==
    ASSUME NEW S \in SUBSET Freezers, NEW f \in Freezers
    PROVE  /\ Cardinality(S) \in Nat
           /\ f \notin S => Cardinality(S \cup {f}) = Cardinality(S) + 1
           /\ f \in S => Cardinality(S \ {f}) = Cardinality(S) - 1
<1>1. IsFiniteSet(S)
  BY FS_Subset, ThreadsAssumption
<1> QED  BY <1>1, FS_AddElement, FS_RemoveElement, FS_CardinalityType

\* A thread that starts pinning the counter adds one to the pinning threads,
\* one that stops removes one, any other move leaves the number alone.
LEMMA PinningCount ==
    ASSUME TypeOK, NEW t \in Threads, NEW l \in PC,
           pc' = [pc EXCEPT ![t] = l]
    PROVE  LET P == {"recheck", "held", "undo", "pinned", "armed"}
           IN /\ (pc[t] \in P <=> l \in P) => Cardinality(Pinning') = Cardinality(Pinning)
              /\ (pc[t] \notin P /\ l \in P) =>
                    Cardinality(Pinning') = Cardinality(Pinning) + 1
              /\ (pc[t] \in P /\ l \notin P) =>
                    /\ Cardinality(Pinning') = Cardinality(Pinning) - 1
                    /\ Cardinality(Pinning) > 0
<1> DEFINE P == {"recheck", "held", "undo", "pinned", "armed"}
<1>1. \A u \in Threads : pc'[u] = IF u = t THEN l ELSE pc[u]
  BY DEF TypeOK
<1>2. CASE pc[t] \in P <=> l \in P
  <2>1. Pinning' = Pinning
    BY <1>1, <1>2 DEF Pinning
  <2> QED  BY <2>1, <1>2
<1>3. CASE pc[t] \notin P /\ l \in P
  <2>1. Pinning' = Pinning \cup {t} /\ t \notin Pinning
    BY <1>1, <1>3 DEF Pinning
  <2> QED  BY <2>1, <1>3, FS_AddElement, FiniteThreads
<1>4. CASE pc[t] \in P /\ l \notin P
  <2>1. Pinning' = Pinning \ {t} /\ t \in Pinning
    BY <1>1, <1>4 DEF Pinning
  <2>2. Cardinality(Pinning) > 0
    BY <2>1, FS_EmptySet, FiniteThreads
  <2> QED  BY <2>1, <2>2, <1>4, FS_RemoveElement, FiniteThreads
<1> QED  BY <1>2, <1>3, <1>4

-----------------------------------------------------------------------------
(* The inductive invariant *)

\* The initial counter satisfies it.
LEMMA InitIInv == Init => IInv
<1> SUFFICES ASSUME Init PROVE IInv
  OBVIOUS
<1>1. Pinning = {} /\ Holders = {} /\ Registering = {}
  BY DEF Init, Pinning, Holders, Registering, Threads
<1>2. TypeOK
  BY DEF Init, TypeOK, PC, Threads
<1>3. CounterExact /\ FreezeExact
  BY <1>1, FS_EmptySet DEF Init, CounterExact, FreezeExact
<1> QED
  BY <1>1, <1>2, <1>3
  DEF Init, IInv, CallbackOnce, OneRegistration, ZeroMeansDrained

\* The steps of env_refcnt_inc preserve it.  The recheck is where a frozen
\* counter turns a reference down.
LEMMA IncIInv ==
    ASSUME IInv, NEW u \in Users, Inc(u)
    PROVE  IInv'
<1> USE DEF IInv
<1>0. u \in Threads /\ u \notin Managers
  BY ThreadsAssumption DEF Threads
<1>1. CASE IncReadFreeze(u)
  <2>1. TypeOK'
    BY <1>0, <1>1 DEF TypeOK, IncReadFreeze, PC, Threads
  <2>2. CounterExact'
    BY <1>0, <1>1, PinningCount DEF CounterExact, IncReadFreeze, PC
  <2>3. Holders' = Holders /\ Registering' = Registering
    BY <1>0, <1>1 DEF Holders, Registering, IncReadFreeze, TypeOK, Threads
  <2>4. ZeroMeansDrained'
    BY <1>0, <1>1, <2>3 DEF ZeroMeansDrained, IncReadFreeze, TypeOK
  <2> QED
    BY <1>1, <2>1, <2>2, <2>3, <2>4
    DEF IncReadFreeze, FreezeExact, CallbackOnce, OneRegistration
<1>2. CASE IncCount(u)
  <2>1. TypeOK'
    BY <1>0, <1>2 DEF TypeOK, IncCount, PC, Threads
  <2>2. CounterExact'
    BY <1>0, <1>2, PinningCount DEF CounterExact, IncCount, PC
  <2>3. Holders' = Holders /\ Registering' = Registering
    BY <1>0, <1>2 DEF Holders, Registering, IncCount, TypeOK, Threads
  <2>4. ZeroMeansDrained'
    BY <1>0, <1>2, <2>3 DEF ZeroMeansDrained, IncCount, TypeOK
  <2> QED
    BY <1>2, <2>1, <2>2, <2>3, <2>4
    DEF IncCount, FreezeExact, CallbackOnce, OneRegistration
<1>3. CASE IncRecheck(u)
  <2>1. TypeOK'
    BY <1>0, <1>3 DEF TypeOK, IncRecheck, PC, Threads
  <2>2. CounterExact'
    BY <1>0, <1>3, PinningCount DEF CounterExact, IncRecheck, PC
  <2>3. Registering' = Registering
    BY <1>0, <1>3 DEF Registering, IncRecheck, TypeOK, Threads
  <2>4. ZeroMeansDrained'
    <3>1. CASE phase = "draining"
      <4>1. freeze > 0
        BY <3>1, FreezerCount, FS_Subset, FS_CardinalityType, ThreadsAssumption
        DEF FreezeExact, TypeOK
      <4>2. Holders' = Holders
        BY <1>0, <1>3, <4>1 DEF Holders, IncRecheck, TypeOK, Threads
      <4> QED  BY <1>0, <1>3, <4>2 DEF ZeroMeansDrained, IncRecheck, TypeOK
    <3> QED  BY <1>3, <3>1 DEF ZeroMeansDrained, IncRecheck
  <2> QED
    BY <1>3, <2>1, <2>2, <2>3, <2>4
    DEF IncRecheck, FreezeExact, CallbackOnce, OneRegistration
<1> QED  BY <1>1, <1>2, <1>3 DEF Inc

\* The steps of env_refcnt_dec preserve it: a decrement to zero leaves nobody
\* pinning the counter, and the cmpxchg disarms the callback it calls.
LEMMA DecIInv ==
    ASSUME IInv, NEW t \in Threads, Dec(t)
    PROVE  IInv'
<1> USE DEF IInv
<1>1. CASE DecCount(t)
  <2>1. Cardinality(Pinning) > 0 /\ Cardinality(Pinning') = Cardinality(Pinning) - 1
    BY <1>1, PinningCount DEF DecCount, PC
  <2>2. TypeOK'
    BY <1>1, <2>1 DEF TypeOK, DecCount, PC, Threads, CounterExact
  <2>3. CounterExact'
    BY <1>1, <2>1 DEF CounterExact, DecCount
  <2>4. Holders' \subseteq Holders /\ Registering' = Registering
    BY <1>1 DEF Holders, Registering, DecCount, TypeOK, Threads
  <2>5. ZeroMeansDrained'
    <3>1. CASE counter = 1
      <4>1. Pinning' = {}
        BY <1>1, <3>1, <2>1, FiniteThreads, FS_EmptySet, FS_Subset
        DEF CounterExact, Pinning
      <4>2. Holders' \subseteq Pinning'
        BY DEF Holders, Pinning, Threads
      <4> QED  BY <4>1, <4>2 DEF ZeroMeansDrained
    <3>2. CASE counter # 1
      BY <1>1, <3>2, <2>4 DEF ZeroMeansDrained, DecCount, TypeOK
    <3> QED  BY <3>1, <3>2
  <2> QED
    BY <1>1, <2>2, <2>3, <2>4, <2>5
    DEF DecCount, FreezeExact, CallbackOnce, OneRegistration
<1>2. CASE DecFire(t)
  <2>1. TypeOK'
    BY <1>2 DEF TypeOK, DecFire, PC, Threads
  <2>2. CounterExact'
    BY <1>2, PinningCount DEF CounterExact, DecFire, PC
  <2>3. CallbackOnce'
    BY <1>2 DEF CallbackOnce, DecFire, TypeOK
  <2>4. Holders' = Holders /\ Registering' = Registering
    BY <1>2 DEF Holders, Registering, DecFire, TypeOK, Threads
  <2>5. ZeroMeansDrained'
    BY <1>2, <2>4 DEF ZeroMeansDrained, DecFire
  <2> QED
    BY <1>2, <2>1, <2>2, <2>3, <2>4, <2>5
    DEF DecFire, FreezeExact, OneRegistration
<1> QED  BY <1>1, <1>2 DEF Dec

\* Nested freezes and unfreezes preserve it.
LEMMA FreezerIInv ==
    ASSUME IInv, NEW f \in Freezers, Freeze(f) \/ Unfreeze(f)
    PROVE  IInv'
<1> USE DEF IInv
<1>1. frozen \in SUBSET Freezers
  BY DEF TypeOK
<1>2. FreezeExact' /\ TypeOK'
  <2>1. CASE Freeze(f)
    BY <1>1, <2>1, FreezerCount DEF Freeze, FreezeExact, TypeOK
  <2>2. CASE Unfreeze(f)
    <3>1. Cardinality(frozen \ {f}) \in Nat
      BY <1>1, FreezerCount
    <3> QED
      BY <1>1, <2>2, <3>1, FreezerCount DEF Unfreeze, FreezeExact, TypeOK
  <2> QED  BY <2>1, <2>2
<1>3. Pinning' = Pinning /\ Holders' = Holders /\ Registering' = Registering
  BY DEF Freeze, Unfreeze, Pinning, Holders, Registering
<1> QED
  BY <1>2, <1>3
  DEF Freeze, Unfreeze, CounterExact, CallbackOnce, OneRegistration, ZeroMeansDrained

\* The freeze that starts a registration preserves it.
LEMMA ManagerFreezeIInv ==
    ASSUME IInv, NEW m \in Managers, ManagerFreeze(m)
    PROVE  IInv'
<1> USE DEF IInv, ManagerFreeze
<1>0. m \in Threads /\ m \notin Users
  BY ThreadsAssumption DEF Threads
<1>1. TypeOK'
  BY <1>0 DEF TypeOK, PC, Threads
<1>2. CounterExact'
  BY <1>0, PinningCount DEF CounterExact, PC
<1>3. FreezeExact'
  BY FS_Subset, FS_CardinalityType, ThreadsAssumption DEF FreezeExact, TypeOK
<1>4. Registering' = {m}
  BY <1>0 DEF Registering, OneRegistration, TypeOK
<1> QED
  BY <1>1, <1>2, <1>3, <1>4 DEF CallbackOnce, OneRegistration, ZeroMeansDrained

\* Pinning the counter and arming the callback preserve it.
LEMMA RegisterIInv ==
    ASSUME IInv, NEW m \in Managers, Register(m)
    PROVE  IInv'
<1> USE DEF IInv
<1>0. m \in Threads /\ m \notin Users
  BY ThreadsAssumption DEF Threads
<1>1. CASE RegisterPin(m)
  <2>1. TypeOK'
    BY <1>0, <1>1 DEF TypeOK, RegisterPin, PC, Threads
  <2>2. CounterExact'
    BY <1>0, <1>1, PinningCount DEF CounterExact, RegisterPin, PC
  <2>3. Registering' = Registering /\ Holders' = Holders
    BY <1>0, <1>1 DEF Registering, Holders, RegisterPin, TypeOK, Threads
  <2>4. ZeroMeansDrained'
    BY <1>0, <1>1, <2>3 DEF ZeroMeansDrained, RegisterPin, TypeOK
  <2> QED
    BY <1>1, <2>1, <2>2, <2>3, <2>4
    DEF RegisterPin, FreezeExact, CallbackOnce, OneRegistration
<1>2. CASE RegisterArm(m)
  <2>0. m \in Registering /\ phase = "closing"
    BY <1>2 DEF RegisterArm, Registering, OneRegistration
  <2>1. TypeOK'
    BY <1>0, <1>2 DEF TypeOK, RegisterArm, PC, Threads
  <2>2. CounterExact'
    BY <1>0, <1>2, PinningCount DEF CounterExact, RegisterArm, PC
  <2>3. FreezeExact' /\ CallbackOnce'
    BY <1>2, <2>0 DEF FreezeExact, CallbackOnce, RegisterArm
  <2>4. Registering' = {}
    BY <1>0, <1>2, <2>0 DEF Registering, OneRegistration, RegisterArm, TypeOK
  <2>5. ZeroMeansDrained'
    BY <1>0, <1>2 DEF ZeroMeansDrained, RegisterArm, TypeOK
  <2> QED  BY <2>1, <2>2, <2>3, <2>4, <2>5 DEF OneRegistration
<1> QED  BY <1>1, <1>2 DEF Register

\* So does the unfreeze of the pipeline the callback continued.
LEMMA ManagerUnfreezeIInv ==
    ASSUME IInv, ManagerUnfreeze
    PROVE  IInv'
<1> USE DEF IInv, ManagerUnfreeze
<1>1. TypeOK' /\ FreezeExact'
  BY FS_Subset, FS_CardinalityType, ThreadsAssumption DEF FreezeExact, TypeOK
<1>2. Pinning' = Pinning /\ Registering' = Registering
  BY DEF Pinning, Registering
<1>3. CallbackOnce'
  BY DEF CallbackOnce, TypeOK
<1>4. Registering = {}
  BY DEF OneRegistration
<1> QED
  BY <1>1, <1>2, <1>3, <1>4 DEF CounterExact, OneRegistration, ZeroMeansDrained

\* Every step of every thread preserves it.
LEMMA NextIInv == IInv /\ [Next]_vars => IInv'
<1>1. ASSUME IInv, Next PROVE IInv'
  BY <1>1, IncIInv, DecIInv, FreezerIInv, ManagerFreezeIInv, RegisterIInv,
     ManagerUnfreezeIInv
  DEF Next
<1>2. ASSUME IInv, UNCHANGED vars PROVE IInv'
  BY <1>2
  DEF vars, IInv, TypeOK, CounterExact, FreezeExact, CallbackOnce, OneRegistration,
      ZeroMeansDrained, Pinning, Holders, Registering
<1> QED  BY <1>1, <1>2

\* The inductive invariant holds always.
THEOREM Invariance == Spec => []IInv
BY InitIInv, NextIInv, PTL DEF Spec

-----------------------------------------------------------------------------
(* The results *)

\* env_refcnt stays in its ranges: neither rc->counter nor rc->freeze is ever
\* negative, so that no ENV_BUG_ON(val < 0) is reached.
THEOREM TypeCorrect == Spec => []TypeOK
BY Invariance, PTL DEF IInv

\* rc->counter counts exactly the outstanding increments, rc->freeze the
\* freezes that are not lifted.
THEOREM CountsExact == Spec => [](CounterExact /\ FreezeExact)
BY Invariance, PTL DEF IInv

\* The callback of env_refcnt_register_zero_cb runs at most once for each
\* registration, and none is armed when the next one starts.
THEOREM CallbackRunsOnce == Spec => []CallbackOnce
BY Invariance, PTL DEF IInv

\* When the callback has run nobody holds a reference, unless a thread was
\* inside env_refcnt_dec, past its decrement, when it was armed.
THEOREM DrainedWhenCalled == Spec => []DrainedUnlessStale
<1>1. IInv => DrainedUnlessStale
  BY DEF IInv, ZeroMeansDrained, DrainedUnlessStale
<1> QED  BY <1>1, Invariance, PTL

\* All that is promised of the counter in one state: its types, the two exact
\* counts, one callback per registration, and nobody left when it has run.
THEOREM CountIsSound == Spec => []CountSound
BY TypeCorrect, CountsExact, CallbackRunsOnce, DrainedWhenCalled, PTL DEF CountSound

\* env_refcnt_inc gives no reference of a frozen counter, whenever it started.
THEOREM FrozenGivesNothing == Spec => NoIncWhileFrozen
<1>1. IInv /\ [Next]_vars => [freeze > 0 => Holders' \subseteq Holders]_vars
  <2> SUFFICES ASSUME IInv, Next, freeze > 0
               PROVE  Holders' \subseteq Holders
    OBVIOUS
  <2>1. \A u \in Users : Inc(u) => Holders' \subseteq Holders
    BY DEF Inc, IncReadFreeze, IncCount, IncRecheck, Holders, IInv, TypeOK, Threads
  <2>2. \A t \in Threads : Dec(t) => Holders' \subseteq Holders
    BY DEF Dec, DecCount, DecFire, Holders, IInv, TypeOK, Threads
  <2>3. \A m \in Managers : ManagerFreeze(m) \/ Register(m) => Holders' \subseteq Holders
    BY DEF ManagerFreeze, Register, RegisterPin, RegisterArm, Holders, IInv, TypeOK, Threads
  <2>4. \A f \in Freezers : Freeze(f) \/ Unfreeze(f) => Holders' \subseteq Holders
    BY DEF Freeze, Unfreeze, Holders
  <2>5. ManagerUnfreeze => Holders' \subseteq Holders
    BY DEF ManagerUnfreeze, Holders
  <2> QED  BY <2>1, <2>2, <2>3, <2>4, <2>5 DEF Next
<1> QED  BY <1>1, Invariance, PTL DEF Spec, NoIncWhileFrozen
=============================================================================
