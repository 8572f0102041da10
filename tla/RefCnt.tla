------------------------------- MODULE RefCnt -------------------------------
(***************************************************************************)
(* The freezable reference counter of the environment layer                *)
(* (env/posix/ocf_env_refcnt.c).  Every request pins the cache metadata,   *)
(* the dirty counter or a volume through it; management pipelines freeze   *)
(* the counter and continue when the registered zero callback runs.        *)
(*                                                                         *)
(* One action is one access to one of the three atomics.  Users take and   *)
(* drop references.  A manager freezes and registers the callback; the     *)
(* callback continues its pipeline on another thread, which unfreezes, so  *)
(* that the next registration can start while the registering thread is    *)
(* still inside env_refcnt_register_zero_cb.  Freezers only freeze and     *)
(* unfreeze, which the interface allows to nest.                           *)
(***************************************************************************)
EXTENDS Integers, FiniteSets

CONSTANTS
    Users,      \* threads that take and drop references
    Managers,   \* threads that freeze the counter and register a callback
    Freezers    \* threads that freeze and unfreeze without a callback

ASSUME ThreadsAssumption ==
    /\ IsFiniteSet(Users) /\ IsFiniteSet(Managers) /\ IsFiniteSet(Freezers)
    /\ Users \cap Managers = {}

VARIABLES
    counter,    \* rc->counter
    freeze,     \* rc->freeze
    callback,   \* rc->callback: 1 while a zero callback is armed
    pc,         \* program counter of each user and manager
    frozen,     \* the freezers between their freeze and their unfreeze
    phase,      \* the management pipeline: open, closing (frozen, callback
                \* not armed yet) or draining (armed, until the unfreeze)
    calls,      \* how often the current registration's callback has run
    stale       \* threads that were inside env_refcnt_dec, past a decrement
                \* to zero, at the moment the callback was armed

vars == <<counter, freeze, callback, pc, frozen, phase, calls, stale>>

Threads == Users \cup Managers
PC == {"idle", "inc", "recheck", "held", "undo", "zero",
       "frozen", "pinned", "armed"}

Init ==
    /\ counter = 0
    /\ freeze = 0
    /\ callback = 0
    /\ pc = [t \in Threads |-> "idle"]
    /\ frozen = {}
    /\ phase = "open"
    /\ calls = 0
    /\ stale = {}

-----------------------------------------------------------------------------
(* env_refcnt_inc *)

\* The first read of rc->freeze; a frozen counter refuses at once.
IncReadFreeze(u) ==
    /\ pc[u] = "idle"
    /\ freeze = 0
    /\ pc' = [pc EXCEPT ![u] = "inc"]
    /\ UNCHANGED <<counter, freeze, callback, frozen, phase, calls, stale>>

IncCount(u) ==
    /\ pc[u] = "inc"
    /\ counter' = counter + 1
    /\ pc' = [pc EXCEPT ![u] = "recheck"]
    /\ UNCHANGED <<freeze, callback, frozen, phase, calls, stale>>

\* Mutant: the counter is not looked at again after the increment.
IncWithoutRecheck(u) ==
    /\ pc[u] = "recheck"
    /\ pc' = [pc EXCEPT ![u] = "held"]
    /\ UNCHANGED <<counter, freeze, callback, frozen, phase, calls, stale>>

\* The second read of rc->freeze decides between success and undo.
IncRecheck(u) ==
    /\ pc[u] = "recheck"
    /\ pc' = [pc EXCEPT ![u] = IF freeze = 0 THEN "held" ELSE "undo"]
    /\ UNCHANGED <<counter, freeze, callback, frozen, phase, calls, stale>>

-----------------------------------------------------------------------------
(* env_refcnt_dec *)

\* Mutant: the decrement looks for the callback with one reference left.
DecCountEarly(t) ==
    /\ pc[t] \in {"held", "undo", "armed"}
    /\ counter' = counter - 1
    /\ pc' = [pc EXCEPT ![t] = IF counter <= 2 THEN "zero" ELSE "idle"]
    /\ UNCHANGED <<freeze, callback, frozen, phase, calls, stale>>

\* env_atomic_dec_return: by a holder, by a refused env_refcnt_inc, or by the
\* registration that has armed its callback.
DecCount(t) ==
    /\ pc[t] \in {"held", "undo", "armed"}
    /\ counter' = counter - 1
    /\ pc' = [pc EXCEPT ![t] = IF counter = 1 THEN "zero" ELSE "idle"]
    /\ UNCHANGED <<freeze, callback, frozen, phase, calls, stale>>

\* The cmpxchg on rc->callback, and the callback when it succeeds.
DecFire(t) ==
    /\ pc[t] = "zero"
    /\ callback' = 0
    /\ calls' = calls + callback
    /\ pc' = [pc EXCEPT ![t] = "idle"]
    /\ UNCHANGED <<counter, freeze, frozen, phase, stale>>

-----------------------------------------------------------------------------
(* env_refcnt_freeze, env_refcnt_register_zero_cb, env_refcnt_unfreeze *)

Freeze(f) ==
    /\ f \notin frozen
    /\ freeze' = freeze + 1
    /\ frozen' = frozen \cup {f}
    /\ UNCHANGED <<counter, callback, pc, phase, calls, stale>>

Unfreeze(f) ==
    /\ f \in frozen
    /\ freeze' = freeze - 1
    /\ frozen' = frozen \ {f}
    /\ UNCHANGED <<counter, callback, pc, phase, calls, stale>>

\* The pipeline freezes before it registers; one registration at a time.
ManagerFreeze(m) ==
    /\ phase = "open"
    /\ pc[m] = "idle"
    /\ freeze' = freeze + 1
    /\ phase' = "closing"
    /\ pc' = [pc EXCEPT ![m] = "frozen"]
    /\ UNCHANGED <<counter, callback, frozen, calls, stale>>

RegisterPin(m) ==
    /\ pc[m] = "frozen"
    /\ counter' = counter + 1
    /\ pc' = [pc EXCEPT ![m] = "pinned"]
    /\ UNCHANGED <<freeze, callback, frozen, phase, calls, stale>>

\* rc->cb, rc->priv and rc->callback are written; DecCount(m) follows.
RegisterArm(m) ==
    /\ pc[m] = "pinned"
    /\ callback' = 1
    /\ calls' = 0
    /\ phase' = "draining"
    /\ stale' = {t \in Threads : pc[t] = "zero"}
    /\ pc' = [pc EXCEPT ![m] = "armed"]
    /\ UNCHANGED <<counter, freeze, frozen>>

\* The pipeline step that the callback continues unfreezes the counter.
ManagerUnfreeze ==
    /\ phase = "draining"
    /\ calls > 0
    /\ freeze' = freeze - 1
    /\ phase' = "open"
    /\ UNCHANGED <<counter, callback, pc, frozen, calls, stale>>

-----------------------------------------------------------------------------

Inc(u) == IncReadFreeze(u) \/ IncCount(u) \/ IncRecheck(u)
Dec(t) == DecCount(t) \/ DecFire(t)
Register(m) == RegisterPin(m) \/ RegisterArm(m)

Next ==
    \/ \E u \in Users : Inc(u)
    \/ \E t \in Threads : Dec(t)
    \/ \E f \in Freezers : Freeze(f) \/ Unfreeze(f)
    \/ \E m \in Managers : ManagerFreeze(m) \/ Register(m)
    \/ ManagerUnfreeze

\* A thread inside a call runs on, and every reference is dropped some day.
Fairness ==
    /\ \A u \in Users : WF_vars(IncCount(u) \/ IncRecheck(u))
    /\ \A t \in Threads : WF_vars(Dec(t))
    /\ \A m \in Managers : WF_vars(Register(m))

Spec == Init /\ [][Next]_vars /\ Fairness

-----------------------------------------------------------------------------
(* Properties *)

\* Every atomic stays in its range and every thread is at a line of the code.
TypeOK ==
    /\ counter \in Nat
    /\ freeze \in Nat
    /\ callback \in {0, 1}
    /\ pc \in [Threads -> PC]
    /\ \A m \in Managers : pc[m] \in {"idle", "frozen", "pinned", "armed", "zero"}
    /\ \A u \in Users : pc[u] \notin {"frozen", "pinned", "armed"}
    /\ frozen \in SUBSET Freezers
    /\ phase \in {"open", "closing", "draining"}
    /\ calls \in Nat
    /\ stale \in SUBSET Threads

\* The threads whose increment of rc->counter is outstanding.
Pinning == {t \in Threads : pc[t] \in {"recheck", "held", "undo", "pinned", "armed"}}
Holders == {u \in Users : pc[u] = "held"}

\* rc->counter counts exactly the outstanding increments, refused ones that
\* are still being undone included, so that env_refcnt_dec never meets the
\* negative value its ENV_BUG_ON excludes.
CounterExact == counter = Cardinality(Pinning)

\* rc->freeze counts exactly the freezes that no unfreeze has offset, so the
\* counter stays frozen until the last of the nested freezes is lifted.
FreezeExact == freeze = Cardinality(frozen) + (IF phase = "open" THEN 0 ELSE 1)

\* A registration's callback runs at most once, stays armed until then, and is
\* not armed outside a registration (the ENV_BUG_ON of the next one).
CallbackOnce == callback = IF phase = "draining" THEN 1 - calls ELSE 0

\* When the callback has run, nobody holds a reference, and nobody gets one
\* until the unfreeze: provided no env_refcnt_dec was between its decrement
\* to zero and its look at rc->callback when the callback was armed.
DrainedUnlessStale ==
    (phase = "draining" /\ calls > 0 /\ stale = {}) => Holders = {}

\* What ocf_env_refcnt.h says of the callback ("called when reference counter
\* drops to 0"), without that proviso.
Drained == (phase = "draining" /\ calls > 0) => Holders = {}

\* While the counter is frozen no reference is handed out, whenever the
\* env_refcnt_inc that asks for it started.
NoIncWhileFrozen == [][freeze > 0 => Holders' \subseteq Holders]_vars

\* A registered callback runs: the decrement that ends the last reference
\* never misses it, and neither does the registration itself.
CallbackRuns == []<>(phase = "open" \/ (phase = "draining" /\ calls > 0))

\* The counter of env_refcnt as a whole: exact counts, one callback for each
\* registration, and nobody left when it has run, unless a decrement was stale.
CountSound ==
    TypeOK /\ CounterExact /\ FreezeExact /\ CallbackOnce /\ DrainedUnlessStale
=============================================================================
