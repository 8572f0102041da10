---------------------------- MODULE PolicySwitch -----------------------------
(* Who may use the context of the cleaning policy, and when.  Requests call the
   active policy through cleaning_ops.h under a reference of cleaner.refcnt;
   the cleaner's thread (cleaning/cleaning.c) calls perform_cleaning under a
   reference too, but the flush it starts goes on after the reference is
   dropped and comes back to the context at its end.  The pipeline of
   ocf_mngt_cache_cleaning_set_policy frees the context of the old policy and
   builds that of the new one meanwhile, and attaching and detaching the cache
   device do the same.

   What the policies keep in their contexts is the subject of Acp and Alru.   *)
EXTENDS Naturals, FiniteSets

CONSTANTS
    Threads,     \* requests that call the policy
    MaxFail      \* bound: allocations that fail

VARIABLES
    policy,      \* cache->cleaner.policy
    ctx,         \* cleaning_policy_context: whose it is, or "null"
    count,       \* cleaner.refcnt
    frozen,      \* how often cleaner.refcnt is frozen
    attached,    \* a cache device is attached
    disabled,    \* conf_meta->cleaner_disabled
    lock,        \* who has the management lock of the cache
    sw,          \* the management operation: where it is, and the new policy
    io,          \* the policy a request has read, or "out"
    run,         \* the cleaner: where it is, and the policy it runs
    leaked,      \* ghost: an operation failed and left its context behind
    bad,         \* ghost: somebody used a context that is not his policy's
    bug,         \* an ENV_BUG_ON fired
    fails

vars == <<policy, ctx, count, frozen, attached, disabled, lock, sw, io, run, leaked, bad, bug,
          fails>>
aside == <<leaked, bad, bug, fails, disabled>>

Policies == {"nop", "alru", "acp"}

(* Only alru and acp have a context. *)
Context(p) == IF p = "nop" THEN "null" ELSE p

Idle == [pc |-> "idle", new |-> "nop"]

(* A call of the policy p touches the context that is there. *)
Uses(p) == bad' = (bad \/ Context(p) \notin {"null", ctx})

Fail == fails < MaxFail /\ fails' = fails + 1

------------------------------------------------------------------------------
(* Requests: the wrappers of cleaning_ops.h. *)

(* env_refcnt_inc, which fails when the counter is frozen; then the policy. *)
Enter(t) ==
    /\ attached /\ io[t] = "out" /\ frozen = 0
    /\ count' = count + 1
    /\ io' = [io EXCEPT ![t] = policy]
    /\ UNCHANGED <<policy, ctx, frozen, attached, lock, sw, run, aside>>

(* The policy's operation, if it has one, and env_refcnt_dec. *)
Call(t) ==
    /\ io[t] # "out"
    /\ Uses(io[t])
    /\ count' = count - 1
    /\ io' = [io EXCEPT ![t] = "out"]
    /\ UNCHANGED <<policy, ctx, frozen, attached, lock, sw, run, leaked, bug, fails, disabled>>

------------------------------------------------------------------------------
(* The cleaner's thread. *)

CleanerRunAnyway ==
    /\ attached /\ run.pc = "idle"
    /\ run' = [pc |-> "locked", new |-> "nop"]
    /\ UNCHANGED <<policy, ctx, count, frozen, attached, lock, sw, io, aside>>

(* ocf_cleaner_run: not while a management operation has the lock; the thread
   exists while a device is attached.                                         *)
CleanerRun ==
    /\ attached /\ run.pc = "idle" /\ lock = "free"
    /\ lock' = "cleaner"
    /\ run' = [pc |-> "locked", new |-> "nop"]
    /\ UNCHANGED <<policy, ctx, count, frozen, attached, sw, io, aside>>

(* ocf_cleaner_run_complete *)
RunComplete ==
    /\ lock' = IF lock = "cleaner" THEN "free" ELSE lock
    /\ run' = Idle

(* _ocf_cleaner_run_check_dirty_inactive, a frozen counter, or a policy that
   does not clean: done.                                                      *)
NothingToClean ==
    /\ run.pc = "locked"
    /\ RunComplete
    /\ UNCHANGED <<policy, ctx, count, frozen, attached, sw, io, aside>>

(* ocf_cleaning_perform_cleaning: the reference is dropped as soon as the
   policy's perform_cleaning has started its flush.                           *)
PerformCleaning ==
    /\ run.pc = "locked" /\ frozen = 0 /\ policy # "nop"
    /\ Uses(policy)
    /\ run' = [pc |-> "flush", new |-> policy]
    /\ UNCHANGED <<policy, ctx, count, frozen, attached, lock, sw, io, leaked, bug, fails, disabled>>

(* _acp_flush_end and alru_clean_complete: the context again. *)
FlushEnd ==
    /\ run.pc = "flush"
    /\ Uses(run.new)
    /\ RunComplete
    /\ UNCHANGED <<policy, ctx, count, frozen, attached, sw, io, leaked, bug, fails, disabled>>

------------------------------------------------------------------------------
(* ocf_mngt_cache_cleaning_set_policy, called with the management lock. *)

At(pc) == sw.pc = pc
Go(pc) == sw' = [sw EXCEPT !.pc = pc]

(* Refused: the policy that is already set, or a cleaner that is disabled. *)
SetPolicy(p) ==
    /\ attached /\ lock = "free" /\ p # policy /\ ~disabled
    /\ lock' = "mngt" /\ sw' = [pc |-> "deinitialize", new |-> p]
    /\ UNCHANGED <<policy, ctx, count, frozen, attached, io, run, aside>>

(* _ocf_mngt_cache_cleaning_set_policy_deinitialize, also the rollback. *)
Deinitialize(from, to) ==
    /\ At(from)
    /\ frozen' = frozen + 1 /\ Go(to)
    /\ UNCHANGED <<policy, ctx, count, attached, lock, io, run, aside>>

(* .._zero_cb, when nobody has a reference: ocf_cleaning_deinitialize. *)
ZeroCb(from, to) ==
    /\ At(from) /\ count = 0
    /\ ctx' = IF policy = "nop" THEN ctx ELSE "null"
    /\ Go(to)
    /\ UNCHANGED <<policy, count, frozen, attached, lock, io, run, aside>>

(* ocf_cleaning_initialize: acp insists on there being no context yet. *)
Build(p) ==
    /\ ctx' = IF p = "nop" THEN ctx ELSE p
    /\ bug' = (bug \/ (p = "acp" /\ ctx # "null"))

Initialize ==
    /\ At("initialize")
    /\ \/ Build(sw.new) /\ Go("prepopulate") /\ UNCHANGED fails
       \/ sw.new # "nop" /\ Fail /\ Go("failed") /\ UNCHANGED <<ctx, bug>>
    /\ UNCHANGED <<policy, count, frozen, attached, lock, io, run, leaked, bad, disabled>>

(* .._prepopulate: alru's may fail, and nothing undoes initialize then. *)
Prepopulate ==
    /\ At("prepopulate")
    /\ \/ Go("update") /\ UNCHANGED <<leaked, fails>>
       \/ sw.new = "alru" /\ Fail /\ Go("failed") /\ leaked' = TRUE
    /\ UNCHANGED <<policy, ctx, count, frozen, attached, lock, io, run, bad, bug, disabled>>

(* .._update: from here on requests call the new policy; what they did before
   is caught up with by the policy's update, which may fail.                  *)
Update ==
    /\ At("update")
    /\ policy' = sw.new
    /\ frozen' = frozen - 1
    /\ \/ Go("finish") /\ UNCHANGED fails
       \/ sw.new # "nop" /\ Fail /\ Go("rollback")
    /\ UNCHANGED <<ctx, count, attached, lock, io, run, leaked, bad, bug, disabled>>

(* _ocf_mngt_cleaning_set_finish; "failed" is still frozen, or frozen again by
   the rollback.                                                              *)
Finish ==
    /\ sw.pc \in {"finish", "failed"}
    /\ policy' = IF At("failed") THEN "nop" ELSE sw.new
    /\ frozen' = IF At("failed") THEN frozen - 1 ELSE frozen
    /\ lock' = "free" /\ sw' = Idle
    /\ UNCHANGED <<ctx, count, attached, io, run, aside>>

------------------------------------------------------------------------------
(* Attach and detach of the device, also with the management lock. *)

(* _ocf_mngt_cache_deinit_services: ocf_stop_cleaner waits for the thread; no
   request uses the cache any more.                                           *)
Detach ==
    /\ attached /\ lock = "free" /\ run.pc = "idle" /\ count = 0
    /\ ctx' = IF policy = "nop" THEN ctx ELSE "null"
    /\ attached' = FALSE
    /\ UNCHANGED <<policy, count, frozen, lock, sw, io, run, aside>>

(* _ocf_mngt_attach_init_services; off: the cleaner is disabled. *)
AttachInit(off) ==
    /\ ~attached /\ lock = "free"
    /\ policy' = IF off THEN "nop" ELSE policy
    /\ disabled' = off /\ lock' = "mngt"
    /\ \/ Build(policy') /\ sw' = [pc |-> "populate", new |-> policy'] /\ UNCHANGED fails
       \/ policy' # "nop" /\ Fail /\ sw' = [pc |-> "noattach", new |-> policy']
             /\ UNCHANGED <<ctx, bug>>
    /\ UNCHANGED <<count, frozen, attached, io, run, leaked, bad>>

(* .._populate_init_complete: on error the counter is given up, the context
   is not, and cleaning_initialized is not set.                               *)
AttachPopulate ==
    /\ At("populate")
    /\ \/ attached' = TRUE /\ UNCHANGED <<fails, leaked>>
       \/ sw.new # "nop" /\ Fail /\ attached' = FALSE /\ leaked' = TRUE
    /\ lock' = "free" /\ sw' = Idle
    /\ UNCHANGED <<policy, ctx, count, frozen, io, run, bad, bug, disabled>>

AttachFails ==
    /\ At("noattach")
    /\ lock' = "free" /\ sw' = Idle
    /\ UNCHANGED <<policy, ctx, count, frozen, attached, io, run, aside>>

------------------------------------------------------------------------------

(* A cache that has just been started has the default policy and no device. *)
Init ==
    /\ policy = "alru" /\ ctx = "null" /\ count = 0 /\ frozen = 0
    /\ attached = FALSE /\ disabled = FALSE /\ lock = "free" /\ sw = Idle
    /\ io = [t \in Threads |-> "out"] /\ run = Idle
    /\ leaked = FALSE /\ bad = FALSE /\ bug = FALSE /\ fails = 0

Switch ==
    \/ Deinitialize("deinitialize", "zero") \/ ZeroCb("zero", "initialize")
    \/ Initialize \/ Prepopulate \/ Update \/ Finish
    \/ Deinitialize("rollback", "undo") \/ ZeroCb("undo", "failed")
    \/ AttachPopulate \/ AttachFails

Next ==
    \/ Switch \/ Detach
    \/ \E t \in Threads : Enter(t) \/ Call(t)
    \/ CleanerRun \/ NothingToClean \/ PerformCleaning \/ FlushEnd
    \/ \E p \in Policies : SetPolicy(p)
    \/ \E d \in BOOLEAN : AttachInit(d)

(* A pipeline goes on, and a request returns from the policy. *)
Fairness == WF_vars(Switch) /\ \A t \in Threads : WF_vars(Call(t))

Spec == Init /\ [][Next]_vars /\ Fairness

\* The variables have their types; the counter is frozen at most once.
TypeOK ==
    /\ policy \in Policies /\ ctx \in {"null", "alru", "acp"}
    /\ count \in 0 .. Cardinality(Threads) /\ frozen \in 0 .. 1
    /\ lock \in {"free", "cleaner", "mngt"}
    /\ io \in [Threads -> Policies \cup {"out"}] /\ fails \in 0 .. MaxFail

\* Nobody, the end of a flush included, ever works on a context that has been
\* freed or belongs to another policy, although the counter does not cover the
\* flush and a switch only waits for the counter.
ContextSafe == ~bad

\* Between operations an attached cache has exactly the context of its policy,
\* also after a switch that failed half way, and its counter is not frozen:
\* otherwise no dirty line would ever be reported to the policy again.
ContextMatches ==
    At("idle") /\ attached =>
        /\ frozen = 0
        /\ leaked \/ ctx = Context(policy)

\* The assertion of cleaning_policy_acp_initialize that no context is left
\* from before only fails after a prepopulate or populate that failed.
NoStaleContext == bug => leaked

\* A switch of the policy ends, whatever the requests do.
SwitchEnds == []<>At("idle")

\* The context of the cleaning policy as a whole: there for everyone who uses it,
\* the one of the active policy, and gone with it.
ContextSound == TypeOK /\ ContextSafe /\ ContextMatches /\ NoStaleContext
==============================================================================
