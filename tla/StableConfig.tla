---------------------------- MODULE StableConfig ----------------------------
(***************************************************************************)
(* What the metadata of a cache device promises: one stored configuration  *)
(* that changes atomically.  While the promise stands, the stored value is *)
(* replaced only by the value being saved, whether the save completes or   *)
(* power fails in the middle of it.                                        *)
(***************************************************************************)
EXTENDS Naturals

VARIABLES
    stored,   \* the configuration a load would find
    goal,     \* the configuration the cache is working with
    promise   \* the device holds a configuration written successfully

sc == <<stored, goal, promise>>

Init == promise = FALSE /\ stored \in Nat /\ goal \in Nat

\* The cache starts to work with another configuration.
Aim == promise' = promise /\ stored' = stored /\ goal' \in Nat

\* A save completes.
Commit == promise' = TRUE /\ stored' = goal /\ goal' = goal

\* Power fails: the save in progress has or has not happened.
Fail ==
    /\ promise' = promise
    /\ stored' \in {stored, goal}
    /\ goal' = stored'

\* A save failed or the device is reformatted: nothing is promised until the
\* next successful save.
Renounce == promise' = FALSE /\ stored' \in Nat /\ goal' \in Nat

Next == Aim \/ Commit \/ Fail \/ Renounce

Spec == Init /\ [][Next]_sc
=============================================================================
