-------------------------------- MODULE MCCache --------------------------------
(***************************************************************************)
(* A cache from its start to its end, side by side: the handle shared by a *)
(* few clients, one of which stops the cache, and the pipelines that       *)
(* attach, load, activate, detach and stop it among requests.  The part    *)
(* named by `part` runs, the other one stays in its initial state.         *)
(***************************************************************************)
EXTENDS MngtCacheLock

CONSTANT Part   \* the parts to run

VARIABLES
    part,
    bits, has, frz, pt, op, todo, err, flags, closing, dirty, flushed, req, lost,
    twice, half, fails

LIFE == INSTANCE CacheLife WITH Reqs <- {"r1", "r2"}, MaxFail <- 1, st <- bits

lifeVars == <<bits, has, frz, pt, op, todo, err, flags, closing, dirty, flushed, req,
              lost, twice, half, fails>>

MCInit == part \in Part /\ Init /\ LIFE!Init

MCNext ==
    \/ part = "handle" /\ Next /\ UNCHANGED <<part, lifeVars>>
    \/ part = "life" /\ LIFE!Next /\ UNCHANGED <<part, vars>>

(* The fairness of the part that runs. *)
MCFairness ==
    /\ \A c \in Clients :
         /\ WF_vars(part = "handle" /\ Call(c)) /\ WF_vars(part = "handle" /\ LeaveLock(c))
         /\ SF_vars(part = "handle" /\ UnlockCache(c))
         /\ WF_vars(part = "handle" /\ PutHandle(c))
    /\ WF_vars(part = "handle" /\ StopStep) /\ WF_vars(part = "handle" /\ ZeroCallback)
    /\ WF_lifeVars(part = "life" /\ LIFE!Step) /\ WF_lifeVars(part = "life" /\ LIFE!Finish)
    /\ \A r \in {"r1", "r2"} :
         WF_lifeVars(part = "life" /\ (LIFE!NewReqD2c(r) \/ LIFE!Submit(r) \/ LIFE!Complete(r)))

MCSpec == MCInit /\ [][MCNext]_<<part, vars, lifeVars>> /\ MCFairness

\* CacheLife: each request finds what it works on, requests with and without the
\* cache are kept apart, a detach leaves nothing dirty; with the exceptions stated
\* there (activations that fail late, requests that stray).
RequestsServed == part = "life" => LIFE!RequestsServed

\* CacheLife: a failed operation is undone, but for the losses stated there.
RollbackExact == part = "life" => LIFE!RollbackExact

\* MngtCacheLock and CacheLife: a stopped cache is freed, calls are answered and
\* operations end.
OperationsEnd == StoppedIsFreed /\ CallAnswered /\ LIFE!OperationEnds

\* CacheLife: what ocf_req_new asserts, that a request always finds a counter that
\* is not frozen.
NoBug == part = "life" => LIFE!NoBug
================================================================================
