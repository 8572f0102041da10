------------------------------ MODULE MCCleaning ------------------------------
(***************************************************************************)
(* The cleaning policies ACP and ALRU, side by side.  The part named by    *)
(* `part` runs, the other one stays in an initial state, without a dirty   *)
(* line.                                                                   *)
(***************************************************************************)
EXTENDS Acp, TLC

VARIABLES
    part,
    acore, class, adirty, aheld, node, list, abug, aopened, amode, atodo, access,
    pass, triggered, aflush, awrites, achanges, aerrors

ThreeAndOne == [c \in {0, 1} |-> IF c = 0 THEN 3 ELSE 1]
Thirds == <<0, 67, 100>>
ZeroAndOne == {0, 1}

ALRU == INSTANCE Alru WITH
    Entries <- 3, Parts <- ZeroAndOne, Cores <- ZeroAndOne, Shards <- 2, Stale <- 0,
    Activity <- 1, WakeUp <- 0, RatioLines <- 3, InertiaLines <- 1,
    core <- acore, part <- class, dirty <- adirty, held <- aheld, bug <- abug,
    opened <- aopened, mode <- amode, todo <- atodo, flush <- aflush,
    writes <- awrites, changes <- achanges, errors <- aerrors

alruVars == <<acore, class, adirty, aheld, node, list, abug, aopened, amode, atodo,
              access, pass, triggered, aflush, awrites, achanges, aerrors>>

(* ACP starts with any dirty lines among two lines of core 0 and a third that is
   of core 0, of core 1 or free. *)
AcpInit ==
    /\ Init
    /\ IF part = "acp"
       THEN mapped[0] = <<0, 0>> /\ mapped[1] = <<0, 1>> /\ mapped[2] \in {<<0, 2>>, <<1, 0>>, None}
       ELSE mapped = [l \in Lines |-> None]

(* ALRU starts with a line of core 1, dirty or not, a dirty one of core 0, and a
   third that is free or dirty; if it is of another io class all are dirty. *)
AlruInit ==
    /\ ALRU!Init
    /\ IF part = "alru"
       THEN /\ acore[0] = 1 /\ acore[1] = 0 /\ acore[2] = (IF adirty[2] THEN 0 ELSE ALRU!None)
            /\ class[0] = 0 /\ class[1] = 0 /\ adirty[1]
            /\ class[2] = 1 => adirty[0] /\ adirty[2]
       ELSE acore = [l \in {0, 1, 2} |-> ALRU!None] /\ class = [l \in {0, 1, 2} |-> 0]

MCInit == part \in {"acp", "alru"} /\ AcpInit /\ AlruInit

MCNext ==
    \/ part = "acp" /\ Next /\ UNCHANGED <<part, alruVars>>
    \/ part = "alru" /\ ALRU!Next /\ UNCHANGED <<part, vars>>

(* The fairness of the part that runs. *)
MCFairness ==
    /\ WF_vars(part = "acp" /\ (\/ CleanerStep
                                \/ /\ flush.chunk # None /\ flush.chunk[1] \notin opened
                                   /\ FlushEnd(TRUE)))
    /\ WF_vars(part = "acp" /\ Populate)
    /\ WF_vars(part = "acp" /\ (UpdateFinish \/ \E cl \in CoreLines : UpdateHandle(cl)))
    /\ WF_alruVars(part = "alru" /\ ALRU!Tick) /\ WF_alruVars(part = "alru" /\ ALRU!CleanerStep)
    /\ WF_alruVars(part = "alru" /\ ALRU!Populate)
    /\ WF_alruVars(part = "alru" /\ (ALRU!UpdateFinish \/ \E l \in Lines : ALRU!UpdateHandle(l)))
    /\ \A l \in Lines : /\ WF_vars(part = "acp" /\ \E d \in BOOLEAN : EndWrite(l, d))
                        /\ WF_alruVars(part = "alru" /\ \E d \in BOOLEAN : ALRU!EndWrite(l, d))

MCSpec == MCInit /\ [][MCNext]_<<part, vars, alruVars>> /\ MCFairness

\* Alru: sound lists of exactly the dirty lines, the oldest at the tail.
AlruSound == part = "alru" => ALRU!AlruSound

\* Acp and Alru: once the writes stop, the dirty lines of opened cores are cleaned,
\* as long as the policy is active.  For Acp that excepts a chunk whose cleaning has
\* failed once and one that populate left in the bucket of the clean chunks (`lag'),
\* which the cleaner never visits.
EverythingDrains == <>[](Drained /\ ALRU!Drained)
==============================================================================
