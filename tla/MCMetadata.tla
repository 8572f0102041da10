----------------------------- MODULE MCMetadata -----------------------------
(***************************************************************************)
(* The three parts of the metadata service, checked side by side: the part *)
(* named by `part` runs, the others stay in their initial state.           *)
(***************************************************************************)
EXTENDS MetadataLayout, Sequences, FiniteSets

VARIABLES
    part,
    sb, conf, run, dirty, disk, view, pend, sbdisk, sbview, sbpend, op, todo,
    promise, fresh, crashes, errors,
    job, ar, mr, queue, mem, page, lost, failures, nomem

const_Epp == [cleaning |-> 9, eviction |-> 7, collision |-> 4, list_info |-> 8,
              hash |-> 6]
const_DeviceLines == 30 .. 200

SB == INSTANCE Superblock WITH
        Flapped <- {"core_config", "part_config"},
        Runtime <- {"collision", "hash"},
        MaxConf <- 2, MaxRun <- 3, MaxCrash <- 2, MaxError <- 1

Plan(k, S) == [kind |-> k, pages |-> S]
Nothing == Plan("flush", {})
Two(a, b) == [j \in {"a", "b"} |-> IF j = "a" THEN a ELSE b]

IO == INSTANCE MetadataIo WITH
        Pages <- 1 .. 3, Jobs <- {"a", "b"},
        Plans <- {Two(Plan("flush", {1, 2, 3}), Plan("flush", {3})),
                  Two(Plan("flush", {1, 3}), Plan("flush", {3})),
                  Two(Plan("all", {1, 2, 3}), Plan("flush", {2})),
                  Two(Plan("load", {1, 2, 3}), Nothing),
                  Two(Plan("zero", {1, 2}), Nothing)},
        MaxIo <- 1, ReqLimit <- 2, MaxError <- 1, MaxNoMem <- 1,
        disk <- page, errors <- failures

sbvars == <<sb, conf, run, dirty, disk, view, pend, sbdisk, sbview, sbpend, op,
            todo, promise, fresh, crashes, errors>>
iovars == <<job, ar, mr, queue, mem, page, lost, failures, nomem>>

MCInit ==
    /\ part \in {"layout", "superblock", "io"}
    /\ Init /\ SB!Init /\ IO!Init
    /\ part # "layout" => device = 30
    /\ part # "io" => job.a.kind = "zero"

MCNext ==
    \/ part = "layout" /\ Round /\ UNCHANGED <<part, sbvars, iovars>>
    \/ part = "superblock" /\ SB!Next /\ UNCHANGED <<part, vars, iovars>>
    \/ part = "io" /\ IO!Next /\ UNCHANGED <<part, vars, sbvars>>

MCSpec == MCInit /\ [][MCNext]_<<part, vars, sbvars, iovars>>

\* Superblock: whatever survives a power failure can be loaded, and a clean shutdown
\* mark vouches for the runtime segments, also after a failed flush as long as no
\* other has started to write; from there until a flush succeeds, nothing is said.
SuperblockSound == part = "superblock" => SB!SuperblockSound

\* Superblock: the configuration is stored atomically, as StableConfig says, from a
\* successful flush to the next failed one.
AtomicConfig == SB!AtomicConfig

\* MetadataIo: nothing is used after it was freed, what was reported done is on the
\* device, and every completion is owed exactly once, but for the jobs in `lost`,
\* which a failed allocation or a lost error leaves without one.
PagesSound == part = "io" => IO!PagesSound
=============================================================================
