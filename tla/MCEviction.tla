------------------------------ MODULE MCEviction ------------------------------
(***************************************************************************)
(* The lists of the two eviction policies, the management of space and the *)
(* detection of sequential streams, checked side by side: the part named   *)
(* by `part` runs.  The policies take turns with one set of variables: LRU *)
(* with four lines, LRU with three lines that move between two partitions, *)
(* LFU with two lines in two partitions and overlapping hits, LFU with     *)
(* three lines.                                                            *)
(***************************************************************************)
EXTENDS Integers, Sequences

VARIABLES
    part,
    node, lst, dirty, valid, size, apart, hit, raced, todo, bug,
    loc, map, written, order, lock, counter, listLock, req, hitter, stolen, calm,
    stream, lists, misplaced, lru, consumers, thr, asked, cutOff, wrong, calls

LRU == INSTANCE LruList WITH
    Entries <- 4, NumLists <- 1, ChunkSize <- 1,
    UserParts <- {"p0"}, Default <- "p0", Hits <- {"h1", "h2"}

LRU2 == INSTANCE LruList WITH
    Entries <- 3, NumLists <- 1, ChunkSize <- 1,
    UserParts <- {"p0", "p1"}, Default <- "p0", Hits <- {"h1"}

LFU2 == INSTANCE LfuList WITH
    Entries <- 2, NumLists <- 1, ChunkSize <- 2, MaxFreq <- 3, MaxHits <- 4,
    UserParts <- {"p0", "p1"}, Default <- "p0", Hits <- {"h1", "h2"}

LFU3 == INSTANCE LfuList WITH
    Entries <- 3, NumLists <- 1, ChunkSize <- 2, MaxFreq <- 3, MaxHits <- 4,
    UserParts <- {"p0"}, Default <- "p0", Hits <- {"h1"}

Class(prio, min, max) == [prio |-> prio, min |-> min, max |-> max, evict |-> TRUE]
Plan(range, to) == [range |-> range, part |-> to]

SPACE == INSTANCE Space WITH
    Entries <- 3, Warm <- <<2, 3, 4>>, HotCores <- {4},
    Requests <- {1, 2}, Hitters <- {3},
    Plans <- <<{Plan({0, 1}, "hi")}, {Plan({1, 2}, "lo"), Plan({3}, "lo")}>>,
    PartOrder <- <<"lo", "hi">>,
    Conf <- [lo |-> Class(2, 1, 2), hi |-> Class(1, 0, 2)],
    Quota <- 1, MaxCounter <- 1,
    dirty <- written, hit <- hitter

(* One request at a time, with more to ask for than the partitions can give. *)
ALONE == INSTANCE Space WITH
    Entries <- 3, Warm <- <<2, 3, 4>>, HotCores <- {4},
    Requests <- {1}, Hitters <- {3},
    Plans <- <<{Plan({0, 1}, "hi"), Plan({5}, "hi")}>>,
    PartOrder <- <<"lo", "hi">>,
    Conf <- [lo |-> Class(2, 1, 2), hi |-> Class(1, 0, 3)],
    Quota <- 1, MaxCounter <- 1,
    dirty <- written, hit <- hitter

Readers == {"t1", "t2"}
OneQueue == [t \in Readers |-> "q"]
Series == {<<0, 1, "rd", "c1">>, <<1, 1, "rd", "c1">>, <<2, 1, "rd", "c2">>,
           <<2, 1, "rd", "c1">>, <<1, 1, "wr", "c1">>}
Calls == [t1 |-> 2, t2 |-> 2]

SEQ == INSTANCE SeqDetect WITH
    Threads <- Readers, QueueOf <- OneQueue, Cores <- {"c1", "c2"}, Requests <- Series,
    NumStreams <- 2,
    PromoteCount <- 2, PromoteBytes <- 4, Cutoff <- 3, MaxCalls <- Calls

listvars == <<node, lst, dirty, valid, size, apart, hit, raced, todo, bug>>
spacevars == <<loc, map, written, order, lock, counter, listLock, req, hitter,
               stolen, calm>>
seqvars == <<stream, lists, misplaced, lru, consumers, thr, asked, cutOff, wrong, calls>>

MCInit ==
    /\ part \in {"lru", "lru2", "lfu2", "lfu3", "space", "alone", "seq"}
    /\ IF part = "alone" THEN ALONE!Init ELSE SPACE!Init
    /\ CASE part = "lru2" -> LRU2!Init /\ raced = {}
         [] part = "lfu2" -> LFU2!Init
         [] part = "lfu3" -> LFU3!Init
         [] OTHER -> LRU!Init /\ raced = {}
    /\ SEQ!Init /\ (part # "seq" => consumers = {})

MCNext ==
    \/ part = "lru" /\ LRU!Next /\ UNCHANGED <<part, raced, spacevars, seqvars>>
    \/ part = "lru2" /\ LRU2!Next /\ UNCHANGED <<part, raced, spacevars, seqvars>>
    \/ part = "lfu2" /\ LFU2!Next /\ UNCHANGED <<part, spacevars, seqvars>>
    \/ part = "lfu3" /\ LFU3!Next /\ UNCHANGED <<part, spacevars, seqvars>>
    \/ part = "space" /\ SPACE!Next /\ UNCHANGED <<part, listvars, seqvars>>
    \/ part = "alone" /\ ALONE!Next /\ UNCHANGED <<part, listvars, seqvars>>
    \/ part = "seq" /\ SEQ!Next /\ UNCHANGED <<part, listvars, spacevars>>

MCSpec == MCInit /\ [][MCNext]_<<part, listvars, spacevars, seqvars>>

\* LruList: every line is on its list, the links agree, the hot half is in front,
\* and a restore finds the very lists that were left.
LruSound == (part = "lru" => LRU!LruSound) /\ (part = "lru2" => LRU2!LruSound)

\* LfuList: every line is on its list, the links agree, the bucket is the one of its
\* hits, and a restore finds the very lists that were left.
LfuSound == (part = "lfu2" => LFU2!LfuSound) /\ (part = "lfu3" => LFU3!LfuSound)

\* Space: mappings, freelist and locks agree, and no scan takes a line from under a
\* waiter (the successor path does).
SpaceSound == (part = "space" => SPACE!SpaceSound) /\ (part = "alone" => ALONE!SpaceSound)

\* LruList: a step moves at most one line, to the head of a list.  Space: the scans of
\* an undisturbed request leave every partition but its own its minimum (successor
\* lines are taken regardless), and it fails only if no line could be evicted for it
\* or some partition's quota was overdrawn or held by one without lines to give.
EvictionFair ==
    [][/\ part = "lru" => LRU!MovesOneStep
       /\ part = "lru2" => LRU2!MovesOneStep
       /\ part = "space" => SPACE!MinKeptStep /\ SPACE!FailsStep
       /\ part = "alone" => ALONE!MinKeptStep /\ ALONE!FailsStep]_<<part, listvars, spacevars>>

\* SeqDetect: streams, promotions and cutoffs are earned by requests in sequence.
StreamsSound == part = "seq" => SEQ!StreamsSound
==============================================================================
