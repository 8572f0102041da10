------------------------------- MODULE Striping -------------------------------
(* How both eviction policies spread the cache lines over their lists: stripes of
   chunks, one chunk of every stripe for each list index (src/src/ocf_space.h),
   and the order in which a new cache puts the lines of one index on the freelist:
   chunk by chunk in the order of the bisect generator
   (src/src/utils/utils_generator.c).                                         *)
EXTENDS Integers, Sequences, SequencesExt

CONSTANTS
    Entries,       \* number of cache lines
    NumLists,      \* OCF_NUM_LRU_LISTS, LFU_NUM_SHARDS
    ChunkSize      \* OCF_LRU_CHUNK_SIZE, LFU_CHUNK_SIZE

Lines == 0 .. Entries - 1
End == Entries                             \* end_marker

AllInOrder == [i \in 1 .. Entries |-> i - 1]

(* OCF_LRU_GET_LIST_INDEX, OCF_LFU_GET_SHARD_INDEX *)
ListIndex(c) == (c \div ChunkSize) % NumLists

(* bitreverse32(x) >> clz, for x of w bits *)
BitReverse(x, w) ==
    LET rev[i \in 0 .. w] ==
            IF i = 0 THEN 0 ELSE 2 * rev[i - 1] + ((x \div 2 ^ (i - 1)) % 2)
    IN  rev[w]

(* ocf_generator_bisect_next, called limit times: of all values of the bits that
   limit - 1 needs, mirrored, the ones below limit.  For limit = 1 the code
   calls __builtin_clz(0), which is undefined; whatever it yields, the one value
   that is asked for is 0 shifted, so the width 0 stands for every outcome.   *)
BisectOrder(limit) ==
    LET w == CHOOSE b \in 0 .. limit : 2 ^ b >= limit
                                       /\ \A a \in 0 .. b - 1 : 2 ^ a < limit
    IN  SelectSeq([i \in 1 .. 2 ^ w |-> BitReverse(i - 1, w)],
                  LAMBDA v : v < limit)

Least(a, b) == IF a < b THEN a ELSE b

(* The lines that the shard of one list index adds, in this order. *)
ShardOrder(s) ==
    LET stripe == NumLists * ChunkSize
        full == Entries \div stripe
        rest == Entries % stripe
        part == IF rest > s * ChunkSize THEN Least(rest - s * ChunkSize, ChunkSize)
                ELSE 0
        chunks == full + (IF part > 0 THEN 1 ELSE 0)
        ChunkLine(i, j) == (i * NumLists + s) * ChunkSize + j  \* ocf_get_chunk_cline
        Chunk(i) == [j \in 1 .. IF i = full THEN part ELSE ChunkSize |->
                        ChunkLine(i, j - 1)]
    IN  IF chunks = 0 THEN << >>
        ELSE FoldLeft(LAMBDA acc, i : acc \o Chunk(i), << >>, BisectOrder(chunks))

(* The count all shards add up to, stored as the size of the freelist. *)
PopulatedLines ==
    FoldLeft(LAMBDA n, i : n + Len(ShardOrder(i)), 0,
             [i \in 1 .. NumLists |-> i - 1])

==============================================================================
