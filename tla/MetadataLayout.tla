--------------------------- MODULE MetadataLayout ---------------------------
(***************************************************************************)
(* How many cache lines a device holds: metadata.c searches for a number   *)
(* of lines such that the lines and the metadata describing them fit on    *)
(* the device, and lays the variable-size segments out behind the fixed    *)
(* ones.  All sizes are in pages; a cache line is LinePages pages.         *)
(***************************************************************************)
EXTENDS Integers

CONSTANTS
    Epp,          \* entries per page of each variable-size segment
    CleanerDisabled,  \* the cleaning segment is left out
    Align,        \* pages a segment's size is rounded up to (128 KiB)
    FixedPages,   \* pages of the fixed-size segments
    LinePages,    \* pages of a cache line
    DeviceLines,  \* sizes of the device, in lines
    DiffMax       \* OCF_METADATA_HASH_DIFF_MAX

\* metadata_segment_variable_size_start and on, in the order of their offsets.
Segments == {"cleaning", "eviction", "collision", "list_info", "hash"}

ASSUME LayoutAssumption ==
    /\ Align \in Nat \ {0} /\ LinePages \in Nat \ {0}
    /\ FixedPages \in Nat /\ DiffMax \in Nat
    /\ DeviceLines \subseteq Nat \ {0}
    /\ Epp \in [Segments -> Nat \ {0}]
    /\ CleanerDisabled \in BOOLEAN

VARIABLES
    device,   \* ctrl->device_lines
    lines,    \* cache_lines
    pages,    \* count_pages: variable metadata pages of the last round
    diff,     \* diff_lines
    lowest,   \* lowest_diff
    round,    \* i_diff
    st        \* "search" or "ok"

vars == <<device, lines, pages, diff, lowest, round, st>>

DivRoundUp(a, b) == (a + b - 1) \div b

\* Division of the C language: towards zero.
CDiv(a, b) == IF a >= 0 THEN a \div b ELSE -((-a) \div b)

\* ocf_metadata_get_entries: a hash bucket serves four lines, the other
\* segments have an entry per line.
Per(s) == IF s = "hash" THEN 4 ELSE 1
Entries(s, n) == DivRoundUp(n, Per(s))

\* Pages a segment needs, and the aligned size it takes on the device.
SegmentPages(s, n) == DivRoundUp(Entries(s, n), Epp[s])
SizeOnSsd(s, n) ==
    IF s = "cleaning" /\ CleanerDisabled THEN 0
    ELSE DivRoundUp(SegmentPages(s, n), Align) * Align

\* ssd_pages_offset of every segment, relative to the fixed ones.
Offset(n) ==
    LET e == SizeOnSsd("cleaning", n)
        c == e + SizeOnSsd("eviction", n)
        l == c + SizeOnSsd("collision", n)
        h == l + SizeOnSsd("list_info", n)
    IN [cleaning |-> 0, eviction |-> e, collision |-> c, list_info |-> l,
        hash |-> h]

\* count_pages: the end of the last segment.
CountPages(n) == Offset(n).hash + SizeOnSsd("hash", n)

\* Mutant: the fixed-size segments are forgotten.
BesideVariable(p) == CDiv(device * LinePages - p, LinePages)

\* The lines that would fit beside p pages of variable metadata.
LinesBeside(p) == CDiv(device * LinePages - (FixedPages + p), LinePages)

Init ==
    /\ device \in DeviceLines
    /\ lines = device /\ lowest = device
    /\ pages = 0 /\ diff = 0 /\ round = 0 /\ st = "search"

\* Mutant: an oscillating search goes on.
NeverSame(d) == FALSE

\* The same surplus as before.
SameSurplus(d) == d > 0 /\ d = lowest

\* One round: size the metadata for the current number of lines, see how many
\* lines fit beside it, and move there.  The search ends when nothing changes,
\* or when the same surplus is met twice (the number of lines oscillates).
\* The exception handler behind DiffMax rounds is left out: SettlesEarly.
Round ==
    LET p == CountPages(lines)  d == LinesBeside(p) - lines IN
    /\ st = "search"
    /\ round < DiffMax
    /\ pages' = p /\ diff' = d
    /\ lowest' = IF d > 0 /\ d < lowest THEN d ELSE lowest
    /\ IF SameSurplus(d)
       THEN st' = "ok" /\ UNCHANGED <<lines, round>>
       ELSE /\ lines' = lines + d /\ round' = round + 1
            /\ st' = IF d = 0 THEN "ok" ELSE "search"
    /\ UNCHANGED device

Spec == Init /\ [][Round]_vars
-----------------------------------------------------------------------------
TypeOK ==
    /\ device \in DeviceLines /\ lines \in Int /\ pages \in Int
    /\ diff \in Int /\ lowest \in Int /\ round \in Nat
    /\ st \in {"search", "ok"}

\* The layout fits: when the search has settled, the fixed and the variable
\* metadata and all the cache lines are on the device together.  (No line at
\* all is refused by the ENV_BUG_ON of ocf_metadata_get_entries.)
Fits ==
    st = "ok" /\ lines > 0 =>
        FixedPages + pages + lines * LinePages <= device * LinePages

\* The metadata was sized for the number of lines that is used, so every line
\* has its entry in every segment and no segment reaches into the next one.
Used == IF CleanerDisabled THEN Segments \ {"cleaning"} ELSE Segments

Covered ==
    st = "ok" /\ lines > 0 =>
        /\ pages = CountPages(lines)
        /\ \A s \in Used :
             /\ SegmentPages(s, lines) * Epp[s] * Per(s) >= lines
             /\ Offset(lines)[s] + SegmentPages(s, lines) <= pages
             /\ \A r \in Used :
                  Offset(lines)[s] < Offset(lines)[r] =>
                    Offset(lines)[s] + SegmentPages(s, lines)
                       <= Offset(lines)[r]

\* "Never should be here": the search settles before the exception handler is
\* reached, and never leaves the device or stops at no line at all.
SettlesEarly == round < DiffMax /\ lines \in 1 .. device

\* The layout ocf_metadata_calculate_metadata_size settles on: the segments fit beside
\* the lines they describe and have an entry for each.
LayoutSound == TypeOK /\ Fits /\ Covered
=============================================================================
