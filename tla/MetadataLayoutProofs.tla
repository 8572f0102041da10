------------------------ MODULE MetadataLayoutProofs ------------------------
(***************************************************************************)
(* The layout search for every device, segment table and line size.        *)
(***************************************************************************)
EXTENDS MetadataLayout, TLAPS

\* Floor division and the product with the divisor.
LEMMA DivBound ==
    ASSUME NEW a \in Int, NEW b \in Nat \ {0}
    PROVE  /\ (a \div b) \in Int
           /\ (a \div b) * b <= a
           /\ a < (a \div b) * b + b
           /\ a >= 0 => (a \div b) >= 0
  BY Z3

\* OCF_DIV_ROUND_UP covers its argument.
LEMMA RoundUpCovers ==
    ASSUME NEW a \in Int, NEW b \in Nat \ {0}
    PROVE  /\ DivRoundUp(a, b) \in Int
           /\ DivRoundUp(a, b) * b >= a
           /\ a > 0 => DivRoundUp(a, b) > 0
<1>1. a + b - 1 \in Int
  OBVIOUS
<1>2. /\ ((a + b - 1) \div b) \in Int
      /\ a + b - 1 < ((a + b - 1) \div b) * b + b
      /\ ((a + b - 1) \div b) * b <= a + b - 1
  BY <1>1, DivBound
<1>3. ((a + b - 1) \div b) * b >= a
  BY <1>2, Z3
<1>4. ASSUME a > 0 PROVE ((a + b - 1) \div b) > 0
  BY <1>2, <1>3, <1>4, Z3
<1> QED
  BY <1>2, <1>3, <1>4 DEF DivRoundUp

\* A segment has an entry for every line, and room for its pages.
LEMMA SegmentCovers ==
    ASSUME NEW s \in Segments, NEW n \in Int
    PROVE  /\ SegmentPages(s, n) \in Int
           /\ SegmentPages(s, n) * Epp[s] * Per(s) >= n
           /\ SizeOnSsd(s, n) \in Int
           /\ n > 0 => SegmentPages(s, n) > 0
           /\ n > 0 => SizeOnSsd(s, n) >= 0
           /\ ~(s = "cleaning" /\ CleanerDisabled)
                => SizeOnSsd(s, n) >= SegmentPages(s, n)
<1> DEFINE e == Entries(s, n)
           q == SegmentPages(s, n)
           z == DivRoundUp(q, Align) * Align
<1>1. Per(s) \in Nat \ {0} /\ Epp[s] \in Nat \ {0} /\ Align \in Nat \ {0}
  BY LayoutAssumption DEF Per
<1>2. e \in Int /\ e * Per(s) >= n /\ (n > 0 => e > 0)
  BY <1>1, RoundUpCovers DEF Entries
<1>3. q \in Int /\ q * Epp[s] >= e /\ (e > 0 => q > 0)
  BY <1>1, <1>2, RoundUpCovers DEF SegmentPages
<1>4. z \in Int /\ z >= q
  BY <1>1, <1>3, RoundUpCovers
<1>5. q * Epp[s] * Per(s) >= n
  <2> DEFINE k == Per(s)
             w == q * Epp[s]
  <2>1. k \in Nat \ {0} /\ w \in Int /\ w >= e /\ e * k >= n
    BY <1>1, <1>2, <1>3
  <2> HIDE DEF k, w, e
  <2>2. w * k >= e * k
    BY <2>1, <1>2, Z3
  <2>3. w * k >= n
    BY <2>1, <2>2, <1>2, Z3
  <2> QED
    BY <2>3 DEF k, w
<1>6. SizeOnSsd(s, n) = IF s = "cleaning" /\ CleanerDisabled THEN 0 ELSE z
  BY DEF SizeOnSsd
<1> HIDE DEF z
<1> QED
  BY <1>2, <1>3, <1>4, <1>5, <1>6

LEMMA CountPagesType ==
    ASSUME NEW n \in Int
    PROVE  CountPages(n) \in Int
  BY SegmentCovers DEF CountPages, Offset, Segments

\* Lines that fit beside the metadata do fit: C division rounds a positive
\* quotient down.
LEMMA BesideFits ==
    ASSUME NEW d \in Nat, NEW p \in Int, NEW n \in Int, n > 0,
           n <= CDiv(d * LinePages - (FixedPages + p), LinePages)
    PROVE  FixedPages + p + n * LinePages <= d * LinePages
<1> DEFINE x == d * LinePages - (FixedPages + p)
           L == LinePages
<1>1. L \in Nat \ {0} /\ FixedPages \in Nat
  BY LayoutAssumption
<1>2. x \in Int
  BY <1>1, Z3
<1>3. n <= CDiv(x, L)
  OBVIOUS
<1>4. FixedPages + p = d * LinePages - x
  BY <1>1, Z3
<1> HIDE DEF x, L
<1>5. CASE x >= 0
  <2>1. n <= x \div L
    BY <1>3, <1>5 DEF CDiv
  <2>2. (x \div L) \in Int /\ (x \div L) * L <= x
    BY <1>1, <1>2, DivBound
  <2>3. n * L <= (x \div L) * L
    BY <2>1, <2>2, <1>1, Z3
  <2>4. n * L <= x
    BY <2>2, <2>3, <1>1, <1>2, Z3
  <2>5. d * LinePages \in Int
    BY <1>1 DEF L
  <2> QED
    BY <2>4, <2>5, <1>1, <1>2, <1>4 DEF L
<1>6. CASE x < 0
  <2>1. -x \in Nat
    BY <1>2, <1>6
  <2>2. ((-x) \div L) \in Int /\ ((-x) \div L) >= 0
    BY <2>1, <1>1, DivBound
  <2>3. CDiv(x, L) = -((-x) \div L)
    BY <1>6, <1>2 DEF CDiv
  <2> QED
    BY <2>2, <2>3, <1>3
<1> QED
  BY <1>2, <1>5, <1>6

LEMMA LinesBesideType ==
    ASSUME device \in Nat, NEW p \in Int
    PROVE  LinesBeside(p) \in Int
<1> DEFINE x == device * LinePages - (FixedPages + p)
<1>1. LinePages \in Nat \ {0} /\ FixedPages \in Nat
  BY LayoutAssumption
<1>2. x \in Int /\ -x \in Int
  BY <1>1, Z3
<1> HIDE DEF x
<1>3. (x \div LinePages) \in Int /\ ((-x) \div LinePages) \in Int
  BY <1>1, <1>2, DivBound
<1>4. CDiv(x, LinePages) \in Int
  BY <1>3 DEF CDiv
<1> QED
  BY <1>4 DEF LinesBeside, x

\* What the search maintains: when it has settled, the metadata was counted
\* for the number of lines in use, and these are not more than fit beside it.
Settled ==
    st = "ok" => pages = CountPages(lines) /\ lines <= LinesBeside(pages)

LEMMA TypeInv == Spec => []TypeOK
<1>1. Init => TypeOK
  BY LayoutAssumption DEF Init, TypeOK
<1>2. TypeOK /\ [Round]_vars => TypeOK'
  <2> SUFFICES ASSUME TypeOK, [Round]_vars PROVE TypeOK'
    OBVIOUS
  <2>1. CASE Round
    <3>1. device \in Nat /\ lines \in Int
      BY LayoutAssumption DEF TypeOK
    <3>2. CountPages(lines) \in Int
      BY <3>1, CountPagesType
    <3>3. LinesBeside(CountPages(lines)) \in Int
      BY <3>1, <3>2, LinesBesideType
    <3> QED
      BY <2>1, <3>1, <3>2, <3>3 DEF Round, TypeOK
  <2>2. CASE UNCHANGED vars
    BY <2>2 DEF TypeOK, vars
  <2> QED
    BY <2>1, <2>2
<1> QED
  BY <1>1, <1>2, PTL DEF Spec

LEMMA SettledInv == Spec => []Settled
<1>1. Init => Settled
  BY DEF Init, Settled
<1>2. TypeOK /\ Settled /\ [Round]_vars => Settled'
  <2> SUFFICES ASSUME TypeOK, Settled, [Round]_vars PROVE Settled'
    OBVIOUS
  <2>1. CASE Round
    <3> DEFINE p == CountPages(lines)
    <3>1. device \in Nat /\ lines \in Int
      BY LayoutAssumption DEF TypeOK
    <3>2. p \in Int /\ LinesBeside(p) \in Int
      BY <3>1, CountPagesType, LinesBesideType
    <3>3. pages' = p /\ device' = device
      BY <2>1 DEF Round
    <3>4. LinesBeside(pages)' = LinesBeside(p)
      BY <3>3 DEF LinesBeside
    <3>5. ASSUME st' = "ok" PROVE lines' = lines /\ lines <= LinesBeside(p)
      BY <2>1, <3>1, <3>2, <3>5 DEF Round, SameSurplus
    <3>6. ASSUME st' = "ok" PROVE CountPages(lines)' = p
      BY <3>5, <3>6
    <3> QED
      BY <3>3, <3>4, <3>5, <3>6 DEF Settled
  <2>2. CASE UNCHANGED vars
    BY <2>2 DEF Settled, vars, CountPages, LinesBeside
  <2> QED
    BY <2>1, <2>2
<1> QED
  BY <1>1, <1>2, TypeInv, PTL DEF Spec

\* The layout fits on the device, whatever its size, the line size and the
\* sizes of the metadata entries.
THEOREM LayoutFits == Spec => []Fits
<1>1. TypeOK /\ Settled => Fits
  <2> SUFFICES ASSUME TypeOK, Settled, st = "ok", lines > 0
               PROVE FixedPages + pages + lines * LinePages
                        <= device * LinePages
    BY DEF Fits
  <2>1. device \in Nat /\ lines \in Int /\ pages \in Int
    BY LayoutAssumption DEF TypeOK
  <2>2. lines <= CDiv(device * LinePages - (FixedPages + pages), LinePages)
    BY DEF Settled, LinesBeside
  <2> QED
    BY <2>1, <2>2, BesideFits
<1> QED
  BY <1>1, TypeInv, SettledInv, PTL

\* Every line has its entry in every segment and the segments are disjoint.
THEOREM LayoutCovers == Spec => []Covered
<1>1. TypeOK /\ Settled => Covered
  <2> SUFFICES ASSUME TypeOK, Settled, st = "ok", lines > 0
               PROVE Covered
    BY DEF Covered
  <2>1. lines \in Int /\ pages = CountPages(lines)
    BY DEF TypeOK, Settled
  <2> DEFINE S(s) == SizeOnSsd(s, lines)
             P(s) == SegmentPages(s, lines)
  <2>2. \A s \in Segments :
           /\ S(s) \in Int /\ S(s) >= 0
           /\ P(s) \in Int /\ P(s) > 0
           /\ P(s) * Epp[s] * Per(s) >= lines
           /\ (s \in Used => S(s) >= P(s))
    BY <2>1, SegmentCovers DEF Used
  <2>3. Used \subseteq Segments
    BY DEF Used
  <2>4. /\ Offset(lines).cleaning = 0
        /\ Offset(lines).eviction = S("cleaning")
        /\ Offset(lines).collision = S("cleaning") + S("eviction")
        /\ Offset(lines).list_info =
              S("cleaning") + S("eviction") + S("collision")
        /\ Offset(lines).hash =
              S("cleaning") + S("eviction") + S("collision") + S("list_info")
        /\ pages = Offset(lines).hash + S("hash")
    BY <2>1 DEF Offset, CountPages
  <2> HIDE DEF S, P
  <2>5. \A s \in Used : Offset(lines)[s] + P(s) <= pages
    BY <2>2, <2>3, <2>4 DEF Segments
  <2>6. \A s, r \in Used : Offset(lines)[s] < Offset(lines)[r] =>
                              Offset(lines)[s] + P(s) <= Offset(lines)[r]
    BY <2>2, <2>3, <2>4 DEF Segments
  <2> QED
    BY <2>1, <2>2, <2>3, <2>5, <2>6 DEF Covered, P
<1> QED
  BY <1>1, TypeInv, SettledInv, PTL

\* The layout that ocf_metadata_calculate_metadata_size settles on: it fits into
\* the device and every line has its entries.
THEOREM LayoutIsSound == Spec => []LayoutSound
BY TypeInv, LayoutFits, LayoutCovers, PTL DEF LayoutSound
=============================================================================
