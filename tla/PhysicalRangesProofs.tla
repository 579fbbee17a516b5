------------------------ MODULE PhysicalRangesProofs ------------------------
(***************************************************************************)
(* For every list of ranges: if a sorted arrangement of it passes the test *)
(* of neighbours, then no two ranges of it overlap.                        *)
(***************************************************************************)
EXTENDS PhysicalRanges, TLAPS

\* Ranges in the order of sort_by_key that do not overlap follow each other.
\* The size in the key is what makes this true of empty ranges.
LEMMA SortedNeighbours ==
    ASSUME NEW r \in PhysicalRange, NEW other \in PhysicalRange,
           ~key_less(other, r), ~overlaps(r, other)
    PROVE  range_end(r) <= other.offset
  BY DEF PhysicalRange, key_less, overlaps, range_end

\* A range that ends where another starts, or before, does not overlap it.
LEMMA FollowsIsDisjoint ==
    ASSUME NEW r \in PhysicalRange, NEW other \in PhysicalRange,
           range_end(r) <= other.offset
    PROVE  ~overlaps(r, other) /\ ~overlaps(other, r)
  BY DEF PhysicalRange, overlaps, range_end

\* Comparing neighbours is enough: in a sorted list that passes
\* neighbours_disjoint, every range ends before any later one starts.
THEOREM NeighboursSuffice ==
    ASSUME NEW sorted \in Seq(PhysicalRange),
           is_sorted(sorted), neighbours_disjoint(sorted),
           NEW i \in DOMAIN sorted, NEW j \in DOMAIN sorted, i < j
    PROVE  range_end(sorted[i]) <= sorted[j].offset
  <1>1. /\ i \in 1..(Len(sorted) - 1)
        /\ i + 1 \in DOMAIN sorted
        /\ sorted[i] \in PhysicalRange /\ sorted[j] \in PhysicalRange
        /\ sorted[i + 1] \in PhysicalRange
    OBVIOUS
  <1>2. range_end(sorted[i]) <= sorted[i + 1].offset
    <2>1. ~key_less(sorted[i + 1], sorted[i])
      BY <1>1 DEF is_sorted
    <2>2. ~overlaps(sorted[i], sorted[i + 1])
      BY <1>1 DEF neighbours_disjoint
    <2> QED BY <1>1, <2>1, <2>2, SortedNeighbours
  <1>3. sorted[i + 1].offset <= sorted[j].offset
    <2>1. i + 1 = j \/ ~key_less(sorted[j], sorted[i + 1])
      BY <1>1 DEF is_sorted
    <2>2. sorted[i + 1].offset \in Nat /\ sorted[j].offset \in Nat
      BY <1>1 DEF PhysicalRange
    <2>3. CASE i + 1 = j
      BY <2>2, <2>3
    <2>4. CASE ~key_less(sorted[j], sorted[i + 1])
      BY <2>2, <2>4 DEF key_less
    <2> QED BY <2>1, <2>3, <2>4
  <1> QED BY <1>1, <1>2, <1>3 DEF PhysicalRange, range_end

\* What validate_physical_ranges concludes: whatever order sort_by_key brings
\* a list of ranges into, if the neighbours in it do not overlap then no two
\* ranges of the list do.
THEOREM SortedTestIsSound ==
    ASSUME NEW ranges \in Seq(PhysicalRange), NEW sorted \in Seq(PhysicalRange),
           NEW p, rearranges(sorted, ranges, p),
           is_sorted(sorted), neighbours_disjoint(sorted)
    PROVE  pairwise_disjoint(ranges)
  <1> SUFFICES ASSUME NEW i \in DOMAIN ranges, NEW j \in DOMAIN ranges, i # j
               PROVE  ~overlaps(ranges[i], ranges[j])
    BY DEF pairwise_disjoint
  <1>1. PICK k \in DOMAIN ranges : p[k] = i
    BY DEF rearranges
  <1>2. PICK l \in DOMAIN ranges : p[l] = j
    BY DEF rearranges
  <1>3. /\ k \in DOMAIN sorted /\ l \in DOMAIN sorted
        /\ sorted[k] = ranges[i] /\ sorted[l] = ranges[j]
        /\ k # l
    BY <1>1, <1>2 DEF rearranges
  <1>4. ranges[i] \in PhysicalRange /\ ranges[j] \in PhysicalRange
    OBVIOUS
  <1>5. k < l \/ l < k
    BY <1>3
  <1>6. CASE k < l
    BY <1>3, <1>4, <1>6, NeighboursSuffice, FollowsIsDisjoint
  <1>7. CASE l < k
    BY <1>3, <1>4, <1>7, NeighboursSuffice, FollowsIsDisjoint
  <1> QED BY <1>5, <1>6, <1>7
=============================================================================
