--------------------------- MODULE PhysicalRanges ---------------------------
(***************************************************************************)
(* Physical byte ranges of a container and the test that they do not       *)
(* overlap: PhysicalRange and validate_physical_ranges of                  *)
(* src/src/fixed.rs.  A range is half open, [offset, offset + size), and   *)
(* may be empty: the chunk table of an empty container is.                 *)
(***************************************************************************)
EXTENDS Integers, Sequences, TLC

CONSTANTS
    HEADER_LEN,            \* bytes of the fixed header
    FOOTER_TRAILER_LEN     \* bytes of the fixed trailer

ASSUME FixedLengths ==
    /\ HEADER_LEN \in Nat \ {0}
    /\ FOOTER_TRAILER_LEN \in Nat \ {0}

PhysicalRange == [offset : Nat, size : Nat]

range(offset, size) == [offset |-> offset, size |-> size]

range_end(r) == r.offset + r.size

overlaps(r, other) == r.offset < range_end(other) /\ other.offset < range_end(r)

\* Mutant of key_less: ranges at one offset are left as they were given.
offset_less(r, other) == r.offset < other.offset

\* The key (offset, size) of sort_by_key, as an order on ranges.
key_less(r, other) ==
    \/ r.offset < other.offset
    \/ r.offset = other.offset /\ r.size < other.size

sort_by_key(ranges) == SortSeq(ranges, key_less)

\* Mutant of neighbours_disjoint: the last window is left out.
all_but_last_disjoint(sorted) ==
    \A i \in 1..(Len(sorted) - 2) : ~overlaps(sorted[i], sorted[i + 1])

\* windows(2) of the sorted ranges: only neighbours are compared.
neighbours_disjoint(sorted) ==
    \A i \in 1..(Len(sorted) - 1) : ~overlaps(sorted[i], sorted[i + 1])

\* A range lies in the file and clear of its fixed header and trailer.
range_in_bounds(final_file_size, r) ==
    /\ range_end(r) <= final_file_size
    /\ ~overlaps(r, range(0, HEADER_LEN))
    /\ ~overlaps(r, range(final_file_size - FOOTER_TRAILER_LEN, FOOTER_TRAILER_LEN))

validate_physical_ranges(final_file_size, ranges) ==
    /\ final_file_size >= HEADER_LEN + FOOTER_TRAILER_LEN
    /\ \A i \in DOMAIN ranges : range_in_bounds(final_file_size, ranges[i])
    /\ neighbours_disjoint(sort_by_key(ranges))

-----------------------------------------------------------------------------
(* What the test is for.                                                   *)

pairwise_disjoint(ranges) ==
    \A i, j \in DOMAIN ranges : i # j => ~overlaps(ranges[i], ranges[j])

is_sorted(s) == \A i, j \in DOMAIN s : i < j => ~key_less(s[j], s[i])

\* sorted holds the elements of ranges, rearranged by the permutation p.
rearranges(sorted, ranges, p) ==
    /\ DOMAIN sorted = DOMAIN ranges
    /\ p \in [DOMAIN ranges -> DOMAIN ranges]
    /\ \A i \in DOMAIN ranges : \E j \in DOMAIN ranges : p[j] = i
    /\ \A i \in DOMAIN ranges : sorted[i] = ranges[p[i]]
=============================================================================
