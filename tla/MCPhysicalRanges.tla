-------------------------- MODULE MCPhysicalRanges --------------------------
(***************************************************************************)
(* validate_physical_ranges on every list of ranges that can be collected  *)
(* range by range, in any order, as the open functions of src/src/         *)
(* skeleton.rs collect them.                                               *)
(***************************************************************************)
EXTENDS PhysicalRanges

CONSTANTS
    MaxOffset,      \* bound: largest offset
    MaxSize,        \* bound: largest size of a range
    MaxFile,        \* bound: largest size of a file
    MaxRanges       \* bound: ranges of a file

VARIABLES final_file_size, ranges

vars == <<final_file_size, ranges>>

Init == final_file_size \in 0..MaxFile /\ ranges = <<>>

push(r) ==
    /\ Len(ranges) < MaxRanges
    /\ ranges' = Append(ranges, r)
    /\ UNCHANGED final_file_size

Next == \E offset \in 0..MaxOffset, size \in 0..MaxSize : push(range(offset, size))

Spec == Init /\ [][Next]_vars

\* The bytes of a range.
extent(r) == r.offset..(range_end(r) - 1)

\* Comparing neighbours after the sort is as good as comparing every pair:
\* validate_physical_ranges accepts a list exactly when all ranges are in
\* bounds and no two of them overlap, however they were ordered and although
\* some may be empty.
VerdictExact ==
    validate_physical_ranges(final_file_size, ranges) <=>
        /\ final_file_size >= HEADER_LEN + FOOTER_TRAILER_LEN
        /\ \A i \in DOMAIN ranges : range_in_bounds(final_file_size, ranges[i])
        /\ pairwise_disjoint(ranges)

\* In a list that is accepted every byte of the file has at most one owner:
\* the header, the trailer or one range.
EveryByteOwnedOnce ==
    validate_physical_ranges(final_file_size, ranges) =>
        \A byte \in 0..MaxFile + MaxSize :
            LET owners == {i \in DOMAIN ranges : byte \in extent(ranges[i])}
            IN  /\ \A i, j \in owners : i = j
                /\ owners # {} => /\ byte >= HEADER_LEN
                                  /\ byte < final_file_size - FOOTER_TRAILER_LEN
=============================================================================
