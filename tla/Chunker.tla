------------------------------ MODULE Chunker ------------------------------
(***************************************************************************)
(* Deterministic chunk planning: src/src/chunker.rs.                       *)
(*                                                                         *)
(* A text is a sequence of bytes, abstracted to what the planner tells     *)
(* apart: the two newline bytes, the first and the continuation byte of a  *)
(* two-byte UTF-8 character, and any other one-byte character.  Offsets    *)
(* are 0-based as in the code; At(s, i) is the byte at offset i.  A        *)
(* Result::Err, or an Option::None, of the code is None or Rejected here.  *)
(***************************************************************************)
EXTENDS Integers, Sequences, FiniteSets, FiniteSetsExt

CONSTANTS
    target_chunk_size,   \* soft limit on the bytes of a chunk
    max_chunk_size,      \* hard limit on the bytes of a chunk
    max_chunk_entries    \* ResourceLimits: entries that fit an index block

\* ChunkerOptions::validate, called before any chunk is planned.
ASSUME ChunkerOptionsValid ==
    /\ target_chunk_size \in Nat \ {0}
    /\ max_chunk_size \in Nat \ {0}
    /\ target_chunk_size <= max_chunk_size
    /\ max_chunk_entries \in Nat

Byte == {"x", "LF", "CR", "LEAD", "CONT"}

Text == Seq(Byte)

None == -1

Rejected == [rejected |-> TRUE]

At(s, i) == s[i + 1]

\* input[from..to] of Rust, as a sequence.
Slice(s, from, to) == SubSeq(s, from + 1, to)

\* std::str::from_utf8 on this alphabet: LEAD and CONT come in pairs.
from_utf8(s) ==
    \A i \in DOMAIN s :
        /\ s[i] = "LEAD" => (i < Len(s) /\ s[i + 1] = "CONT")
        /\ s[i] = "CONT" => (i > 1 /\ s[i - 1] = "LEAD")

is_utf8_boundary(input, index) ==
    \/ index = 0
    \/ index = Len(input)
    \/ index < Len(input) /\ At(input, index) # "CONT"

splits_crlf(input, end) ==
    /\ end > 0
    /\ end < Len(input)
    /\ At(input, end - 1) = "CR"
    /\ At(input, end) = "LF"

\* What is_utf8_boundary is there to prevent, in a valid text.
splits_character(text, end) ==
    /\ end > 0
    /\ end < Len(text)
    /\ At(text, end - 1) = "LEAD"
    /\ At(text, end) = "CONT"

\* The end of the last line that ends inside [start, end).
last_line_boundary(input, start, end) ==
    LET ends == {e \in (start + 1)..end : At(input, e - 1) = "LF"}
    IN  IF ends = {} \/ splits_crlf(input, Max(ends)) THEN None ELSE Max(ends)

\* Mutant of previous_valid_split: only characters are kept whole.
previous_utf8_split(input, start, max_end) ==
    LET splits == {c \in (start + 1)..max_end : is_utf8_boundary(input, c)}
    IN  IF splits = {} THEN None ELSE Max(splits)

\* The largest offset a chunk may end at without splitting a character or CRLF.
previous_valid_split(input, start, max_end) ==
    LET splits == {c \in (start + 1)..max_end :
                      is_utf8_boundary(input, c) /\ ~splits_crlf(input, c)}
    IN  IF splits = {} THEN None ELSE Max(splits)

\* The last step of choosing an end: a line end within the target, else within
\* the maximum, else any valid split.
choose_split(input, start, target_end, max_end) ==
    LET in_target == last_line_boundary(input, start, target_end)
        in_max == last_line_boundary(input, start, max_end)
    IN  IF in_target # None THEN in_target
        ELSE IF in_max # None THEN in_max
        ELSE previous_valid_split(input, start, max_end)

choose_chunk_end(input, start) ==
    IF Len(input) - start <= target_chunk_size THEN Len(input)
    ELSE choose_split(input, start, start + target_chunk_size,
                      Min({start + max_chunk_size, Len(input)}))

\* LineInfo::from_bytes: a line starts at 0 and after each LF but a final one.
line_starts(input) ==
    {i \in 0..(Len(input) - 1) : i = 0 \/ At(input, i - 1) = "LF"}

\* LineInfo::from_bytes: offsets of the LF bytes that end a CRLF, and the rest.
crlf_ends(input) ==
    {i \in 0..(Len(input) - 1) :
        At(input, i) = "LF" /\ i > 0 /\ At(input, i - 1) = "CR"}

lf_ends(input) ==
    {i \in 0..(Len(input) - 1) : At(input, i) = "LF"} \ crlf_ends(input)

from_counts(lf_count, crlf_count) ==
    IF lf_count > 0
    THEN IF crlf_count > 0 THEN "mixed" ELSE "lf"
    ELSE IF crlf_count > 0 THEN "crlf" ELSE "none"

lower_bound(values, target) == Cardinality({v \in values : v < target})

\* A chunk continues the line of the chunk before it.
continues_line(input, start) == start > 0 /\ At(input, start - 1) # "LF"

planned_chunk(input, chunk_id, start, end) ==
    LET starts == line_starts(input)
    IN  [chunk_id |-> chunk_id,
         logical_offset |-> start,
         uncompressed_size |-> end - start,
         first_line |-> lower_bound(starts, start),
         line_count |-> lower_bound(starts, end) - lower_bound(starts, start),
         flags |-> continues_line(input, start)]

\* The loop of plan_chunks: the ends it chooses from offset start on.
planned_ends(input) ==
    LET ends[start \in 0..Len(input)] ==
            IF start = Len(input) THEN <<>>
            ELSE LET end == choose_chunk_end(input, start)
                 IN  IF end <= start THEN <<None>> ELSE <<end>> \o ends[end]
    IN  ends[0]

plan_chunks(input) ==
    LET ends == planned_ends(input)
        start_of(i) == IF i = 1 THEN 0 ELSE ends[i - 1]
    IN  IF \/ ~from_utf8(input)
           \/ \E i \in DOMAIN ends : ends[i] = None
           \/ Len(ends) > max_chunk_entries
        THEN Rejected
        ELSE [chunks |-> [i \in DOMAIN ends |->
                             planned_chunk(input, i - 1, start_of(i), ends[i])],
              line_count |-> Cardinality(line_starts(input)),
              newline_mode |-> from_counts(Cardinality(lf_ends(input)),
                                           Cardinality(crlf_ends(input)))]
=============================================================================
