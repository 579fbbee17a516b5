---------------------------- MODULE ChunkerProofs ----------------------------
(***************************************************************************)
(* Where the planner's choices can lie: the end that choose_split returns  *)
(* is inside the window it was given and cuts neither a character nor a    *)
(* CRLF, for every text.                                                   *)
(***************************************************************************)
EXTENDS Chunker, TLAPS, WellFoundedInduction

\* A nonempty set of natural numbers has a least element: induction, in the
\* form that needs no operator.
LEMMA LeastNatural ==
    ASSUME NEW S \in SUBSET Nat, S # {}
    PROVE  \E least \in S : \A x \in S : least <= x
  <1> DEFINE R == {pair \in Nat \X Nat : pair[1] < pair[2]}
  <1>1. R = OpToRel(<, Nat)
    BY Zenon DEF OpToRel
  <1>2. IsWellFoundedOn(R, Nat)
    BY <1>1, NatLessThanWellFounded, Zenon
  <1>3. \A x, y \in Nat : <<y, x>> \notin R => x <= y
    BY SMTT(30)
  <1> HIDE DEF R
  <1>4. PICK least \in S : \A x \in S : <<x, least>> \notin R
    BY <1>2, WFMin, Zenon
  <1> QED BY <1>3, <1>4, Zenon

\* A nonempty set of integers with an upper bound has a largest element.
LEMMA MaxOfBounded ==
    ASSUME NEW a \in Int, NEW b \in Int, NEW S \in SUBSET (a..b), S # {}
    PROVE  Max(S) \in S /\ \A x \in S : x <= Max(S)
  <1> DEFINE D == {b - x : x \in S}
  <1>1. /\ D \in SUBSET Nat /\ D # {}
        /\ \A x \in S : x \in Int /\ b - x \in D
        /\ \A e \in D : \E x \in S : e = b - x
    <2>1. \A x \in S : x \in Int /\ b - x \in Nat
      BY SMTT(30)
    <2>2. /\ \A x \in S : b - x \in D
          /\ \A e \in D : \E x \in S : e = b - x
      BY Zenon
    <2> HIDE DEF D
    <2> QED BY <2>1, <2>2, Zenon
  <1> HIDE DEF D
  <1>2. PICK d \in D : \A e \in D : d <= e
    BY <1>1, LeastNatural, Zenon
  <1>3. PICK x \in S : d = b - x
    BY <1>1, Zenon
  <1>4. \E z \in S : \A y \in S : z >= y
    BY <1>1, <1>2, <1>3, SMTT(30)
  <1>5. Max(S) \in S /\ \A y \in S : Max(S) >= y
    BY <1>4, Zenon DEF Max
  <1> QED BY <1>1, <1>5, Zenon

\* The smaller of two integers.
LEMMA MinOfTwo ==
    ASSUME NEW a \in Int, NEW b \in Int
    PROVE  /\ Min({a, b}) \in {a, b}
           /\ Min({a, b}) <= a /\ Min({a, b}) <= b
  <1>1. \E z \in {a, b} : \A y \in {a, b} : z <= y
    <2>1. CASE a <= b
      BY <2>1, SMTT(30)
    <2>2. CASE b <= a
      BY <2>2, SMTT(30)
    <2> QED BY <2>1, <2>2, SMTT(30)
  <1>2. Min({a, b}) \in {a, b} /\ \A y \in {a, b} : Min({a, b}) <= y
    BY <1>1, Zenon DEF Min
  <1> QED BY <1>2, Zenon

\* The larger of two integers.
LEMMA MaxOfTwo ==
    ASSUME NEW a \in Int, NEW b \in Int
    PROVE  /\ Max({a, b}) \in {a, b}
           /\ a <= Max({a, b}) /\ b <= Max({a, b})
  <1>1. \E z \in {a, b} : \A y \in {a, b} : z >= y
    <2>1. CASE a <= b
      BY <2>1, SMTT(30)
    <2>2. CASE b <= a
      BY <2>2, SMTT(30)
    <2> QED BY <2>1, <2>2, SMTT(30)
  <1>2. Max({a, b}) \in {a, b} /\ \A y \in {a, b} : Max({a, b}) >= y
    BY <1>1, Zenon DEF Max
  <1> QED BY <1>2, Zenon

\* A chunk may end here: inside (start, max_end], between two characters and
\* not inside a CRLF.
valid_end(input, start, max_end, end) ==
    /\ end \in (start + 1)..max_end
    /\ ~splits_crlf(input, end)
    /\ ~splits_character(input, end)

\* last_line_boundary returns a valid end or none.
LEMMA LastLineBoundaryValid ==
    ASSUME NEW input \in Text, NEW start \in Nat, NEW end \in Nat,
           end <= Len(input), last_line_boundary(input, start, end) # None
    PROVE  valid_end(input, start, end, last_line_boundary(input, start, end))
  <1> DEFINE ends == {e \in (start + 1)..end : At(input, e - 1) = "LF"}
  <1>1. ends \in SUBSET ((start + 1)..end)
    BY Zenon
  <1>2. /\ ends # {}
        /\ ~splits_crlf(input, Max(ends))
        /\ last_line_boundary(input, start, end) = Max(ends)
    BY Zenon DEF last_line_boundary
  <1>3. Max(ends) \in ends
    <2> start + 1 \in Int /\ end \in Int
      BY SMTT(30)
    <2> HIDE DEF ends
    <2> QED BY <1>1, <1>2, MaxOfBounded, Zenon
  <1>4. At(input, Max(ends) - 1) = "LF" /\ Max(ends) \in (start + 1)..end
    BY <1>3, Zenon
  <1> QED BY <1>2, <1>4, Zenon DEF valid_end, splits_character

\* previous_valid_split returns a valid end or none.
LEMMA PreviousValidSplitValid ==
    ASSUME NEW input \in Text, NEW start \in Nat, NEW max_end \in Nat,
           max_end <= Len(input), previous_valid_split(input, start, max_end) # None
    PROVE  valid_end(input, start, max_end,
                     previous_valid_split(input, start, max_end))
  <1> DEFINE splits == {c \in (start + 1)..max_end :
                           is_utf8_boundary(input, c) /\ ~splits_crlf(input, c)}
             end == previous_valid_split(input, start, max_end)
  <1>1. splits \in SUBSET ((start + 1)..max_end)
    BY Zenon
  <1>2. splits # {} /\ end = Max(splits)
    BY Zenon DEF previous_valid_split
  <1>3. Max(splits) \in splits
    <2> start + 1 \in Int /\ max_end \in Int
      BY SMTT(30)
    <2> HIDE DEF splits
    <2> QED BY <1>1, <1>2, MaxOfBounded, Zenon
  <1>4. end \in splits
    BY <1>2, <1>3, Zenon
  <1>5. /\ end \in (start + 1)..max_end
        /\ is_utf8_boundary(input, end) /\ ~splits_crlf(input, end)
    BY <1>4, Zenon
  <1>6. ~splits_character(input, end)
    BY <1>5, SMTT(30) DEF is_utf8_boundary, splits_character
  <1> QED BY <1>5, <1>6, Zenon DEF valid_end

\* Whatever choose_split falls back on, an end that it returns is a valid one
\* within the maximum.
THEOREM ChooseSplitValid ==
    ASSUME NEW input \in Text, NEW start \in Nat,
           NEW target_end \in Nat, NEW max_end \in Nat,
           target_end <= max_end, max_end <= Len(input),
           choose_split(input, start, target_end, max_end) # None
    PROVE  valid_end(input, start, max_end,
                     choose_split(input, start, target_end, max_end))
  <1> DEFINE in_target == last_line_boundary(input, start, target_end)
             in_max == last_line_boundary(input, start, max_end)
             split == previous_valid_split(input, start, max_end)
             end == choose_split(input, start, target_end, max_end)
  <1>1. \/ in_target # None /\ end = in_target
        \/ in_max # None /\ end = in_max
        \/ split # None /\ end = split
    BY Zenon DEF choose_split
  <1>2. CASE in_target # None /\ end = in_target
    <2>1. valid_end(input, start, target_end, end)
      BY <1>2, LastLineBoundaryValid, SMTT(30)
    <2>2. \A e : valid_end(input, start, target_end, e)
                    => valid_end(input, start, max_end, e)
      BY SMTT(30) DEF valid_end
    <2> QED BY <2>1, <2>2, Zenon
  <1>3. CASE in_max # None /\ end = in_max
    BY <1>3, LastLineBoundaryValid, Zenon
  <1>4. CASE split # None /\ end = split
    BY <1>4, PreviousValidSplitValid, Zenon
  <1> QED BY <1>1, <1>2, <1>3, <1>4, Zenon
=============================================================================
