----------------------- MODULE ContainerReaderProofs -----------------------
(***************************************************************************)
(* Facts about the operators of the reader and of the container's layout.  *)
(***************************************************************************)
EXTENDS ContainerReader, ChunkerProofs, FiniteSetTheorems

-----------------------------------------------------------------------------
(* The chunk table.                                                        *)

\* running_total is the function that its recursion describes.
LEMMA RunningTotal ==
    ASSUME NEW n \in Nat, NEW sizes \in [1..n -> Nat],
           NEW g \in [0..n -> Nat],
           g[0] = 0, \A i \in 1..n : g[i] = g[i - 1] + sizes[i]
    PROVE  running_total(sizes) = g
  <1> DEFINE next(f) == [i \in 0..Len(sizes) |->
                            IF i = 0 THEN 0 ELSE f[i - 1] + sizes[i]]
             t == CHOOSE f : f = next(f)
  <1>1. Len(sizes) = n
    BY SMTT(30)
  <1>2. g = next(g)
    BY <1>1, SMTT(30)
  <1>3. t = next(t)
    <2> HIDE DEF next
    <2> QED BY <1>2, Zenon
  <1>4. running_total(sizes) = t
    BY Zenon DEF running_total
  <1> HIDE DEF t
  <1>5. /\ DOMAIN t = 0..n
        /\ \A i \in 0..n : t[i] = IF i = 0 THEN 0 ELSE t[i - 1] + sizes[i]
    BY <1>1, <1>3, Zenon
  <1> DEFINE wrong == {i \in 0..n : t[i] # g[i]}
  <1>6. wrong = {}
    <2> SUFFICES ASSUME wrong # {} PROVE FALSE
      BY Zenon
    <2>1. PICK i \in wrong : \A j \in wrong : i <= j
      <3>1. wrong \in SUBSET Nat
        BY SMTT(30)
      <3> HIDE DEF wrong
      <3> QED BY <3>1, LeastNatural, Zenon
    <2>2. i # 0
      BY <1>5, Zenon
    <2>3. i \in 1..n /\ i - 1 \in 0..n
      BY <2>2, SMTT(30)
    <2>4. i - 1 \notin wrong
      BY <2>1, <2>3, SMTT(30)
    <2>5. t[i - 1] = g[i - 1]
      BY <2>3, <2>4, Zenon
    <2>6. t[i] = g[i]
      BY <1>5, <2>2, <2>3, <2>5, Zenon
    <2> QED BY <2>6, Zenon
  <1>7. \A i \in 0..n : t[i] = g[i]
    BY <1>6, Zenon
  <1>8. t = [i \in 0..n |-> t[i]]
    BY <1>1, <1>3, Zenon
  <1> QED BY <1>4, <1>7, <1>8, Zenon

\* The types of a chunk table entry.
ChunkEntry ==
    [chunk_id : Nat, physical_offset : Nat, logical_offset : Nat,
     compressed_size : Nat, uncompressed_size : Nat,
     first_line : Nat, line_count : Nat, flags : BOOLEAN,
     compressed_checksum : {blake3(encode(frame(text))) : text \in Text},
     uncompressed_checksum : Text]

\* The numeric fields of an entry.
LEMMA EntryFields ==
    ASSUME NEW entry \in ChunkEntry
    PROVE  /\ entry.logical_offset \in Nat /\ entry.uncompressed_size \in Nat
           /\ entry.physical_offset \in Nat /\ entry.compressed_size \in Nat
           /\ entry.first_line \in Nat /\ entry.line_count \in Nat
  BY Zenon DEF ChunkEntry

\* Where the entry after entry i starts: the end of the text and of the lines
\* for the last one.
next_offset(entries, size, i) ==
    IF i = Len(entries) THEN size ELSE entries[i + 1].logical_offset
next_line(entries, lines, i) ==
    IF i = Len(entries) THEN lines ELSE entries[i + 1].first_line

\* A chunk table without gaps: what validate_chunk_table_block requires, said
\* of each entry and the next one instead of running totals.
contiguous(entries, size, lines) ==
    /\ next_offset(entries, size, 0) = 0
    /\ next_line(entries, lines, 0) = 0
    /\ lines <= size
    /\ \A i \in DOMAIN entries :
          /\ entries[i].chunk_id = i - 1
          /\ entries[i].compressed_size # 0
          /\ entries[i].uncompressed_size # 0
          /\ entries[i].line_count <= entries[i].uncompressed_size
          /\ next_offset(entries, size, i) = logical_end(entries[i])
          /\ next_line(entries, lines, i) = line_end(entries[i])

\* validate_chunk_table_block accepts a table without gaps.
LEMMA ContiguousIsValid ==
    ASSUME NEW entries \in Seq(ChunkEntry), NEW size \in Nat, NEW lines \in Nat,
           contiguous(entries, size, lines)
    PROVE  validate_chunk_table_block(entries, Len(entries), size, lines)
  <1> DEFINE n == Len(entries)
             sizes == [i \in DOMAIN entries |-> entries[i].uncompressed_size]
             counts == [i \in DOMAIN entries |-> entries[i].line_count]
             offset == [i \in 0..n |-> next_offset(entries, size, i)]
             line == [i \in 0..n |-> next_line(entries, lines, i)]
  <1>1. /\ n \in Nat /\ DOMAIN entries = 1..n
        /\ \A i \in 1..n : entries[i] \in ChunkEntry
    BY SMTT(30)
  <1>2. sizes \in [1..n -> Nat] /\ counts \in [1..n -> Nat]
    BY <1>1, EntryFields, Zenon
  <1>3. \A i \in 0..n : next_offset(entries, size, i) \in Nat
                      /\ next_line(entries, lines, i) \in Nat
    <2>1. \A m \in Nat : \A k \in 0..m : k = m \/ k + 1 \in 1..m
      BY SMTT(30)
    <2> QED BY <1>1, <2>1, EntryFields, Zenon DEF next_offset, next_line
  <1>4. \A i \in 1..n :
           /\ next_offset(entries, size, i - 1) = entries[i].logical_offset
           /\ next_line(entries, lines, i - 1) = entries[i].first_line
    BY <1>1, SMTT(30) DEF next_offset, next_line
  <1>5. running_total(sizes) = offset
    <2>1. offset \in [0..n -> Nat] /\ offset[0] = 0
      BY <1>1, <1>3, SMTT(30) DEF contiguous
    <2>2. \A i \in 1..n : offset[i] = offset[i - 1] + sizes[i]
      BY <1>1, <1>4, SMTT(30) DEF contiguous, logical_end
    <2> HIDE DEF offset, sizes
    <2> QED BY <1>1, <1>2, <2>1, <2>2, RunningTotal, Zenon
  <1>6. running_total(counts) = line
    <2>1. line \in [0..n -> Nat] /\ line[0] = 0
      BY <1>1, <1>3, SMTT(30) DEF contiguous
    <2>2. \A i \in 1..n : line[i] = line[i - 1] + counts[i]
      BY <1>1, <1>4, SMTT(30) DEF contiguous, line_end
    <2> HIDE DEF line, counts
    <2> QED BY <1>1, <1>2, <2>1, <2>2, RunningTotal, Zenon
  <1>7. /\ \A i \in 1..n : /\ entries[i].logical_offset = offset[i - 1]
                           /\ entries[i].first_line = line[i - 1]
        /\ offset[n] = size /\ line[n] = lines
    <2>1. \A i \in 1..n : i - 1 \in 0..n
      BY <1>1, SMTT(30)
    <2>2. n \in 0..n
      BY <1>1, SMTT(30)
    <2> QED BY <1>4, <2>1, <2>2, Zenon DEF next_offset, next_line
  <1>8. size = 0 <=> n = 0
    <2>1. CASE n = 0
      BY <2>1, Zenon DEF contiguous, next_offset
    <2>2. CASE n # 0
      <3>1. n \in 1..n /\ entries[n] \in ChunkEntry
        BY <1>1, <2>2, SMTT(30)
      <3>2. size = logical_end(entries[n]) /\ entries[n].uncompressed_size # 0
        BY <1>1, <3>1, Zenon DEF contiguous, next_offset
      <3> QED BY <2>2, <3>1, <3>2, EntryFields, SMTT(30) DEF logical_end
    <2> QED BY <2>1, <2>2, Zenon
  <1>9. size = 0 => lines = 0
    BY SMTT(30) DEF contiguous
  <1> HIDE DEF offset, line, sizes, counts
  <1>10. /\ lines <= size
         /\ \A i \in DOMAIN entries :
               /\ entries[i].chunk_id = i - 1
               /\ entries[i].compressed_size # 0
               /\ entries[i].uncompressed_size # 0
               /\ entries[i].line_count <= entries[i].uncompressed_size
    BY Zenon DEF contiguous
  <1> QED BY <1>1, <1>5, <1>6, <1>7, <1>8, <1>9, <1>10, Zenon
          DEF validate_chunk_table_block, sizes, counts

\* Appending the entry of the next chunk leaves no gap.
LEMMA AppendContiguous ==
    ASSUME NEW entries \in Seq(ChunkEntry), NEW size \in Nat, NEW lines \in Nat,
           contiguous(entries, size, lines), NEW entry \in ChunkEntry,
           entry.chunk_id = Len(entries), entry.logical_offset = size,
           entry.first_line = lines, entry.compressed_size # 0,
           entry.uncompressed_size # 0, entry.line_count <= entry.uncompressed_size
    PROVE  contiguous(Append(entries, entry), size + entry.uncompressed_size,
                      lines + entry.line_count)
  <1> DEFINE n == Len(entries)
             longer == Append(entries, entry)
             size2 == size + entry.uncompressed_size
             lines2 == lines + entry.line_count
  <1>1. /\ n \in Nat /\ DOMAIN entries = 1..n
        /\ longer \in Seq(ChunkEntry) /\ Len(longer) = n + 1
        /\ DOMAIN longer = 1..(n + 1)
        /\ longer[n + 1] = entry
        /\ \A i \in 1..n : longer[i] = entries[i]
    BY SMTT(30)
  <1> HIDE DEF longer, n
  <1>2. \A i \in 0..n :
           /\ next_offset(longer, size2, i) = next_offset(entries, size, i)
           /\ next_line(longer, lines2, i) = next_line(entries, lines, i)
    <2> TAKE i \in 0..n
    <2>1. CASE i = n
      <3>1. n # n + 1
        BY <1>1, SMTT(30)
      <3>2. /\ next_offset(longer, size2, n) = entry.logical_offset
            /\ next_line(longer, lines2, n) = entry.first_line
        BY <1>1, <3>1, Zenon DEF next_offset, next_line
      <3>3. next_offset(entries, size, n) = size /\ next_line(entries, lines, n) = lines
        BY Zenon DEF next_offset, next_line, n
      <3> QED BY <2>1, <3>2, <3>3, Zenon
    <2>2. CASE i # n
      <3>1. i + 1 \in 1..n /\ i # n + 1
        BY <1>1, <2>2, SMTT(30)
      <3> QED BY <1>1, <2>2, <3>1, Zenon DEF next_offset, next_line, n
    <2> QED BY <2>1, <2>2, Zenon
  <1>3. /\ next_offset(longer, size2, n + 1) = size2
        /\ next_line(longer, lines2, n + 1) = lines2
    BY <1>1, Zenon DEF next_offset, next_line
  <1>4. lines2 <= size2
    BY EntryFields, SMTT(30) DEF contiguous
  <1>5. 0 \in 0..n /\ \A i \in 1..(n + 1) : i \in 1..n \/ i = n + 1
    BY <1>1, SMTT(30)
  <1>6. \A i \in 1..n :
           /\ longer[i].chunk_id = i - 1
           /\ longer[i].compressed_size # 0
           /\ longer[i].uncompressed_size # 0
           /\ longer[i].line_count <= longer[i].uncompressed_size
           /\ next_offset(longer, size2, i) = logical_end(longer[i])
           /\ next_line(longer, lines2, i) = line_end(longer[i])
    <2> TAKE i \in 1..n
    <2>1. i \in DOMAIN entries /\ i \in 0..n
      BY <1>1, SMTT(30)
    <2> QED BY <1>1, <1>2, <2>1, Zenon DEF contiguous
  <1>7. /\ longer[n + 1].chunk_id = (n + 1) - 1
        /\ longer[n + 1].compressed_size # 0
        /\ longer[n + 1].uncompressed_size # 0
        /\ longer[n + 1].line_count <= longer[n + 1].uncompressed_size
        /\ next_offset(longer, size2, n + 1) = logical_end(longer[n + 1])
        /\ next_line(longer, lines2, n + 1) = line_end(longer[n + 1])
    BY <1>1, <1>3, SMTT(30) DEF logical_end, line_end, n
  <1>8. /\ next_offset(longer, size2, 0) = 0
        /\ next_line(longer, lines2, 0) = 0
    BY <1>2, <1>5, Zenon DEF contiguous
  <1> HIDE DEF size2, lines2
  <1>9. contiguous(longer, size2, lines2)
    BY <1>1, <1>4, <1>5, <1>6, <1>7, <1>8, Zenon DEF contiguous
  <1> QED BY <1>9, Zenon DEF longer, size2, lines2

\* A chunk has at most as many line starts as bytes.
LEMMA LineStartsBounded ==
    ASSUME NEW text \in Text, NEW flags
    PROVE  /\ Cardinality(local_line_starts(text, flags)) \in Nat
           /\ Cardinality(local_line_starts(text, flags)) <= Len(text)
  <1>1. Len(text) \in Nat /\ 0 \in Int /\ Len(text) - 1 \in Int
    BY SMTT(30) DEF Text
  <1>2. /\ IsFiniteSet(0..(Len(text) - 1))
        /\ Cardinality(0..(Len(text) - 1)) = Len(text)
    <2>1. /\ IsFiniteSet(0..(Len(text) - 1))
          /\ Cardinality(0..(Len(text) - 1)) =
                IF 0 > Len(text) - 1 THEN 0 ELSE (Len(text) - 1) - 0 + 1
      BY <1>1, FS_Interval, Zenon
    <2> QED BY <1>1, <2>1, SMTT(30)
  <1>3. local_line_starts(text, flags) \subseteq 0..(Len(text) - 1)
    BY Zenon DEF local_line_starts
  <1>4. /\ IsFiniteSet(local_line_starts(text, flags))
        /\ Cardinality(local_line_starts(text, flags))
              <= Cardinality(0..(Len(text) - 1))
    BY <1>2, <1>3, FS_Subset, Zenon
  <1>5. Cardinality(local_line_starts(text, flags)) \in Nat
    BY <1>4, FS_CardinalityType, Zenon
  <1> QED BY <1>2, <1>4, <1>5, Zenon

\* The number of newlines of a chunk is a number.
LEMMA NewlinesNat ==
    ASSUME NEW text \in Text, NEW previous_byte, NEW alone
    PROVE  newlines(previous_byte, text, alone) \in Nat
  <1> DEFINE found == {i \in DOMAIN text :
                /\ text[i] = "LF"
                /\ ((IF i = 1 THEN previous_byte ELSE text[i - 1]) = "CR") = ~alone}
  <1>1. DOMAIN text = 1..Len(text) /\ Len(text) \in Int /\ 1 \in Int
    BY SMTT(30) DEF Text
  <1>2. IsFiniteSet(DOMAIN text)
    BY <1>1, FS_Interval, Zenon
  <1>3. found \subseteq DOMAIN text
    BY Zenon
  <1>4. newlines(previous_byte, text, alone) = Cardinality(found)
    BY Zenon DEF newlines
  <1> HIDE DEF found
  <1> QED BY <1>2, <1>3, <1>4, FS_Subset, FS_CardinalityType, Zenon

-----------------------------------------------------------------------------
(* The size that the footer states about its own file.                     *)

\* A CBOR head has one of five lengths and grows with its value.
LEMMA HeadLenMonotone ==
    /\ head_len(0) = 1
    /\ \A x \in Nat : head_len(x) \in {1, 2, 3, 5, 9}
    /\ \A x, y \in Nat : x <= y => head_len(x) <= head_len(y)
  BY SMTT(30) DEF head_len

\* fixed_point_footer_payload never gives up: wherever the footer starts, the
\* size settles within the eight turns of the loop, on a size for which the
\* footer that states it makes the file just that long.
THEOREM FooterSizeSettles ==
    ASSUME NEW offset \in Nat
    PROVE  /\ fixed_point_file_size(offset) \in Nat
           /\ next_file_size(offset, fixed_point_file_size(offset))
                 = fixed_point_file_size(offset)
  <1> DEFINE F(x) == next_file_size(offset, x)
             turns(f) == [turn \in 0..8 |-> IF turn = 0 THEN 0 ELSE F(f[turn - 1])]
             size == CHOOSE f : f = turns(f)
             settled == {turn \in 0..7 : size[turn + 1] = size[turn]}
             K == offset + footer_fixed_len + FOOTER_TRAILER_LEN
  <1>1. K \in Nat /\ \A x : F(x) = K + head_len(x) \/ head_len(x) \notin Nat
    BY BlockLengths, FixedLengths, SMTT(30) DEF next_file_size, footer_payload_len
  <1>2. \A x \in Nat : F(x) \in Nat /\ F(x) = K + head_len(x)
    BY <1>1, HeadLenMonotone, SMTT(30)
  <1>3. \E f : f = turns(f)
    <2> DEFINE x1 == F(0)  x2 == F(x1)  x3 == F(x2)  x4 == F(x3)
               x5 == F(x4)  x6 == F(x5)  x7 == F(x6)  x8 == F(x7)
               f == [turn \in 0..8 |->
                       IF turn = 0 THEN 0 ELSE IF turn = 1 THEN x1
                       ELSE IF turn = 2 THEN x2 ELSE IF turn = 3 THEN x3
                       ELSE IF turn = 4 THEN x4 ELSE IF turn = 5 THEN x5
                       ELSE IF turn = 6 THEN x6 ELSE IF turn = 7 THEN x7 ELSE x8]
    <2>1. /\ f[0] = 0 /\ f[1] = x1 /\ f[2] = x2 /\ f[3] = x3 /\ f[4] = x4
          /\ f[5] = x5 /\ f[6] = x6 /\ f[7] = x7 /\ f[8] = x8
      <3> HIDE DEF x1, x2, x3, x4, x5, x6, x7, x8
      <3> QED BY SMTT(30)
    <2>2. \A turn \in 1..8 : f[turn] = F(f[turn - 1])
      <3> HIDE DEF f, F
      <3>1. /\ f[1] = F(f[0]) /\ f[2] = F(f[1]) /\ f[3] = F(f[2])
            /\ f[4] = F(f[3]) /\ f[5] = F(f[4]) /\ f[6] = F(f[5])
            /\ f[7] = F(f[6]) /\ f[8] = F(f[7])
        BY <2>1, Zenon
      <3>2. \A turn \in 1..8 : turn \in {1, 2, 3, 4, 5, 6, 7, 8}
        BY SMTT(30)
      <3> QED BY <3>1, <3>2, SMTT(30)
    <2>3. DOMAIN f = 0..8 /\ f = [turn \in 0..8 |-> f[turn]]
      BY Zenon
    <2>4. f = turns(f)
      <3> HIDE DEF f, F
      <3> QED BY <2>1, <2>2, <2>3, SMTT(30)
    <2> QED BY <2>4, Zenon
  <1>4. size = turns(size)
    <2> HIDE DEF turns
    <2> QED BY <1>3, Zenon
  <1>5. fixed_point_file_size(offset)
          = IF settled = {} THEN None ELSE size[Min(settled)]
    BY Zenon DEF fixed_point_file_size
  <1> HIDE DEF F, size
  <1>6. /\ size[0] = 0 /\ size[1] = F(size[0]) /\ size[2] = F(size[1])
        /\ size[3] = F(size[2]) /\ size[4] = F(size[3]) /\ size[5] = F(size[4])
        /\ size[6] = F(size[5]) /\ size[7] = F(size[6]) /\ size[8] = F(size[7])
    BY <1>4, SMTT(30)
  <1>7. \A turn \in 0..8 : size[turn] \in Nat
    <2>1. \A turn \in 0..8 : turn \in {0, 1, 2, 3, 4, 5, 6, 7, 8}
      BY SMTT(30)
    <2> QED BY <1>2, <1>6, <2>1, SMTT(30)
  <1>8. settled # {}
    <2> SUFFICES ASSUME settled = {} PROVE FALSE
      BY Zenon
    <2>1. \A turn \in 0..7 : size[turn + 1] # size[turn]
      BY Zenon
    <2> DEFINE h(t) == head_len(size[t])
    <2>2. /\ size[0] <= size[1] /\ size[1] = K + h(0) /\ size[2] = K + h(1)
          /\ size[3] = K + h(2) /\ size[4] = K + h(3) /\ size[5] = K + h(4)
          /\ size[6] = K + h(5)
      BY <1>1, <1>2, <1>6, <1>7, SMTT(30)
    <2>3. \A x, y \in Nat : x <= y => K + head_len(x) <= K + head_len(y)
      BY <1>1, HeadLenMonotone, SMTT(30)
    <2>4. /\ size[0] \in Nat /\ size[1] \in Nat /\ size[2] \in Nat
          /\ size[3] \in Nat /\ size[4] \in Nat /\ size[5] \in Nat
          /\ size[6] \in Nat
      BY <1>7, SMTT(30)
    <2>5. /\ size[1] # size[2] /\ size[2] # size[3] /\ size[3] # size[4]
          /\ size[4] # size[5] /\ size[5] # size[6]
      BY <2>1, SMTT(30)
    <2>6. size[1] < size[2]
      BY <2>2, <2>3, <2>4, <2>5, SMTT(30)
    <2>7. size[2] < size[3]
      BY <2>2, <2>3, <2>4, <2>5, <2>6, SMTT(30)
    <2>8. size[3] < size[4]
      BY <2>2, <2>3, <2>4, <2>5, <2>7, SMTT(30)
    <2>9. size[4] < size[5]
      BY <2>2, <2>3, <2>4, <2>5, <2>8, SMTT(30)
    <2>10. size[5] < size[6]
      BY <2>2, <2>3, <2>4, <2>5, <2>9, SMTT(30)
    <2> QED
      BY <1>1, <2>2, <2>4, <2>6, <2>7, <2>8, <2>9, <2>10, HeadLenMonotone, SMTT(30)
  <1>9. Min(settled) \in settled
    <2>1. settled \in SUBSET Nat
      BY SMTT(30)
    <2> HIDE DEF settled
    <2>2. \E z \in settled : \A y \in settled : z <= y
      BY <1>8, <2>1, LeastNatural, Zenon
    <2> QED BY <2>2, Zenon DEF Min
  <1>10. PICK turn \in 0..7 : turn = Min(settled) /\ size[turn + 1] = size[turn]
    BY <1>9, Zenon
  <1>11. fixed_point_file_size(offset) = size[turn]
    BY <1>5, <1>8, <1>10, Zenon
  <1>12. size[turn + 1] = F(size[turn]) /\ size[turn] \in Nat
    <2>1. turn \in {0, 1, 2, 3, 4, 5, 6, 7}
      BY SMTT(30)
    <2> QED BY <1>6, <1>7, <2>1, SMTT(30)
  <1> QED BY <1>10, <1>11, <1>12, Zenon DEF F
=============================================================================
