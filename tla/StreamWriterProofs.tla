------------------------- MODULE StreamWriterProofs -------------------------
(***************************************************************************)
(* Proofs about the streaming writer, for every chunk size, every limit,   *)
(* every length of the blocks and every input.                             *)
(***************************************************************************)
EXTENDS StreamWriter, ContainerReaderProofs

-----------------------------------------------------------------------------
(* A writer that has finished or failed is never used again.               *)

\* The inductive invariant behind FinalIsFinal: the call that finished or
\* poisoned the writer has returned.
FinalInv == finished \/ poisoned => pc = "idle"

LEMMA FinalInvHolds == Spec => []FinalInv
  <1>1. Init => FinalInv
    BY Zenon DEF Init, FinalInv
  <1>2. FinalInv /\ [Next]_vars => FinalInv'
    <2> SUFFICES ASSUME FinalInv, [Next]_vars PROVE FinalInv'
      BY Zenon
    <2> USE DEF FinalInv
    <2>1. CASE New
      BY <2>1, Zenon DEF New
    <2>2. CASE NewNonEmpty
      BY <2>2, Zenon DEF NewNonEmpty
    <2>3. CASE NewFails
      BY <2>3, Zenon DEF NewFails
    <2>4. ASSUME NEW bytes \in BoundedSeq(Byte, MaxPush), Push(bytes)
          PROVE  FinalInv'
      BY <2>4, Zenon DEF Push, usable
    <2>5. CASE Finish
      BY <2>5, Zenon DEF Finish, usable
    <2>6. CASE PushStep
      BY <2>6, Zenon DEF PushStep, EmitPendingChunk, EmitChunk, Poison
    <2>7. CASE PushReturn
      BY <2>7, Zenon DEF PushReturn
    <2>8. CASE FinishChunk
      BY <2>8, Zenon DEF FinishChunk, EmitPendingChunk, EmitChunk, Poison
    <2>9. CASE FinishIndexes
      BY <2>9, Zenon DEF FinishIndexes, Poison
    <2>10. CASE FinishHeader
      BY <2>10, Zenon DEF FinishHeader, Poison
    <2>11. CASE FinishFooter
      BY <2>11, Zenon DEF FinishFooter, Poison
    <2>12. CASE UNCHANGED vars
      BY <2>12, Zenon DEF vars
    <2> QED
      BY <2>1, <2>2, <2>3, <2>4, <2>5, <2>6, <2>7, <2>8, <2>9, <2>10, <2>11,
         <2>12, Zenon DEF Next, Working
  <1> QED BY <1>1, <1>2, PTL DEF Spec

\* No call writes to the sink or changes the writer once a call failed or
\* finish succeeded.
THEOREM FinalIsFinalHolds == Spec => FinalIsFinal
  <1>1. FinalInv /\ [Next]_vars => (finished \/ poisoned => UNCHANGED vars)
    <2> SUFFICES ASSUME FinalInv, [Next]_vars, finished \/ poisoned
                 PROVE  UNCHANGED vars
      BY Zenon
    <2>1. pc = "idle" /\ ~usable
      BY Zenon DEF FinalInv, usable
    <2> QED
      BY <2>1, Zenon DEF Next, New, NewNonEmpty, NewFails, Push, Finish, Working,
         PushStep, PushReturn, FinishChunk, FinishIndexes, FinishHeader,
         FinishFooter
  <1> QED BY <1>1, FinalInvHolds, PTL DEF Spec, FinalIsFinal

-----------------------------------------------------------------------------
(* The sink.                                                               *)

\* A sequence, whatever its elements.
IsSequence(s) == s \in Seq(Range(s))

\* A function on 1..n is a sequence of length n.
LEMMA FunctionIsSequence ==
    ASSUME NEW n \in Nat, NEW s, DOMAIN s = 1..n, s = [i \in 1..n |-> s[i]]
    PROVE  IsSequence(s) /\ Len(s) = n
  <1>1. s \in [1..n -> Range(s)]
    BY Zenon DEF Range
  <1> HIDE DEF Range
  <1>2. s \in Seq(Range(s))
    BY <1>1, SMTT(30)
  <1>3. Len(s) = n
    BY <1>1, SMTT(30)
  <1> QED BY <1>2, <1>3, Zenon DEF IsSequence

\* The encoding of a block is a sequence of the block's size.
LEMMA EncodeSequence ==
    ASSUME NEW block, block.size \in Nat
    PROVE  IsSequence(encode(block)) /\ Len(encode(block)) = block.size
  <1>1. /\ DOMAIN encode(block) = 1..block.size
        /\ encode(block) = [i \in 1..block.size |-> encode(block)[i]]
    BY Zenon DEF encode
  <1> QED BY <1>1, FunctionIsSequence, Zenon

\* A write leaves a sequence, and the position at the end of what it wrote.
LEMMA SinkWriteSequence ==
    ASSUME IsSequence(content), NEW at \in Nat,
           NEW cells, IsSequence(cells), SinkWrite(at, cells)
    PROVE  /\ IsSequence(content') /\ cursor' \in 0..Len(content')
           /\ mode' = mode
  <1> DEFINE from == IF mode = "append" THEN Len(content) ELSE at
             n == Max({Len(content), from + Len(cells)})
  <1>1. Len(content) \in Nat /\ Len(cells) \in Nat /\ from \in Nat
    BY SMTT(30) DEF IsSequence
  <1>2. /\ content' = Overwrite(content, from, cells)
        /\ cursor' = from + Len(cells) /\ mode' = mode
    BY Zenon DEF SinkWrite
  <1> HIDE DEF from
  <1>3. /\ n \in {Len(content), from + Len(cells)}
        /\ from + Len(cells) <= n
    <2>1. Len(content) \in Int /\ from + Len(cells) \in Int
      BY <1>1, SMTT(30)
    <2> QED BY <2>1, MaxOfTwo, Zenon
  <1>4. n \in Nat
    BY <1>1, <1>3, SMTT(30)
  <1>5. /\ DOMAIN content' = 1..n
        /\ content' = [i \in 1..n |-> content'[i]]
    <2> HIDE DEF n
    <2> SUFFICES /\ DOMAIN Overwrite(content, from, cells) = 1..n
                 /\ Overwrite(content, from, cells)
                       = [i \in 1..n |-> Overwrite(content, from, cells)[i]]
      BY <1>2, Zenon
    <2> QED BY Zenon DEF Overwrite, n
  <1>6. IsSequence(content') /\ Len(content') = n
    BY <1>4, <1>5, FunctionIsSequence, Zenon
  <1> QED BY <1>1, <1>2, <1>3, <1>4, <1>6, SMTT(30)

\* So does a write that fails half way.
LEMMA SinkWriteFailsSequence ==
    ASSUME IsSequence(content), NEW at \in Nat,
           NEW cells, IsSequence(cells), SinkWriteFails(at, cells)
    PROVE  /\ IsSequence(content') /\ cursor' \in 0..Len(content')
           /\ mode' = mode
  <1>1. PICK written \in 0..Len(cells) : SinkWrite(at, SubSeq(cells, 1, written))
    BY Zenon DEF SinkWriteFails
  <1>2. IsSequence(SubSeq(cells, 1, written))
    <2>1. Len(cells) \in Nat /\ written \in Nat
      BY SMTT(30) DEF IsSequence
    <2>2. /\ DOMAIN SubSeq(cells, 1, written) = 1..written
          /\ SubSeq(cells, 1, written)
                = [i \in 1..written |-> SubSeq(cells, 1, written)[i]]
      BY <2>1, SMTT(30) DEF IsSequence
    <2> QED BY <2>1, <2>2, FunctionIsSequence, Zenon
  <1> QED BY <1>1, <1>2, SinkWriteSequence, Zenon

-----------------------------------------------------------------------------
(* The ends a chunk can get.                                               *)

\* push cuts only where a chunk may end, and keeps at least one byte back.
LEMMA StreamEndValid ==
    ASSUME NEW bytes \in Text, Len(bytes) > max_chunk_size,
           choose_stream_chunk_end(bytes) # None
    PROVE  valid_end(bytes, 0, max_chunk_size, choose_stream_chunk_end(bytes))
  <1>1. choose_stream_chunk_end(bytes)
          = choose_split(bytes, 0, target_chunk_size, max_chunk_size)
    <2>1. ~(Len(bytes) <= max_chunk_size)
      BY ChunkerOptionsValid, SMTT(30) DEF Text
    <2> QED BY <2>1, Zenon DEF choose_stream_chunk_end
  <1>2. /\ target_chunk_size \in Nat /\ max_chunk_size \in Nat /\ 0 \in Nat
        /\ target_chunk_size <= max_chunk_size /\ max_chunk_size <= Len(bytes)
    BY ChunkerOptionsValid, SMTT(30) DEF Text
  <1> QED BY <1>1, <1>2, ChooseSplitValid, Zenon

\* finish cuts at the end of the text or where a chunk may end.
LEMMA KnownEndValid ==
    ASSUME NEW bytes \in Text, bytes # <<>>, choose_known_chunk_end(bytes) # None
    PROVE  /\ choose_known_chunk_end(bytes) \in 1..Len(bytes)
           /\ choose_known_chunk_end(bytes) <= max_chunk_size
           /\ ~splits_crlf(bytes, choose_known_chunk_end(bytes))
           /\ ~splits_character(bytes, choose_known_chunk_end(bytes))
  <1> DEFINE end == choose_known_chunk_end(bytes)
             max_end == Min({max_chunk_size, Len(bytes)})
  <1>1. Len(bytes) \in Nat /\ Len(bytes) >= 1
    BY SMTT(30) DEF Text
  <1>2. CASE Len(bytes) <= target_chunk_size
    <2>1. end = Len(bytes)
      BY <1>2, Zenon DEF choose_known_chunk_end
    <2> HIDE DEF end
    <2>2. /\ end \in 1..Len(bytes) /\ end <= max_chunk_size
          /\ ~splits_crlf(bytes, end) /\ ~splits_character(bytes, end)
      BY <1>1, <1>2, <2>1, ChunkerOptionsValid, SMTT(30) DEF splits_crlf, splits_character
    <2> QED BY <2>2, Zenon DEF end
  <1>3. CASE ~(Len(bytes) <= target_chunk_size)
    <2>1. end = choose_split(bytes, 0, target_chunk_size, max_end)
      BY <1>3, Zenon DEF choose_known_chunk_end
    <2>2. /\ max_end \in {max_chunk_size, Len(bytes)}
          /\ max_end <= max_chunk_size /\ max_end <= Len(bytes)
      <3>1. max_chunk_size \in Int /\ Len(bytes) \in Int
        BY <1>1, ChunkerOptionsValid, SMTT(30)
      <3> QED BY <3>1, MinOfTwo, Zenon
    <2> HIDE DEF max_end
    <2>3. /\ target_chunk_size \in Nat /\ max_end \in Nat /\ 0 \in Nat
          /\ target_chunk_size <= max_end
      BY <1>1, <1>3, <2>2, ChunkerOptionsValid, SMTT(30)
    <2>4. valid_end(bytes, 0, max_end, end)
      BY <2>1, <2>2, <2>3, ChooseSplitValid, Zenon
    <2> HIDE DEF end
    <2>5. /\ end \in 1..Len(bytes) /\ end <= max_chunk_size
          /\ ~splits_crlf(bytes, end) /\ ~splits_character(bytes, end)
      BY <1>1, <2>2, <2>3, <2>4, ChunkerOptionsValid, SMTT(30) DEF valid_end
    <2> QED BY <2>5, Zenon DEF end
  <1> QED BY <1>2, <1>3, Zenon

-----------------------------------------------------------------------------
(* Types and the chunk table.                                              *)

\* The inductive invariant: the types, and a chunk table without gaps that
\* ends where the writer's counters say.
WriterInv ==
    /\ TypeOK
    /\ FinalInv
    /\ IsSequence(content)
    /\ entries \in Seq(ChunkEntry)
    /\ contiguous(entries, logical_offset, line_starts_seen)

\* The entry that emit_chunk appends, with its types.
LEMMA NewEntry ==
    ASSUME TypeOK, entries \in Seq(ChunkEntry), NEW text \in Text,
           text # <<>>, Len(text) <= max_chunk_size
    PROVE  /\ new_entry(text) \in ChunkEntry
           /\ new_entry(text).chunk_id = Len(entries)
           /\ new_entry(text).logical_offset = logical_offset
           /\ new_entry(text).uncompressed_size = Len(text)
           /\ new_entry(text).compressed_size = frame_len(text)
           /\ new_entry(text).first_line = line_starts_seen
           /\ new_entry(text).line_count <= Len(text)
           /\ frame_len(text) \in Nat
  <1> DEFINE count == Cardinality(local_line_starts(text, starts_with_continuation))
             checksum == blake3(encode(frame(text)))
             flag == starts_with_continuation
  <1>1. frame_len(text) \in Nat
    <2>1. Len(text) \in 0..max_chunk_size /\ text \in [1..Len(text) -> Byte]
      BY ChunkerOptionsValid, SMTT(30) DEF Text
    <2> QED BY <2>1, FrameLength, Zenon
  <1>2. count \in Nat /\ count <= Len(text)
    BY LineStartsBounded, Zenon
  <1>3. flag \in BOOLEAN
    BY Zenon DEF starts_with_continuation
  <1>4. checksum \in {blake3(encode(frame(t))) : t \in Text}
    BY Zenon
  <1>5. /\ Len(entries) \in Nat /\ Len(text) \in Nat /\ blake3(text) \in Text
        /\ physical_offset \in Nat /\ logical_offset \in Nat
        /\ line_starts_seen \in Nat
    BY SMTT(30) DEF TypeOK, Text, blake3
  <1>6. new_entry(text) =
          [chunk_id |-> Len(entries), physical_offset |-> physical_offset,
           logical_offset |-> logical_offset, compressed_size |-> frame_len(text),
           uncompressed_size |-> Len(text), first_line |-> line_starts_seen,
           line_count |-> count, flags |-> flag,
           compressed_checksum |-> checksum, uncompressed_checksum |-> blake3(text)]
    <2> HIDE DEF count, checksum, flag
    <2> QED BY Zenon DEF new_entry, chunk_entry, count, checksum, flag
  <1> HIDE DEF count, checksum, flag
  <1>7. new_entry(text) \in ChunkEntry
    BY <1>1, <1>2, <1>3, <1>4, <1>5, <1>6, SMTT(30) DEF ChunkEntry
  <1> QED BY <1>1, <1>2, <1>6, <1>7, SMTT(30)

\* emit_pending_chunk keeps the invariant, whether it emits, refuses or fails.
LEMMA EmitKeepsWriterInv ==
    ASSUME WriterInv, pc \in {"push", "finish"}, NEW buffer \in Text, NEW end,
           Len(buffer) <= max_chunk_size + 1, NEW rest \in Text,
           end = None \/ (end \in 1..Len(buffer) /\ end <= max_chunk_size),
           EmitPendingChunk(buffer, end, rest)
    PROVE  WriterInv'
  <1> DEFINE text == Slice(buffer, 0, end)
             refused == end = None \/ emit_refused(text)
  <1>1. usable /\ max_chunk_size \in Nat
    BY ChunkerOptionsValid, Zenon DEF WriterInv, FinalInv, usable
  <1>2. \/ ~refused /\ EmitChunk(buffer, text, rest)
        \/ /\ refused /\ Poison("refused") /\ pending' = buffer
           /\ UNCHANGED <<entries, hashed, counters, sink>>
        \/ /\ ~refused
           /\ SinkWriteFails(physical_offset, encode(frame(text)))
           /\ Poison("environment") /\ pending' = buffer
           /\ UNCHANGED <<entries, hashed, counters>>
    BY Zenon DEF EmitPendingChunk
  <1>3. ~refused => /\ text \in Text /\ Len(text) = end /\ text # <<>>
                    /\ end \in 1..Len(buffer) /\ end <= max_chunk_size
    BY SMTT(30) DEF Slice, Text
  <1>4. ~refused => /\ frame_len(text) \in Nat /\ frame_len(text) # 0
                    /\ IsSequence(encode(frame(text)))
    <2> SUFFICES ASSUME ~refused PROVE /\ frame_len(text) \in Nat
                                       /\ frame_len(text) # 0
                                       /\ IsSequence(encode(frame(text)))
      BY Zenon
    <2> HIDE DEF text
    <2>1. frame_len(text) \in Nat
      BY <1>3, NewEntry, Zenon DEF WriterInv
    <2>2. frame_len(text) # 0
      BY Zenon DEF emit_refused
    <2>3. frame(text).size \in Nat
      BY <2>1, Zenon DEF frame
    <2> QED BY <2>1, <2>2, <2>3, EncodeSequence, Zenon
  <1> HIDE DEF text, refused
  <1>5. CASE ~refused /\ EmitChunk(buffer, text, rest)
    <2>1. /\ SinkWrite(physical_offset, encode(frame(text)))
          /\ lf_count' = lf_count + newlines(previous_byte, text, TRUE)
          /\ crlf_count' = crlf_count + newlines(previous_byte, text, FALSE)
          /\ previous_byte' = Last(text)
          /\ line_starts_seen' = line_starts_seen + new_entry(text).line_count
          /\ logical_offset' = logical_offset + Len(text)
          /\ physical_offset' = physical_offset + frame_len(text)
          /\ entries' = Append(entries, new_entry(text))
          /\ pending' = Slice(buffer, Len(text), Len(buffer))
          /\ remaining' = rest
          /\ UNCHANGED <<hashed, finished, poisoned, pc, error>>
      BY <1>5, Zenon DEF EmitChunk
    <2>2. /\ new_entry(text) \in ChunkEntry
          /\ new_entry(text).chunk_id = Len(entries)
          /\ new_entry(text).logical_offset = logical_offset
          /\ new_entry(text).uncompressed_size = Len(text)
          /\ new_entry(text).compressed_size = frame_len(text)
          /\ new_entry(text).first_line = line_starts_seen
          /\ new_entry(text).line_count <= Len(text)
          /\ new_entry(text).line_count \in Nat
      BY <1>3, <1>5, NewEntry, EntryFields, Zenon DEF WriterInv
    <2>3. /\ IsSequence(content') /\ cursor' \in 0..Len(content')
          /\ mode' = mode
      <3>1. physical_offset \in Nat /\ IsSequence(content)
        BY Zenon DEF WriterInv, TypeOK
      <3> QED BY <1>4, <1>5, <2>1, <3>1, SinkWriteSequence, Zenon
    <2>4. /\ entries' \in Seq(ChunkEntry)
          /\ contiguous(entries', logical_offset', line_starts_seen')
      <3>1. /\ entries \in Seq(ChunkEntry)
            /\ logical_offset \in Nat /\ line_starts_seen \in Nat
            /\ contiguous(entries, logical_offset, line_starts_seen)
        BY Zenon DEF WriterInv, TypeOK
      <3>2. Len(text) # 0
        BY <1>3, <1>5, SMTT(30)
      <3>3. /\ new_entry(text).compressed_size # 0
            /\ new_entry(text).uncompressed_size # 0
            /\ new_entry(text).line_count <= new_entry(text).uncompressed_size
        BY <1>4, <1>5, <2>2, <3>2, Zenon
      <3>4. contiguous(Append(entries, new_entry(text)),
                       logical_offset + new_entry(text).uncompressed_size,
                       line_starts_seen + new_entry(text).line_count)
        BY <2>2, <3>1, <3>3, AppendContiguous, Zenon
      <3>5. Append(entries, new_entry(text)) \in Seq(ChunkEntry)
        BY <2>2, <3>1, SMTT(30)
      <3> QED BY <2>1, <2>2, <3>4, <3>5, Zenon
    <2>5. pending' \in Text /\ Len(pending') <= max_chunk_size
      BY <1>1, <1>3, <1>5, <2>1, SMTT(30) DEF Slice, Text
    <2>6. Last(text) \in Byte
      BY <1>3, <1>5, SMTT(30) DEF Last, Text
    <2>7. /\ newlines(previous_byte, text, TRUE) \in Nat
          /\ newlines(previous_byte, text, FALSE) \in Nat
      BY <1>3, <1>5, NewlinesNat, Zenon
    <2>8. Len(text) \in Nat
      BY <1>3, <1>5, SMTT(30) DEF Text
    <2>9. TypeOK'
      <3>1. /\ physical_offset \in Nat /\ logical_offset \in Nat
            /\ line_starts_seen \in Nat /\ lf_count \in Nat /\ crlf_count \in Nat
        BY Zenon DEF WriterInv, TypeOK
      <3>2. /\ physical_offset' \in Nat /\ logical_offset' \in Nat
            /\ line_starts_seen' \in Nat /\ lf_count' \in Nat /\ crlf_count' \in Nat
        <4>1. \A a, b \in Nat : a + b \in Nat
          BY SMTT(30)
        <4>2. frame_len(text) \in Nat /\ new_entry(text).line_count \in Nat
          BY <1>4, <1>5, <2>2, Zenon
        <4> QED BY <2>1, <2>7, <2>8, <3>1, <4>1, <4>2, Zenon
      <3>3. /\ previous_byte' \in Byte \cup {"none"}
            /\ pending' \in Text /\ remaining' \in Text
            /\ Len(pending') <= max_chunk_size + 1
        BY <1>1, <2>1, <2>5, <2>6, SMTT(30) DEF Text
      <3> QED BY <2>1, <2>3, <2>5, <3>2, <3>3, Zenon DEF WriterInv, TypeOK, usable
    <2> QED BY <1>1, <2>1, <2>3, <2>4, <2>9, Zenon DEF WriterInv, FinalInv, usable
  <1>6. CASE /\ refused /\ Poison("refused") /\ pending' = buffer
             /\ UNCHANGED <<entries, hashed, counters, sink>>
    BY <1>1, <1>6, SMTT(30) DEF WriterInv, TypeOK, FinalInv, Poison, usable, counters, sink,
       Text
  <1>7. CASE /\ ~refused
             /\ SinkWriteFails(physical_offset, encode(frame(text)))
             /\ Poison("environment") /\ pending' = buffer
             /\ UNCHANGED <<entries, hashed, counters>>
    <2>1. /\ IsSequence(content') /\ cursor' \in 0..Len(content')
          /\ mode' = mode
      <3>1. physical_offset \in Nat /\ IsSequence(content)
        BY Zenon DEF WriterInv, TypeOK
      <3> QED BY <1>4, <1>7, <3>1, SinkWriteFailsSequence, Zenon
    <2> QED BY <1>1, <1>7, <2>1, SMTT(30)
         DEF WriterInv, TypeOK, FinalInv, Poison, usable, counters, Text
  <1> QED BY <1>2, <1>5, <1>6, <1>7, Zenon

\* A sequence over some set is one.
LEMMA SeqIsSequence ==
    ASSUME NEW R, NEW s \in Seq(R)
    PROVE  IsSequence(s)
  <1>1. Len(s) \in Nat /\ DOMAIN s = 1..Len(s) /\ s = [i \in 1..Len(s) |-> s[i]]
    BY SMTT(30)
  <1> QED BY <1>1, FunctionIsSequence, Zenon

\* The concatenation of two sequences is one.
LEMMA ConcatSequence ==
    ASSUME NEW s, NEW t, IsSequence(s), IsSequence(t)
    PROVE  IsSequence(s \o t)
  <1>1. Len(s) \in Nat /\ Len(t) \in Nat /\ Len(s) + Len(t) \in Nat
    BY SMTT(30) DEF IsSequence
  <1> DEFINE R == Range(s) \cup Range(t)
  <1>2. s \in Seq(R) /\ t \in Seq(R)
    <2>1. /\ s \in [1..Len(s) -> Range(s)] /\ t \in [1..Len(t) -> Range(t)]
      BY SMTT(30) DEF IsSequence
    <2>2. /\ s \in [1..Len(s) -> R] /\ t \in [1..Len(t) -> R]
      BY <2>1, Zenon
    <2> HIDE DEF R
    <2> QED BY <1>1, <2>2, SMTT(30)
  <1> HIDE DEF R
  <1>3. s \o t \in Seq(R) /\ Len(s \o t) = Len(s) + Len(t)
    BY <1>2, SMTT(30)
  <1> QED BY <1>3, SeqIsSequence, Zenon

\* The blocks that finish writes have sizes, and so has its footer.
LEMMA LayoutSizes ==
    ASSUME TypeOK, entries \in Seq(ChunkEntry)
    PROVE  /\ IsSequence(encode(metadata_now) \o encode(layout_now.table)
                             \o encode(layout_now.root))
           /\ IsSequence(encode(layout_header(layout_now)))
           /\ layout_now.footer_payload_offset \in Nat
  <1> DEFINE table == chunk_table(entries)
             table_offset == physical_offset + metadata_now.size
             root == index_root_block(metadata_now, table_offset, entries)
             root_offset == table_offset + table.size
  <1>1. metadata_now.size \in Nat /\ metadata_now.size = metadata_len
    BY BlockLengths, Zenon DEF metadata_now, metadata_block
  <1>2. table.size \in Nat
    <2>1. Len(entries) \in Nat /\ CHUNK_ENTRY_LEN \in Nat
      BY BlockLengths, SMTT(30)
    <2>2. \A a, b \in Nat : a * b \in Nat
      BY SMTT(30)
    <2>3. table.size = Len(entries) * CHUNK_ENTRY_LEN
      BY Zenon DEF chunk_table
    <2> QED BY <2>1, <2>2, <2>3, Zenon
  <1>3. root.size \in Nat
    BY BlockLengths, Zenon DEF index_root_block
  <1>4. /\ layout_now.table = table /\ layout_now.root = root
        /\ layout_now.footer_payload_offset = root_offset + root.size
    <2> HIDE DEF table, table_offset, root, root_offset
    <2> QED BY Zenon DEF layout_now, index_layout, table, table_offset, root, root_offset
  <1>5. physical_offset \in Nat
    BY Zenon DEF TypeOK
  <1>6. layout_header(layout_now).size \in Nat
    BY FixedLengths, Zenon DEF layout_header, header_block
  <1> HIDE DEF table, root
  <1>7. /\ IsSequence(encode(metadata_now)) /\ IsSequence(encode(table))
        /\ IsSequence(encode(root)) /\ IsSequence(encode(layout_header(layout_now)))
    BY <1>1, <1>2, <1>3, <1>6, EncodeSequence, Zenon
  <1>8. IsSequence(encode(metadata_now) \o encode(table) \o encode(root))
    BY <1>7, ConcatSequence, Zenon
  <1>9. layout_now.footer_payload_offset \in Nat
    BY <1>1, <1>2, <1>3, <1>4, <1>5, SMTT(30)
  <1> QED BY <1>4, <1>7, <1>8, <1>9, Zenon

\* The footer and the trailer that finish writes are a sequence of bytes.
LEMMA FooterCells ==
    ASSUME NEW layout, NEW checksum, layout.footer_payload_offset \in Nat
    PROVE  LET footer == layout_footer(layout, checksum)
           IN  IsSequence(encode(footer)
                   \o encode(trailer_block(footer, layout.footer_payload_offset)))
  <1> DEFINE footer == layout_footer(layout, checksum)
             size == fixed_point_file_size(layout.footer_payload_offset)
  <1>1. size \in Nat
    BY FooterSizeSettles, Zenon
  <1>2. footer.size = footer_payload_len(size)
    <2> HIDE DEF size
    <2> QED BY Zenon DEF layout_footer, footer_block, size
  <1>3. footer.size \in Nat
    BY <1>1, <1>2, HeadLenMonotone, BlockLengths, SMTT(30) DEF footer_payload_len
  <1>4. trailer_block(footer, layout.footer_payload_offset).size \in Nat
    BY FixedLengths, Zenon DEF trailer_block
  <1> HIDE DEF footer
  <1>5. /\ IsSequence(encode(footer))
        /\ IsSequence(encode(trailer_block(footer, layout.footer_payload_offset)))
    BY <1>3, <1>4, EncodeSequence, Zenon
  <1> QED BY <1>5, ConcatSequence, Zenon DEF footer

\* The buffer of one turn of push's loop.
LEMMA TurnBuffer ==
    ASSUME WriterInv, pc = "push"
    PROVE  /\ take \in 0..Len(remaining)
           /\ pending \o SubSeq(remaining, 1, take) \in Text
           /\ Len(pending \o SubSeq(remaining, 1, take)) = Len(pending) + take
           /\ Len(pending) + take <= max_chunk_size + 1
           /\ SubSeq(remaining, take + 1, Len(remaining)) \in Text
           /\ Len(SubSeq(remaining, take + 1, Len(remaining)))
                 = Len(remaining) - take
  <1>1. /\ pending \in Seq(Byte) /\ remaining \in Seq(Byte)
        /\ Len(pending) <= max_chunk_size /\ max_chunk_size \in Nat
    BY ChunkerOptionsValid, Zenon DEF WriterInv, TypeOK, FinalInv, usable, Text
  <1> DEFINE room == max_chunk_size + 1 - Len(pending)
  <1>2. Len(remaining) \in Nat /\ Len(pending) \in Nat /\ room \in Nat
    BY <1>1, SMTT(30)
  <1>3. /\ take \in {Len(remaining), room}
        /\ take <= Len(remaining) /\ take <= room
    <2>1. Len(remaining) \in Int /\ room \in Int
      BY <1>2, SMTT(30)
    <2> HIDE DEF room
    <2>2. take = Min({Len(remaining), room})
      BY Zenon DEF take, room
    <2> QED BY <2>1, <2>2, MinOfTwo, Zenon
  <1>4. take \in 0..Len(remaining) /\ Len(pending) + take <= max_chunk_size + 1
    BY <1>1, <1>2, <1>3, SMTT(30)
  <1> HIDE DEF room
  <1>5. /\ SubSeq(remaining, 1, take) \in Seq(Byte)
        /\ Len(SubSeq(remaining, 1, take)) = take
        /\ SubSeq(remaining, take + 1, Len(remaining)) \in Seq(Byte)
        /\ Len(SubSeq(remaining, take + 1, Len(remaining))) = Len(remaining) - take
    BY <1>1, <1>2, <1>4, SMTT(30)
  <1> QED BY <1>1, <1>4, <1>5, SMTT(30) DEF Text

\* One turn of push's loop keeps the invariant.
LEMMA PushStepKeepsWriterInv ==
    ASSUME WriterInv, PushStep
    PROVE  WriterInv'
  <1> DEFINE buffer == pending \o SubSeq(remaining, 1, take)
             rest == SubSeq(remaining, take + 1, Len(remaining))
  <1>1. pc = "push" /\ usable /\ max_chunk_size \in Nat
    BY ChunkerOptionsValid, Zenon DEF PushStep, WriterInv, FinalInv, usable
  <1>2. /\ buffer \in Text /\ rest \in Text
        /\ Len(buffer) <= max_chunk_size + 1 /\ Len(buffer) \in Nat
    BY <1>1, TurnBuffer, SMTT(30) DEF Text
  <1>3. \/ /\ Len(buffer) <= max_chunk_size
           /\ pending' = buffer /\ remaining' = rest
           /\ UNCHANGED <<entries, hashed, counters, finished, poisoned,
                          pc, error, sink>>
        \/ /\ Len(buffer) > max_chunk_size
           /\ EmitPendingChunk(buffer, choose_stream_chunk_end(buffer), rest)
        \/ /\ Poison("environment")
           /\ UNCHANGED <<pending, entries, hashed, counters, sink>>
    BY Zenon DEF PushStep
  <1> HIDE DEF buffer, rest
  <1>4. CASE /\ Len(buffer) <= max_chunk_size
             /\ pending' = buffer /\ remaining' = rest
             /\ UNCHANGED <<entries, hashed, counters, finished, poisoned,
                            pc, error, sink>>
    BY <1>1, <1>2, <1>4, Zenon
       DEF WriterInv, TypeOK, FinalInv, usable, counters, sink
  <1>5. CASE /\ Len(buffer) > max_chunk_size
             /\ EmitPendingChunk(buffer, choose_stream_chunk_end(buffer), rest)
    <2> DEFINE end == choose_stream_chunk_end(buffer)
    <2>1. end = None \/ valid_end(buffer, 0, max_chunk_size, end)
      BY <1>2, <1>5, StreamEndValid, Zenon
    <2> HIDE DEF end
    <2>2. end = None \/ (end \in 1..Len(buffer) /\ end <= max_chunk_size)
      BY <1>1, <1>2, <1>5, <2>1, SMTT(30) DEF valid_end
    <2> QED BY <1>1, <1>2, <1>5, <2>2, EmitKeepsWriterInv, Zenon DEF end
  <1>6. CASE /\ Poison("environment")
             /\ UNCHANGED <<pending, entries, hashed, counters, sink>>
    BY <1>1, <1>6, SMTT(30) DEF WriterInv, TypeOK, FinalInv, Poison, usable, counters, sink,
       Text
  <1> QED BY <1>3, <1>4, <1>5, <1>6, Zenon

\* One chunk of finish keeps the invariant.
LEMMA FinishChunkKeepsWriterInv ==
    ASSUME WriterInv, FinishChunk
    PROVE  WriterInv'
  <1> DEFINE end == choose_known_chunk_end(pending)
  <1>1. /\ pc = "finish" /\ pending \in Text /\ pending # <<>>
        /\ Len(pending) <= max_chunk_size + 1
        /\ EmitPendingChunk(pending, end, <<>>)
    BY Zenon DEF FinishChunk, WriterInv, TypeOK
  <1>2. end = None \/ (end \in 1..Len(pending) /\ end <= max_chunk_size)
    BY <1>1, KnownEndValid, Zenon
  <1>3. <<>> \in Text
    BY SMTT(30) DEF Text
  <1> HIDE DEF end
  <1> QED BY <1>1, <1>2, <1>3, EmitKeepsWriterInv, Zenon

\* A step of finish after the last chunk goes on, returns an error, or ends
\* the call.
LEMMA FinishTailOutcome ==
    ASSUME FinishIndexes \/ FinishHeader \/ FinishFooter
    PROVE  \/ Poison("environment") \/ Poison("sink") \/ Poison("refused")
           \/ /\ pc' \in {"header", "footer"}
              /\ UNCHANGED <<finished, poisoned, remaining, error>>
           \/ /\ finished' = TRUE /\ pc' = "idle"
              /\ UNCHANGED <<poisoned, remaining, error>>
  <1>1. CASE FinishIndexes
    BY <1>1, Zenon DEF FinishIndexes
  <1>2. CASE FinishHeader
    BY <1>2, Zenon DEF FinishHeader
  <1>3. CASE FinishFooter
    BY <1>3, Zenon DEF FinishFooter
  <1> QED BY <1>1, <1>2, <1>3, Zenon

\* The steps of finish after the last chunk write blocks and leave the table.
LEMMA FinishTailKeepsWriterInv ==
    ASSUME WriterInv, FinishIndexes \/ FinishHeader \/ FinishFooter
    PROVE  WriterInv'
  <1>1. pc \in {"finish", "header", "footer"} /\ usable
    BY Zenon DEF FinishIndexes, FinishHeader, FinishFooter, WriterInv, FinalInv, usable
  <1>2. /\ IsSequence(content) /\ physical_offset \in Nat /\ 0 \in Nat
        /\ TypeOK /\ entries \in Seq(ChunkEntry)
    BY Zenon DEF WriterInv, TypeOK
  <1>3. UNCHANGED <<pending, entries, hashed, counters>>
    BY Zenon DEF FinishIndexes, FinishHeader, FinishFooter
  <1>4. IsSequence(content') /\ cursor' \in 0..Len(content') /\ mode' = mode
    <2>1. CASE FinishIndexes
      <3> DEFINE cells == encode(metadata_now) \o encode(layout_now.table)
                             \o encode(layout_now.root)
      <3>1. IsSequence(cells)
        BY <1>2, LayoutSizes, Zenon
      <3>2. \/ SinkWrite(physical_offset, cells)
            \/ SinkWriteFails(physical_offset, cells)
        BY <2>1, Zenon DEF FinishIndexes
      <3> HIDE DEF cells
      <3> QED BY <1>2, <3>1, <3>2, SinkWriteSequence, SinkWriteFailsSequence, Zenon
    <2>2. CASE FinishHeader
      <3> DEFINE cells == encode(layout_header(layout_now))
      <3>1. IsSequence(cells)
        BY <1>2, LayoutSizes, Zenon
      <3>2. SinkWrite(0, cells) \/ SinkWriteFails(0, cells)
        BY <2>2, Zenon DEF FinishHeader
      <3> HIDE DEF cells
      <3> QED BY <1>2, <3>1, <3>2, SinkWriteSequence, SinkWriteFailsSequence, Zenon
    <2>3. CASE FinishFooter
      <3> DEFINE at == layout_now.footer_payload_offset
                 footer == layout_footer(layout_now,
                              blake3(Slice(Flushed(content, visible), 0, at)))
                 cells == encode(footer) \o encode(trailer_block(footer, at))
      <3>1. at \in Nat
        BY <1>2, LayoutSizes, Zenon
      <3>2. IsSequence(cells)
        BY <3>1, FooterCells, Zenon
      <3>3. \/ UNCHANGED sink
            \/ SinkWrite(at, cells)
            \/ SinkWriteFails(at, cells)
        BY <2>3, Zenon DEF FinishFooter
      <3> HIDE DEF at, cells
      <3>4. CASE UNCHANGED sink
        BY <3>4, Zenon DEF sink, WriterInv, TypeOK
      <3> QED BY <1>2, <3>1, <3>2, <3>3, <3>4, SinkWriteSequence,
              SinkWriteFailsSequence, Zenon
    <2> QED BY <2>1, <2>2, <2>3, Zenon
  <1>5. /\ finished' \in BOOLEAN /\ poisoned' \in BOOLEAN
        /\ pc' \in {"idle", "header", "footer"}
        /\ error' \in {"none", "nonempty", "refused", "sink", "environment"}
        /\ remaining' \in Text
        /\ finished' \/ poisoned' => pc' = "idle"
    <2>1. \/ Poison("environment") \/ Poison("sink") \/ Poison("refused")
          \/ /\ pc' \in {"header", "footer"}
             /\ UNCHANGED <<finished, poisoned, remaining, error>>
          \/ /\ finished' = TRUE /\ pc' = "idle"
             /\ UNCHANGED <<poisoned, remaining, error>>
      BY FinishTailOutcome, Zenon
    <2>2. <<>> \in Text
      BY SMTT(30) DEF Text
    <2>3. /\ finished = FALSE /\ poisoned = FALSE /\ remaining \in Text
          /\ error \in {"none", "nonempty", "refused", "sink", "environment"}
      BY <1>1, <1>2, Zenon DEF TypeOK, usable
    <2> QED BY <2>1, <2>2, <2>3, Zenon DEF Poison
  <1>6. /\ Len(pending) <= max_chunk_size
        /\ Len(pending) <= max_chunk_size + 1
    BY <1>1, <1>2, Zenon DEF TypeOK
  <1>7. TypeOK'
    BY <1>2, <1>3, <1>4, <1>5, <1>6, Zenon DEF TypeOK, counters
  <1> QED BY <1>3, <1>4, <1>5, <1>7, Zenon DEF WriterInv, FinalInv, counters

\* The invariant holds in every state.
LEMMA WriterInvHolds == Spec => []WriterInv
  <1>1. Init => WriterInv
    <2> SUFFICES ASSUME Init PROVE WriterInv
      BY Zenon
    <2>1. IsSequence(content) /\ Len(content) \in Nat
      <3>1. IsSequence(<<>>)
        BY SMTT(30) DEF IsSequence
      <3>2. foreign.size \in Nat
        BY Zenon DEF foreign
      <3>3. IsSequence(encode(foreign))
        BY <3>2, EncodeSequence, Zenon
      <3>4. IsSequence(content)
        BY <3>1, <3>3, Zenon DEF Init
      <3> QED BY <3>4, SMTT(30) DEF IsSequence
    <2>2. TypeOK
      <3>1. <<>> \in Text /\ Len(<<>>) = 0
        BY SMTT(30) DEF Text
      <3>2. /\ 0 <= max_chunk_size /\ 0 <= max_chunk_size + 1
            /\ HEADER_LEN \in Nat /\ 0 \in Nat
        BY ChunkerOptionsValid, FixedLengths, SMTT(30)
      <3> QED BY <3>1, <3>2, Zenon DEF Init, TypeOK
    <2>3. entries \in Seq(ChunkEntry)
      BY SMTT(30) DEF Init
    <2>4. contiguous(entries, logical_offset, line_starts_seen)
      BY SMTT(30) DEF Init, contiguous, next_offset, next_line
    <2>5. FinalInv
      BY Zenon DEF Init, FinalInv
    <2> QED BY <2>1, <2>2, <2>3, <2>4, <2>5, Zenon DEF WriterInv
  <1>2. WriterInv /\ [Next]_vars => WriterInv'
    <2> SUFFICES ASSUME WriterInv, [Next]_vars PROVE WriterInv'
      BY Zenon
    <2>1. ASSUME New \/ NewFails PROVE WriterInv'
      <3> DEFINE cells == encode(header_placeholder)
      <3>1. header_placeholder.size \in Nat
        BY FixedLengths, Zenon DEF header_placeholder
      <3>2. IsSequence(cells)
        BY <3>1, EncodeSequence, Zenon
      <3>3. IsSequence(content) /\ 0 \in Nat /\ cursor \in 0..Len(content)
        BY Zenon DEF WriterInv, TypeOK
      <3>4. \/ SinkWrite(0, cells)
            \/ SinkWriteFails(0, cells)
            \/ cursor' \in 0..Len(content) /\ UNCHANGED <<content, visible, mode>>
        BY <2>1, Zenon DEF New, NewFails
      <3> HIDE DEF cells
      <3>5. IsSequence(content') /\ cursor' \in 0..Len(content') /\ mode' = mode
        BY <3>2, <3>3, <3>4, SinkWriteSequence, SinkWriteFailsSequence, Zenon
      <3>6. /\ UNCHANGED <<pending, entries, hashed, counters, finished, poisoned,
                           remaining>>
            /\ pc = "new" /\ pc' \in {"idle", "rejected"}
            /\ error' \in {error, "environment"}
        BY <2>1, Zenon DEF New, NewFails
      <3> QED BY <3>5, <3>6, Zenon DEF WriterInv, TypeOK, FinalInv, usable, counters
    <2>2. CASE NewNonEmpty
      BY <2>2, Zenon DEF NewNonEmpty, WriterInv, TypeOK, FinalInv, usable, counters, sink
    <2>3. ASSUME NEW bytes \in BoundedSeq(Byte, MaxPush), Push(bytes)
          PROVE  WriterInv'
      <3>1. bytes \in Text
        BY InputBounds, SMTT(30) DEF BoundedSeq, SeqOf, Text
      <3>2. hashed \o bytes \in Text
        BY <3>1, SMTT(30) DEF WriterInv, TypeOK, Text
      <3> QED BY <2>3, <3>1, <3>2, Zenon
              DEF Push, WriterInv, TypeOK, FinalInv, usable, counters, sink
    <2>4. CASE Finish
      BY <2>4, Zenon DEF Finish, WriterInv, TypeOK, FinalInv, usable, counters, sink
    <2>5. CASE PushReturn
      BY <2>5, Zenon DEF PushReturn, WriterInv, TypeOK, FinalInv, usable, counters, sink
    <2>6. CASE UNCHANGED vars
      BY <2>6, Zenon DEF vars, WriterInv, TypeOK, FinalInv, usable, counters, sink
    <2> QED
      BY <2>1, <2>2, <2>3, <2>4, <2>5, <2>6, PushStepKeepsWriterInv,
         FinishChunkKeepsWriterInv, FinishTailKeepsWriterInv, Zenon DEF Next, Working
  <1> QED BY <1>1, <1>2, PTL DEF Spec

\* Every field of QztFileWriter keeps its type, and pending its bound.
THEOREM TypeCorrect == Spec => []TypeOK
  <1>1. WriterInv => TypeOK
    BY Zenon DEF WriterInv
  <1> QED BY <1>1, WriterInvHolds, PTL

\* In every state of every run of the writer, on every input and with every
\* failure of the sink, the chunk table so far is one that the reader's
\* validate_chunk_table_block accepts.
THEOREM ChunkTableAlwaysValid == Spec => []ChunkTableValid
  <1>1. WriterInv => ChunkTableValid
    <2> SUFFICES ASSUME WriterInv PROVE ChunkTableValid
      BY Zenon
    <2>1. /\ entries \in Seq(ChunkEntry)
          /\ logical_offset \in Nat /\ line_starts_seen \in Nat
          /\ contiguous(entries, logical_offset, line_starts_seen)
      BY Zenon DEF WriterInv, TypeOK
    <2> QED BY <2>1, ContiguousIsValid, Zenon DEF ChunkTableValid
  <1> QED BY <1>1, WriterInvHolds, PTL

-----------------------------------------------------------------------------
(* Chunk boundaries.                                                       *)

\* An end that may stand in the chunk table: it splits nothing of the text
\* pushed so far, and as long as more can be pushed there is text behind it.
boundary(e) ==
    /\ e <= Len(hashed)
    /\ ~splits_crlf(hashed, e) /\ ~splits_character(hashed, e)
    /\ pc \in {"idle", "push"} /\ usable => e < Len(hashed)

\* from is where bytes stand in the pushed text.
stands_at(bytes, from) ==
    \A k \in 1..Len(bytes) : hashed[from + k] = bytes[k]

\* The pushed text is the text in chunks, then pending, then what the push
\* under way has not taken yet.
TextInv ==
    /\ pc = "new" => entries = <<>>
    /\ pc # "push" => remaining = <<>>
    /\ usable =>
          /\ Len(hashed) = logical_offset + Len(pending) + Len(remaining)
          /\ stands_at(pending, logical_offset)
          /\ stands_at(remaining, logical_offset + Len(pending))
    /\ \A i \in DOMAIN entries : boundary(logical_end(entries[i]))

\* An end that splits nothing in the buffer splits nothing in the text.
LEMMA BufferBoundary ==
    ASSUME WriterInv, pc \in {"push", "finish"},
           NEW buffer \in Text, NEW rest \in Text,
           Len(hashed) = logical_offset + Len(buffer) + Len(rest),
           stands_at(buffer, logical_offset),
           pc = "finish" => rest = <<>>,
           NEW end \in 1..Len(buffer),
           pc = "push" => end < Len(buffer),
           ~splits_crlf(buffer, end), ~splits_character(buffer, end)
    PROVE  boundary(logical_offset + end)
  <1>1. /\ logical_offset \in Nat /\ hashed \in Seq(Byte)
        /\ buffer \in Seq(Byte) /\ rest \in Seq(Byte)
        /\ Len(buffer) \in Nat /\ Len(rest) \in Nat /\ end \in Nat
    BY SMTT(30) DEF WriterInv, TypeOK, Text
  <1> DEFINE e == logical_offset + end
  <1>2. e <= Len(hashed) /\ (pc \in {"idle", "push"} => e < Len(hashed))
    BY <1>1, SMTT(30)
  <1>3. CASE end < Len(buffer)
    <2>1. end \in 1..Len(buffer) /\ end + 1 \in 1..Len(buffer)
      BY <1>1, <1>3, SMTT(30)
    <2>2. /\ hashed[logical_offset + end] = buffer[end]
          /\ hashed[logical_offset + (end + 1)] = buffer[end + 1]
      BY <2>1, Zenon DEF stands_at
    <2>3. /\ At(hashed, e - 1) = At(buffer, end - 1)
          /\ At(hashed, e) = At(buffer, end)
      <3>1. /\ (e - 1) + 1 = logical_offset + end /\ (end - 1) + 1 = end
            /\ e + 1 = logical_offset + (end + 1)
        BY <1>1, SMTT(30)
      <3> QED BY <2>2, <3>1, Zenon DEF At
    <2>4. ~splits_crlf(hashed, e) /\ ~splits_character(hashed, e)
      BY <1>1, <1>3, <2>3, SMTT(30) DEF splits_crlf, splits_character
    <2> QED BY <1>2, <2>4, Zenon DEF boundary
  <1>4. CASE end = Len(buffer)
    <2>1. rest = <<>> /\ e = Len(hashed)
      BY <1>1, <1>4, SMTT(30)
    <2>2. ~splits_crlf(hashed, e) /\ ~splits_character(hashed, e)
      BY <1>1, <2>1, SMTT(30) DEF splits_crlf, splits_character
    <2> QED BY <1>2, <2>2, Zenon DEF boundary
  <1> QED BY <1>1, <1>3, <1>4, SMTT(30)

\* An error return keeps the boundaries and asks nothing of the text.
LEMMA PoisonKeepsTextInv ==
    ASSUME TextInv, NEW why, Poison(why), UNCHANGED <<entries, hashed>>
    PROVE  TextInv'
  BY Zenon DEF TextInv, Poison, boundary, usable

\* emit_pending_chunk moves the front of the buffer from the pending bytes to
\* the chunks, or returns an error.
LEMMA EmitKeepsTextInv ==
    ASSUME WriterInv, TextInv, pc \in {"push", "finish"},
           NEW buffer \in Text, NEW rest \in Text, NEW end,
           Len(hashed) = logical_offset + Len(buffer) + Len(rest),
           stands_at(buffer, logical_offset),
           stands_at(rest, logical_offset + Len(buffer)),
           pc = "finish" => rest = <<>>,
           end = None \/ /\ end \in 1..Len(buffer) /\ end <= max_chunk_size
                         /\ pc = "push" => end < Len(buffer)
                         /\ ~splits_crlf(buffer, end)
                         /\ ~splits_character(buffer, end),
           EmitPendingChunk(buffer, end, rest)
    PROVE  TextInv'
  <1> DEFINE text == Slice(buffer, 0, end)
             refused == end = None \/ emit_refused(text)
  <1>1. \/ ~refused /\ EmitChunk(buffer, text, rest)
        \/ \E why \in {"refused", "environment"} :
              Poison(why) /\ UNCHANGED <<entries, hashed>>
    BY Zenon DEF EmitPendingChunk
  <1>2. CASE ~refused /\ EmitChunk(buffer, text, rest)
    <2>1. /\ text \in Text /\ Len(text) = end /\ text # <<>>
          /\ end \in 1..Len(buffer) /\ end <= max_chunk_size
          /\ pc = "push" => end < Len(buffer)
          /\ ~splits_crlf(buffer, end) /\ ~splits_character(buffer, end)
      BY <1>2, SMTT(30) DEF Slice, Text
    <2> HIDE DEF text, refused
    <2>2. /\ logical_offset' = logical_offset + Len(text)
          /\ entries' = Append(entries, new_entry(text))
          /\ pending' = Slice(buffer, Len(text), Len(buffer))
          /\ remaining' = rest
          /\ UNCHANGED <<hashed, finished, poisoned, pc>>
      BY <1>2, Zenon DEF EmitChunk
    <2>3. logical_end(new_entry(text)) = logical_offset + end
      BY <2>1, NewEntry, Zenon DEF WriterInv, logical_end
    <2>4. boundary(logical_offset + end)
      BY <2>1, BufferBoundary, Zenon
    <2>5. \A i \in DOMAIN entries' : boundary(logical_end(entries'[i]))
      <3>1. entries \in Seq(ChunkEntry) /\ new_entry(text) \in ChunkEntry
        BY <2>1, NewEntry, Zenon DEF WriterInv
      <3>2. \A i \in DOMAIN entries' :
                \/ i \in DOMAIN entries /\ entries'[i] = entries[i]
                \/ entries'[i] = new_entry(text)
        BY <2>2, <3>1, SMTT(30)
      <3> QED BY <2>3, <2>4, <3>2, Zenon DEF TextInv
    <2>6. (\A i \in DOMAIN entries : boundary(logical_end(entries[i])))'
      BY <2>2, <2>5, Zenon DEF boundary, usable
    <2>7. /\ Len(pending') = Len(buffer) - end /\ Len(pending') \in Nat
          /\ \A k \in 1..Len(pending') : pending'[k] = buffer[end + k]
      BY <2>1, <2>2, SMTT(30) DEF Slice, Text
    <2>8. logical_offset \in Nat /\ Len(buffer) \in Nat /\ Len(rest) \in Nat
      BY SMTT(30) DEF WriterInv, TypeOK, Text
    <2>9. logical_offset' + Len(pending') = logical_offset + Len(buffer)
      BY <2>1, <2>2, <2>7, <2>8, SMTT(30)
    <2>10. /\ Len(hashed') = logical_offset' + Len(pending') + Len(remaining')
           /\ stands_at(remaining, logical_offset + Len(pending))'
      BY <2>2, <2>9, Zenon DEF stands_at
    <2>11. stands_at(pending, logical_offset)'
      <3> SUFFICES ASSUME NEW k \in 1..Len(pending')
                   PROVE  hashed'[logical_offset' + k] = pending'[k]
        BY Zenon DEF stands_at
      <3>1. /\ end + k \in 1..Len(buffer)
            /\ logical_offset' + k = logical_offset + (end + k)
        BY <2>1, <2>2, <2>7, <2>8, SMTT(30)
      <3>2. hashed[logical_offset + (end + k)] = buffer[end + k]
        BY <3>1, Zenon DEF stands_at
      <3> QED BY <2>2, <2>7, <3>1, <3>2, Zenon
    <2>12. pc' \in {"push", "finish"} /\ (pc' # "push" => remaining' = <<>>)
      BY <2>2, Zenon
    <2> QED BY <2>6, <2>10, <2>11, <2>12, Zenon DEF TextInv
  <1>3. CASE \E why \in {"refused", "environment"} :
                Poison(why) /\ UNCHANGED <<entries, hashed>>
    BY <1>3, PoisonKeepsTextInv, Zenon
  <1> QED BY <1>1, <1>2, <1>3, Zenon

\* One turn of push's loop moves the front of the remaining bytes to the end
\* of the pending ones.
LEMMA PushStepKeepsTextInv ==
    ASSUME WriterInv, TextInv, PushStep
    PROVE  TextInv'
  <1> DEFINE buffer == pending \o SubSeq(remaining, 1, take)
             rest == SubSeq(remaining, take + 1, Len(remaining))
  <1>1. pc = "push" /\ usable /\ max_chunk_size \in Nat
    BY ChunkerOptionsValid, Zenon DEF PushStep, WriterInv, FinalInv, usable
  <1>2. /\ pending \in Seq(Byte) /\ remaining \in Seq(Byte)
        /\ logical_offset \in Nat /\ take \in 0..Len(remaining)
    BY <1>1, TurnBuffer, Zenon DEF WriterInv, TypeOK, Text
  <1>3. /\ buffer \in Text /\ rest \in Text /\ Len(buffer) \in Nat
        /\ Len(buffer) = Len(pending) + take
        /\ Len(rest) = Len(remaining) - take
    BY <1>1, TurnBuffer, SMTT(30) DEF Text
  <1>4. /\ \A k \in 1..Len(buffer) :
               buffer[k] = IF k <= Len(pending) THEN pending[k]
                           ELSE remaining[k - Len(pending)]
        /\ \A k \in 1..Len(rest) : rest[k] = remaining[take + k]
    BY <1>2, <1>3, SMTT(30)
  <1>5. \/ /\ pending' = buffer /\ remaining' = rest
           /\ UNCHANGED <<entries, hashed, counters, finished, poisoned, pc>>
        \/ /\ Len(buffer) > max_chunk_size
           /\ EmitPendingChunk(buffer, choose_stream_chunk_end(buffer), rest)
        \/ Poison("environment") /\ UNCHANGED <<entries, hashed>>
    BY Zenon DEF PushStep
  <1> HIDE DEF buffer, rest
  <1>6. /\ Len(hashed) = logical_offset + Len(pending) + Len(remaining)
        /\ stands_at(pending, logical_offset)
        /\ stands_at(remaining, logical_offset + Len(pending))
    BY <1>1, Zenon DEF TextInv
  <1>7. Len(hashed) = logical_offset + Len(buffer) + Len(rest)
    BY <1>2, <1>3, <1>6, SMTT(30)
  <1>8. stands_at(buffer, logical_offset)
    <2> SUFFICES ASSUME NEW k \in 1..Len(buffer)
                 PROVE  hashed[logical_offset + k] = buffer[k]
      BY Zenon DEF stands_at
    <2>1. CASE k <= Len(pending)
      BY <1>2, <1>4, <1>6, <2>1, SMTT(30) DEF stands_at
    <2>2. CASE ~(k <= Len(pending))
      <3>1. /\ k - Len(pending) \in 1..Len(remaining)
            /\ (logical_offset + Len(pending)) + (k - Len(pending))
                  = logical_offset + k
        BY <1>2, <1>3, <2>2, SMTT(30)
      <3>2. hashed[(logical_offset + Len(pending)) + (k - Len(pending))]
              = remaining[k - Len(pending)]
        BY <1>6, <3>1, Zenon DEF stands_at
      <3> QED BY <1>4, <2>2, <3>1, <3>2, Zenon
    <2> QED BY <2>1, <2>2, Zenon
  <1>9. stands_at(rest, logical_offset + Len(buffer))
    <2> SUFFICES ASSUME NEW k \in 1..Len(rest)
                 PROVE  hashed[(logical_offset + Len(buffer)) + k] = rest[k]
      BY Zenon DEF stands_at
    <2>1. /\ take + k \in 1..Len(remaining)
          /\ (logical_offset + Len(pending)) + (take + k)
                = (logical_offset + Len(buffer)) + k
      BY <1>2, <1>3, SMTT(30)
    <2>2. hashed[(logical_offset + Len(pending)) + (take + k)]
            = remaining[take + k]
      BY <1>6, <2>1, Zenon DEF stands_at
    <2> QED BY <1>4, <2>1, <2>2, Zenon
  <1>10. CASE /\ pending' = buffer /\ remaining' = rest
              /\ UNCHANGED <<entries, hashed, counters, finished, poisoned, pc>>
    BY <1>1, <1>7, <1>8, <1>9, <1>10, Zenon
       DEF TextInv, boundary, usable, counters, stands_at
  <1>11. CASE /\ Len(buffer) > max_chunk_size
              /\ EmitPendingChunk(buffer, choose_stream_chunk_end(buffer), rest)
    <2> DEFINE end == choose_stream_chunk_end(buffer)
    <2>1. end = None \/ valid_end(buffer, 0, max_chunk_size, end)
      BY <1>3, <1>11, StreamEndValid, Zenon
    <2> HIDE DEF end
    <2>2. end = None \/ /\ end \in 1..Len(buffer) /\ end <= max_chunk_size
                        /\ end < Len(buffer)
                        /\ ~splits_crlf(buffer, end)
                        /\ ~splits_character(buffer, end)
      BY <1>1, <1>3, <1>11, <2>1, SMTT(30) DEF valid_end
    <2> QED BY <1>1, <1>3, <1>7, <1>8, <1>9, <1>11, <2>2, EmitKeepsTextInv, Zenon DEF end
  <1>12. CASE Poison("environment") /\ UNCHANGED <<entries, hashed>>
    BY <1>12, PoisonKeepsTextInv, Zenon
  <1> QED BY <1>5, <1>10, <1>11, <1>12, Zenon

\* One chunk of finish: the last one may end where the text ends.
LEMMA FinishChunkKeepsTextInv ==
    ASSUME WriterInv, TextInv, FinishChunk
    PROVE  TextInv'
  <1> DEFINE end == choose_known_chunk_end(pending)
  <1>1. /\ pc = "finish" /\ usable /\ pending \in Text /\ pending # <<>>
        /\ EmitPendingChunk(pending, end, <<>>)
    BY Zenon DEF FinishChunk, WriterInv, TypeOK, FinalInv, usable
  <1>2. end = None \/ /\ end \in 1..Len(pending) /\ end <= max_chunk_size
                      /\ ~splits_crlf(pending, end)
                      /\ ~splits_character(pending, end)
    BY <1>1, KnownEndValid, Zenon
  <1>3. <<>> \in Text /\ Len(<<>>) = 0
    BY SMTT(30) DEF Text
  <1>4. /\ Len(hashed) = logical_offset + Len(pending) + Len(<<>>)
        /\ stands_at(pending, logical_offset)
        /\ stands_at(<<>>, logical_offset + Len(pending))
    BY <1>1, Zenon DEF TextInv
  <1> HIDE DEF end
  <1> QED BY <1>1, <1>2, <1>3, <1>4, EmitKeepsTextInv, Zenon

\* push: text behind a boundary cannot split it, as there was text already.
LEMMA PushKeepsTextInv ==
    ASSUME WriterInv, TextInv, NEW bytes \in Text, Push(bytes)
    PROVE  TextInv'
  <1>1. /\ hashed \in Seq(Byte) /\ bytes \in Seq(Byte) /\ pending \in Seq(Byte)
        /\ logical_offset \in Nat /\ entries \in Seq(ChunkEntry)
    BY Zenon DEF WriterInv, TypeOK, Text
  <1>2. /\ hashed' = hashed \o bytes /\ remaining' = bytes /\ pc' = "push"
        /\ UNCHANGED <<pending, entries, counters, finished, poisoned>>
        /\ pc = "idle" /\ usable /\ remaining = <<>>
    BY Zenon DEF Push, TextInv
  <1>3. /\ Len(hashed') = Len(hashed) + Len(bytes)
        /\ \A k \in 1..Len(hashed) : hashed'[k] = hashed[k]
        /\ \A k \in 1..Len(bytes) : hashed'[Len(hashed) + k] = bytes[k]
    BY <1>1, <1>2, SMTT(30)
  <1>4. /\ Len(hashed) = logical_offset + Len(pending)
        /\ stands_at(pending, logical_offset)
    BY <1>1, <1>2, SMTT(30) DEF TextInv
  <1>5. /\ Len(hashed') = logical_offset' + Len(pending') + Len(remaining')
        /\ stands_at(pending, logical_offset)'
        /\ stands_at(remaining, logical_offset + Len(pending))'
    <2>1. \A k \in 1..Len(pending) :
              hashed'[logical_offset + k] = hashed[logical_offset + k]
      BY <1>1, <1>3, <1>4, SMTT(30)
    <2>2. UNCHANGED <<logical_offset, pending>>
      BY <1>2, Zenon DEF counters
    <2>3. Len(hashed') = logical_offset' + Len(pending') + Len(remaining')
      BY <1>2, <1>3, <1>4, <2>2, Zenon
    <2>4. stands_at(pending, logical_offset)'
      BY <1>4, <2>1, <2>2, Zenon DEF stands_at
    <2>5. stands_at(remaining, logical_offset + Len(pending))'
      BY <1>2, <1>3, <1>4, <2>2, Zenon DEF stands_at
    <2> QED BY <2>3, <2>4, <2>5, Zenon
  <1>6. ASSUME NEW i \in DOMAIN entries
        PROVE  boundary(logical_end(entries[i]))'
    <2> DEFINE e == logical_end(entries[i])
    <2>1. e \in Nat /\ e < Len(hashed)
      BY <1>1, <1>2, EntryFields, SMTT(30) DEF TextInv, boundary, logical_end
    <2>2. ~splits_crlf(hashed, e) /\ ~splits_character(hashed, e)
      BY Zenon DEF TextInv, boundary
    <2> HIDE DEF e
    <2>3. e > 0 => /\ At(hashed', e - 1) = At(hashed, e - 1)
                   /\ At(hashed', e) = At(hashed, e)
      <3>1. e > 0 => e - 1 + 1 \in 1..Len(hashed) /\ e + 1 \in 1..Len(hashed)
        BY <1>1, <2>1, SMTT(30)
      <3> QED BY <1>3, <3>1, Zenon DEF At
    <2>4. ~splits_crlf(hashed', e) /\ ~splits_character(hashed', e)
      BY <2>1, <2>2, <2>3, Zenon DEF splits_crlf, splits_character
    <2>5. e <= Len(hashed') /\ e < Len(hashed')
      BY <1>1, <1>3, <2>1, SMTT(30)
    <2> QED BY <1>2, <2>4, <2>5, Zenon DEF boundary, e
  <1> QED BY <1>2, <1>5, <1>6, Zenon DEF TextInv

\* The text invariant holds in every state.
LEMMA TextInvHolds == Spec => []TextInv
  <1>1. Init => TextInv
    BY SMTT(30) DEF Init, TextInv, usable, stands_at
  <1>2. WriterInv /\ TextInv /\ [Next]_vars => TextInv'
    <2> SUFFICES ASSUME WriterInv, TextInv, [Next]_vars PROVE TextInv'
      BY Zenon
    <2>1. ASSUME New \/ NewNonEmpty \/ NewFails PROVE TextInv'
      <3>1. /\ pc = "new" /\ pc' \in {"idle", "rejected"}
            /\ UNCHANGED <<pending, entries, hashed, counters, finished, poisoned,
                           remaining>>
        BY <2>1, Zenon DEF New, NewNonEmpty, NewFails
      <3>2. entries' = <<>> /\ remaining' = <<>>
        BY <3>1, Zenon DEF TextInv
      <3>3. usable' = usable /\ UNCHANGED <<logical_offset, pending, hashed>>
        BY <3>1, Zenon DEF usable, counters
      <3>4. usable' => /\ Len(hashed') = logical_offset' + Len(pending')
                                            + Len(remaining')
                       /\ stands_at(pending, logical_offset)'
                       /\ stands_at(remaining, logical_offset + Len(pending))'
        BY <3>1, <3>3, Zenon DEF TextInv, stands_at
      <3> QED BY <3>1, <3>2, <3>4, SMTT(30) DEF TextInv
    <2>2. ASSUME NEW bytes \in BoundedSeq(Byte, MaxPush), Push(bytes)
          PROVE  TextInv'
      <3>1. bytes \in Text
        BY InputBounds, SMTT(30) DEF BoundedSeq, SeqOf, Text
      <3> QED BY <2>2, <3>1, PushKeepsTextInv, Zenon
    <2>3. CASE Finish \/ PushReturn \/ UNCHANGED vars
      <3>1. UNCHANGED <<pending, entries, hashed, counters, finished, poisoned, remaining>>
        BY <2>3, Zenon DEF Finish, PushReturn, vars
      <3>2. UNCHANGED <<pending, entries, hashed, logical_offset, usable, remaining>>
        BY <3>1, Zenon DEF usable, counters
      <3>3. pc' # "new" \/ pc = "new"
        BY <2>3, Zenon DEF Finish, PushReturn, vars
      <3>4. pc' \in {"idle", "push"} /\ usable' => pc \in {"idle", "push"} /\ usable
        BY <2>3, <3>2, Zenon DEF Finish, PushReturn, vars
      <3>5. pc' # "push" => remaining' = <<>>
        BY <2>3, <3>2, Zenon DEF Finish, PushReturn, vars, TextInv
      <3>6. usable' => /\ Len(hashed') = logical_offset' + Len(pending')
                                            + Len(remaining')
                       /\ stands_at(pending, logical_offset)'
                       /\ stands_at(remaining, logical_offset + Len(pending))'
        BY <3>2, Zenon DEF TextInv, stands_at
      <3>7. \A i \in DOMAIN entries' : boundary(logical_end(entries[i]))'
        BY <3>2, <3>4, Zenon DEF TextInv, boundary
      <3> QED BY <3>2, <3>3, <3>5, <3>6, <3>7, Zenon DEF TextInv
    <2>4. CASE FinishIndexes \/ FinishHeader \/ FinishFooter
      <3>1. UNCHANGED <<pending, entries, hashed, counters>>
        BY <2>4, Zenon DEF FinishIndexes, FinishHeader, FinishFooter
      <3>2. pc \in {"finish", "header", "footer"}
        BY <2>4, Zenon DEF FinishIndexes, FinishHeader, FinishFooter
      <3>3. CASE \E why \in {"environment", "sink", "refused"} : Poison(why)
        BY <3>1, <3>3, PoisonKeepsTextInv, Zenon
      <3>4. CASE /\ pc' \in {"header", "footer"}
                 /\ UNCHANGED <<finished, poisoned, remaining, error>>
        BY <3>1, <3>2, <3>4, Zenon DEF TextInv, boundary, usable, stands_at, counters
      <3>5. CASE /\ finished' = TRUE /\ pc' = "idle"
                 /\ UNCHANGED <<poisoned, remaining, error>>
        BY <3>1, <3>2, <3>5, Zenon DEF TextInv, boundary, usable
      <3> QED BY <2>4, <3>3, <3>4, <3>5, FinishTailOutcome, Zenon
    <2> QED
      BY <2>1, <2>2, <2>3, <2>4, PushStepKeepsTextInv, FinishChunkKeepsTextInv, Zenon
         DEF Next, Working
  <1> QED BY <1>1, <1>2, WriterInvHolds, PTL DEF Spec

\* However the text is cut into pushes, and whatever fails, no boundary in the
\* chunk table falls inside a character or a CRLF pair of the text pushed.
THEOREM BoundariesAlwaysValid == Spec => []BoundariesValid
  <1>1. TextInv => BoundariesValid
    BY Zenon DEF TextInv, boundary, BoundariesValid
  <1> QED BY <1>1, TextInvHolds, PTL
=============================================================================
