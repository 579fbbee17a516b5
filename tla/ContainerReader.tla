-------------------------- MODULE ContainerReader --------------------------
(***************************************************************************)
(* What a reader makes of the bytes of a file: the structural checks of    *)
(* open_skeleton_details (src/src/skeleton.rs), chunk table validation     *)
(* (src/src/chunk_table.rs), and decoding, range and line access and deep  *)
(* verification (src/src/reader.rs), for containers without the optional   *)
(* dictionary, dense line and document blocks.                             *)
(***************************************************************************)
EXTENDS Container

\* Mutant of local_line_starts: a line starts after a final LF as well.
local_line_starts_past_end(decoded, flags) ==
    {i \in 0..Len(decoded) : IF i = 0 THEN ~flags ELSE At(decoded, i - 1) = "LF"}

\* line_start_offsets / local_line_starts: the line starts of one chunk.
local_line_starts(decoded, flags) ==
    {i \in 0..(Len(decoded) - 1) :
        IF i = 0 THEN ~flags ELSE At(decoded, i - 1) = "LF"}

\* The offset, or the line, at which an entry has to start: the running sum of
\* the sizes of the entries before it.
running_total(sizes) ==
    LET total[i \in 0..Len(sizes)] ==
            IF i = 0 THEN 0 ELSE total[i - 1] + sizes[i]
    IN  total

validate_chunk_table_block(entries, chunk_count, original_size, line_count) ==
    LET logical == running_total([i \in DOMAIN entries |-> entries[i].uncompressed_size])
        lines == running_total([i \in DOMAIN entries |-> entries[i].line_count])
    IN  /\ Len(entries) = chunk_count
        /\ original_size = 0 <=> chunk_count = 0
        /\ original_size = 0 => line_count = 0
        /\ line_count <= original_size
        /\ \A i \in DOMAIN entries :
              /\ entries[i].chunk_id = i - 1
              /\ entries[i].logical_offset = logical[i - 1]
              /\ entries[i].first_line = lines[i - 1]
              /\ entries[i].compressed_size # 0
              /\ entries[i].uncompressed_size # 0
              /\ entries[i].line_count <= entries[i].uncompressed_size
        /\ logical[Len(entries)] = original_size
        /\ lines[Len(entries)] = line_count

\* A block that a reference names: inside the file, with its checksum, of the
\* right kind.
resolve(bytes, ref, kind) ==
    IF inside(bytes, ref) /\ blake3(slice_physical(bytes, ref)) = ref.checksum
    THEN decode(slice_physical(bytes, ref), kind) ELSE NoBlock

validate_source_consistency(metadata, root) ==
    /\ metadata.container_id = root.container_id
    /\ metadata.original_size = root.original_size
    /\ metadata.original_checksum = root.original_checksum
    /\ metadata.line_count = root.line_count

open_header(bytes) == decode(Slice(bytes, 0, HEADER_LEN), "header")

open_trailer(bytes) ==
    decode(Slice(bytes, Len(bytes) - FOOTER_TRAILER_LEN, Len(bytes)), "trailer")

open_footer(bytes) ==
    LET trailer == open_trailer(bytes)
    IN  resolve(bytes, [offset |-> trailer.footer_payload_offset,
                        size |-> trailer.footer_payload_size,
                        checksum |-> trailer.footer_payload_checksum], "footer")

\* An empty table has no bytes to decode.
open_chunk_table(bytes, ref) ==
    IF ref.size = 0 /\ inside(bytes, ref) /\ blake3(<<>>) = ref.checksum
    THEN chunk_table(<<>>) ELSE resolve(bytes, ref, "chunk_table")

physical_ranges(header, footer, trailer, root, entries) ==
    <<range(header.metadata_offset, header.metadata_size),
      range(footer.index_root.offset, footer.index_root.size),
      range(trailer.footer_payload_offset, trailer.footer_payload_size),
      range(root.chunk_table.offset, root.chunk_table.size)>>
    \o [i \in DOMAIN entries |->
           range(entries[i].physical_offset, entries[i].compressed_size)]

\* The checks in the order of the code; the first that fails rejects the file.
open_skeleton_details(bytes) ==
    LET header == open_header(bytes)
        trailer == open_trailer(bytes)
        footer == open_footer(bytes)
        metadata == resolve(bytes, footer.metadata, "metadata")
        root == resolve(bytes, footer.index_root, "index_root")
        table == open_chunk_table(bytes, root.chunk_table)
    IN  IF /\ Len(bytes) >= HEADER_LEN + FOOTER_TRAILER_LEN
           /\ header # NoBlock /\ trailer # NoBlock /\ footer # NoBlock
           /\ footer.final_file_size = Len(bytes)
           /\ footer.container_id = header.container_id
           /\ footer.metadata.offset = header.metadata_offset
           /\ footer.metadata.size = header.metadata_size
           /\ metadata # NoBlock /\ metadata.container_id = header.container_id
           /\ root # NoBlock /\ validate_source_consistency(metadata, root)
           /\ root.chunk_table.size <= max_chunk_entries * CHUNK_ENTRY_LEN
           /\ table # NoBlock
           /\ validate_chunk_table_block(table.entries, root.chunk_count,
                                         root.original_size, root.line_count)
           /\ \A i \in DOMAIN table.entries :
                 enforce_chunk_sizes(table.entries[i].compressed_size,
                                     table.entries[i].uncompressed_size)
           /\ validate_physical_ranges(Len(bytes),
                 physical_ranges(header, footer, trailer, root, table.entries))
        THEN [chunk_entries |-> table.entries, metadata |-> metadata,
              footer_payload |-> footer,
              footer_payload_offset |-> trailer.footer_payload_offset,
              original_size |-> root.original_size, line_count |-> root.line_count]
        ELSE Rejected

-----------------------------------------------------------------------------
(* Decoding and access.  None stands for an error.                         *)

\* decode_entry and decode_compressed_entry: the frame of an entry is decoded
\* only after its checksum matched, the text returned only after its own did.
decode_entry(bytes, entry) ==
    LET ref == [offset |-> entry.physical_offset, size |-> entry.compressed_size,
                checksum |-> entry.compressed_checksum]
        decoded == resolve(bytes, ref, "frame")
    IN  IF /\ decoded # NoBlock
           /\ Len(decoded.text) = entry.uncompressed_size
           /\ blake3(decoded.text) = entry.uncompressed_checksum
        THEN [text |-> decoded.text] ELSE Rejected

all_decode(bytes, details) ==
    \A i \in DOMAIN details.chunk_entries :
        decode_entry(bytes, details.chunk_entries[i]) # Rejected

chunk_texts(bytes, entries) ==
    [i \in DOMAIN entries |-> decode_entry(bytes, entries[i]).text]

export_all(bytes, details) ==
    IF all_decode(bytes, details)
    THEN [text |-> FlattenSeq(chunk_texts(bytes, details.chunk_entries))]
    ELSE Rejected

\* The binary search of partition_by_end: the first entry that ends after target.
partition_by_end(ends, target) ==
    LET search[low, high \in 0..Len(ends)] ==
            IF low >= high THEN low
            ELSE LET mid == low + (high - low) \div 2
                 IN  IF ends[mid + 1] <= target
                     THEN search[mid + 1, high] ELSE search[low, mid]
    IN  search[0, Len(ends)]

logical_end(entry) == entry.logical_offset + entry.uncompressed_size

line_end(entry) == entry.first_line + entry.line_count

\* read_range: the chunks from the one that holds offset to the last that
\* starts before the end, each cut to the range.
read_range(bytes, details, offset, length) ==
    LET entries == details.chunk_entries
        end == offset + length
        first == partition_by_end([i \in DOMAIN entries |-> logical_end(entries[i])], offset)
        touched == SelectSeq([i \in 1..Len(entries) |-> i],
                       LAMBDA i : i > first /\ entries[i].logical_offset < end)
        cut(entry) ==
            Slice(decode_entry(bytes, entry).text,
                  Max({offset, entry.logical_offset}) - entry.logical_offset,
                  Min({end, logical_end(entry)}) - entry.logical_offset)
        output == FlattenSeq([k \in DOMAIN touched |-> cut(entries[touched[k]])])
    IN  IF end > details.original_size THEN Rejected
        ELSE IF length = 0 THEN [text |-> <<>>]
        ELSE IF \E k \in DOMAIN touched :
                   decode_entry(bytes, entries[touched[k]]) = Rejected
        THEN Rejected
        ELSE IF Len(output) # length THEN Rejected
        ELSE [text |-> output]

\* read_line: from the line's start in the chunk that holds it to the next LF,
\* through as many following chunks as it takes.
read_line(bytes, details, line) ==
    LET entries == details.chunk_entries
        at == partition_by_end([i \in DOMAIN entries |-> line_end(entries[i])], line) + 1
        fails(i) == decode_entry(bytes, entries[i]) = Rejected
        text(i) == IF fails(i) THEN <<>> ELSE decode_entry(bytes, entries[i]).text
        starts == local_line_starts(text(at), entries[at].flags)
        local_start == CHOOSE s \in starts :
            Cardinality({t \in starts : t < s}) = line - entries[at].first_line
        part(i) == IF i = at THEN Slice(text(at), local_start, Len(text(at)))
                   ELSE text(i)
        lfs(i) == {k \in DOMAIN part(i) : part(i)[k] = "LF"}
        stops == {i \in at..Len(entries) : lfs(i) # {}}
        last == IF stops = {} THEN Len(entries) ELSE Min(stops)
        append_until_lf(i) ==
            IF lfs(i) = {} THEN part(i) ELSE SubSeq(part(i), 1, Min(lfs(i)))
    IN  IF line >= details.line_count THEN Rejected
        ELSE IF \E i \in at..last : fails(i) THEN Rejected
        ELSE [text |-> FlattenSeq([k \in 1..(last - at + 1) |->
                                      append_until_lf(at + k - 1)])]

verify_normal(bytes, details) ==
    /\ \A i \in DOMAIN details.chunk_entries :
          LET entry == details.chunk_entries[i]
          IN  blake3(slice_physical(bytes, range(entry.physical_offset,
                                                 entry.compressed_size)))
                  = entry.compressed_checksum
    /\ blake3(Slice(bytes, 0, details.footer_payload_offset))
          = details.footer_payload.container_checksum

\* StreamingTextAnalysis and the writer's newline state: LF bytes of a chunk
\* that end a CRLF (alone = FALSE) or stand alone, given the byte before it.
newlines(previous_byte, text, alone) ==
    Cardinality({i \in DOMAIN text :
        /\ text[i] = "LF"
        /\ ((IF i = 1 THEN previous_byte ELSE text[i - 1]) = "CR") = ~alone})

text_analysis_new ==
    [line_starts_seen |-> 0, lf_count |-> 0, crlf_count |-> 0,
     previous_byte |-> "none"]

text_analysis_update(analysis, text, flags) ==
    [line_starts_seen |->
         analysis.line_starts_seen + Cardinality(local_line_starts(text, flags)),
     lf_count |-> analysis.lf_count + newlines(analysis.previous_byte, text, TRUE),
     crlf_count |->
         analysis.crlf_count + newlines(analysis.previous_byte, text, FALSE),
     previous_byte |-> Last(text)]

\* verify_deep: the chunk table against the decoded text, chunk by chunk, and
\* the totals against the metadata.
verify_deep(bytes, details) ==
    LET entries == details.chunk_entries
        texts == chunk_texts(bytes, entries)
        analysis[i \in 0..Len(entries)] ==
            IF i = 0 THEN text_analysis_new
            ELSE text_analysis_update(analysis[i - 1], texts[i], entries[i].flags)
        whole == FlattenSeq(texts)
        total == analysis[Len(entries)]
    IN  /\ verify_normal(bytes, details)
        /\ all_decode(bytes, details)
        /\ \A i \in DOMAIN entries :
              /\ entries[i].flags = (/\ entries[i].logical_offset > 0
                                     /\ analysis[i - 1].previous_byte # "LF")
              /\ entries[i].first_line = analysis[i - 1].line_starts_seen
              /\ from_utf8(texts[i])
              /\ entries[i].line_count
                    = Cardinality(local_line_starts(texts[i], entries[i].flags))
        /\ Len(whole) = details.original_size
        /\ blake3(whole) = details.metadata.original_checksum
        /\ total.line_starts_seen = details.metadata.line_count
        /\ from_counts(total.lf_count, total.crlf_count)
              = details.metadata.newline_mode
=============================================================================
