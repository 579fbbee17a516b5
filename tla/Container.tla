----------------------------- MODULE Container -----------------------------
(***************************************************************************)
(* The QZT container as bytes: what the writer assembles (pack_bytes of    *)
(* src/src/writer.rs) and what a reader accepts (open of                   *)
(* src/src/skeleton.rs, export of src/src/reader.rs).                      *)
(*                                                                         *)
(* A file is a sequence of cells.  A cell is <<block, i>>, byte i of the   *)
(* encoding of that block, so a file may hold a block in full, in part, or *)
(* overwritten by another one.  Decoding succeeds on a complete encoding   *)
(* only.  blake3 is taken as injective: a checksum is the hashed value.    *)
(* Blocks of different kinds that share a field name give it one type.     *)
(***************************************************************************)
EXTENDS Chunker, PhysicalRanges, SequencesExt

CONSTANTS
    CHUNK_ENTRY_LEN,       \* bytes of one chunk table record
    metadata_len,          \* bytes of the metadata block's CBOR
    index_root_len,        \* bytes of the index root's CBOR
    footer_fixed_len,      \* bytes of the footer's CBOR but final_file_size
    frame_len(_),          \* bytes of the zstd frame of a chunk (encode_chunk)
    max_compressed_size,   \* ResourceLimits::max_compressed_chunk_size
    max_uncompressed_size  \* ResourceLimits::max_uncompressed_chunk_size

ASSUME BlockLengths ==
    /\ CHUNK_ENTRY_LEN \in Nat \ {0}
    /\ metadata_len \in Nat \ {0}
    /\ index_root_len \in Nat \ {0}
    /\ footer_fixed_len \in Nat \ {0}
    /\ max_compressed_size \in Nat
    /\ max_uncompressed_size \in Nat

\* A frame has a length; zero is refused by the writers.
ASSUME FrameLength ==
    \A n \in 0..max_chunk_size : \A text \in [1..n -> Byte] : frame_len(text) \in Nat

\* validate_writer_options, called before anything is written.
ASSUME WriterOptionsValid == max_chunk_size <= max_uncompressed_size

blake3(bytes) == bytes

\* The encoding of a block, whatever its kind: encode_deterministic for the
\* blocks that are CBOR.
encode(block) == [i \in 1..block.size |-> <<block, i>>]

NoBlock == [kind |-> "none", size |-> 0]

\* The block whose complete encoding the cells are: a decoder accepts nothing
\* but a whole item of its schema (decode_prologue).  What the decoders ask of
\* single fields, every block of a writer meets.
decode(cells, kind) ==
    IF cells # <<>> /\ cells[1][1].kind = kind /\ cells = encode(cells[1][1])
    THEN cells[1][1] ELSE NoBlock

\* slice_physical: None of the file's bytes when the range leaves the file.
inside(bytes, r) == range_end(r) <= Len(bytes)

slice_physical(bytes, r) == Slice(bytes, r.offset, range_end(r))

-----------------------------------------------------------------------------
(* Blocks.                                                                 *)

frame(text) == [kind |-> "frame", size |-> frame_len(text), text |-> text]

header_placeholder == [kind |-> "zero", size |-> HEADER_LEN]

\* The container id is the first half of the input's hash.
container_id_from_input(input) == blake3(input)

\* One chunk table entry; plan is the chunk's part of the plan.
chunk_entry(plan, physical_offset, text) ==
    [chunk_id |-> plan.chunk_id,
     physical_offset |-> physical_offset,
     logical_offset |-> plan.logical_offset,
     compressed_size |-> frame_len(text),
     uncompressed_size |-> plan.uncompressed_size,
     first_line |-> plan.first_line, line_count |-> plan.line_count,
     flags |-> plan.flags,
     compressed_checksum |-> blake3(encode(frame(text))),
     uncompressed_checksum |-> blake3(text)]

chunk_table(entries) ==
    [kind |-> "chunk_table", size |-> Len(entries) * CHUNK_ENTRY_LEN,
     entries |-> entries]

metadata_block(input_hash, original_size, newline_mode, line_count) ==
    [kind |-> "metadata", size |-> metadata_len,
     container_id |-> input_hash, original_checksum |-> input_hash,
     original_size |-> original_size, newline_mode |-> newline_mode,
     line_count |-> line_count]

block_ref(offset, block) ==
    [offset |-> offset, size |-> block.size, checksum |-> blake3(encode(block))]

index_root_block(metadata, chunk_table_offset, entries) ==
    [kind |-> "index_root", size |-> index_root_len,
     container_id |-> metadata.container_id,
     chunk_table |-> block_ref(chunk_table_offset, chunk_table(entries)),
     original_size |-> metadata.original_size,
     original_checksum |-> metadata.original_checksum,
     chunk_count |-> Len(entries), line_count |-> metadata.line_count]

header_block(metadata, metadata_offset, index_root_offset) ==
    [kind |-> "header", size |-> HEADER_LEN,
     metadata_offset |-> metadata_offset, metadata_size |-> metadata.size,
     index_hint_offset |-> index_root_offset,
     container_id |-> metadata.container_id]

\* head_len of src/src/cbor.rs: bytes of the CBOR head of an unsigned integer.
head_len(value) ==
    IF value <= 23 THEN 1
    ELSE IF value <= 255 THEN 2
    ELSE IF value <= 65535 THEN 3
    ELSE IF value < 65536 * 65536 THEN 5
    ELSE 9

footer_payload_len(final_file_size) == footer_fixed_len + head_len(final_file_size)

\* One turn of the loop of fixed_point_footer_payload: the file size that a
\* footer holding the candidate size would give.
next_file_size(footer_payload_offset, candidate) ==
    footer_payload_offset + footer_payload_len(candidate) + FOOTER_TRAILER_LEN

\* fixed_point_footer_payload: the size a footer may state about the file that
\* contains it; the code gives up after eight turns.
fixed_point_file_size(footer_payload_offset) ==
    LET size[turn \in 0..8] ==
            IF turn = 0 THEN 0
            ELSE next_file_size(footer_payload_offset, size[turn - 1])
        settled == {turn \in 0..7 : size[turn + 1] = size[turn]}
    IN  IF settled = {} THEN None ELSE size[Min(settled)]

footer_block(layout, final_file_size, container_checksum) ==
    [kind |-> "footer", size |-> footer_payload_len(final_file_size),
     container_id |-> layout.metadata.container_id,
     index_root |-> block_ref(layout.index_root_offset, layout.root),
     metadata |-> block_ref(layout.metadata_offset, layout.metadata),
     final_file_size |-> final_file_size,
     container_checksum |-> container_checksum]

trailer_block(footer, footer_payload_offset) ==
    [kind |-> "trailer", size |-> FOOTER_TRAILER_LEN,
     footer_payload_offset |-> footer_payload_offset,
     footer_payload_size |-> footer.size,
     footer_payload_checksum |-> blake3(encode(footer))]

-----------------------------------------------------------------------------
(* The layout both writers compute from the chunk table and the metadata.  *)

index_layout(entries, metadata, metadata_offset) ==
    LET chunk_table_offset == metadata_offset + metadata.size
        index_root_offset == chunk_table_offset + chunk_table(entries).size
        root == index_root_block(metadata, chunk_table_offset, entries)
    IN  [metadata |-> metadata, metadata_offset |-> metadata_offset,
         table |-> chunk_table(entries),
         root |-> root, index_root_offset |-> index_root_offset,
         footer_payload_offset |-> index_root_offset + root.size]

layout_header(layout) ==
    header_block(layout.metadata, layout.metadata_offset, layout.index_root_offset)

layout_footer(layout, container_checksum) ==
    footer_block(layout, fixed_point_file_size(layout.footer_payload_offset),
                 container_checksum)

\* The chunk sizes every writer and every reader enforce.
enforce_chunk_sizes(compressed, uncompressed) ==
    /\ compressed <= max_compressed_size
    /\ uncompressed <= max_uncompressed_size

-----------------------------------------------------------------------------
(* The one-shot writer, pack_bytes.                                        *)

chunk_text(input, chunk) ==
    Slice(input, chunk.logical_offset,
          chunk.logical_offset + chunk.uncompressed_size)

\* The chunk table of a plan: frames are laid out one after the other.
plan_entries(input, plan) ==
    LET text(i) == chunk_text(input, plan.chunks[i])
        physical_offset[i \in 1..(Len(plan.chunks) + 1)] ==
            IF i = 1 THEN HEADER_LEN
            ELSE physical_offset[i - 1] + frame_len(text(i - 1))
    IN  [i \in DOMAIN plan.chunks |->
            chunk_entry(plan.chunks[i], physical_offset[i], text(i))]

assemble_container(input, plan, entries) ==
    LET metadata == metadata_block(container_id_from_input(input), Len(input),
                                   plan.newline_mode, plan.line_count)
        metadata_offset ==
            IF entries = <<>> THEN HEADER_LEN
            ELSE Last(entries).physical_offset + Last(entries).compressed_size
        layout == index_layout(entries, metadata, metadata_offset)
        frames == FlattenSeq([i \in DOMAIN entries |->
                                 encode(frame(chunk_text(input, entries[i])))])
        prefix == encode(layout_header(layout)) \o frames \o encode(metadata)
                     \o encode(layout.table) \o encode(layout.root)
        footer == layout_footer(layout, blake3(prefix))
    IN  IF footer.final_file_size = None THEN Rejected
        ELSE [bytes |-> prefix \o encode(footer)
                 \o encode(trailer_block(footer, layout.footer_payload_offset))]

pack_bytes(input) ==
    LET plan == plan_chunks(input)
        entries == plan_entries(input, plan)
    IN  IF plan = Rejected THEN Rejected
        ELSE IF \E i \in DOMAIN entries :
                   \/ entries[i].compressed_size = 0
                   \/ ~enforce_chunk_sizes(entries[i].compressed_size,
                                           entries[i].uncompressed_size)
        THEN Rejected
        ELSE assemble_container(input, plan, entries)
=============================================================================
