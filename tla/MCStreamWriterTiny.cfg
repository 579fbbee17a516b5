\* Chunks of one byte: no chunk can hold a two-byte character or a CRLF.
CONSTANTS
    target_chunk_size = 1
    max_chunk_size = 1
    max_chunk_entries = 4
    HEADER_LEN = 2
    FOOTER_TRAILER_LEN = 2
    CHUNK_ENTRY_LEN = 1
    metadata_len = 1
    index_root_len = 1
    footer_fixed_len = 12
    frame_len <- MCFrameLen
    max_compressed_size = 2
    max_uncompressed_size = 1
    MaxInput = 4
    MaxPush = 2
SPECIFICATION Spec
INVARIANTS
    RoundTrip
PROPERTIES
    ImplementsPack
\* A writer that was rejected, poisoned or finished has nothing left to do.
CHECK_DEADLOCK FALSE
