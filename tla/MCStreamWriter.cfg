\* Chunks of two to three bytes, at most two of them.  The lengths are chosen
\* so that file sizes lie on both sides of 24, where a CBOR head grows.
CONSTANTS
    target_chunk_size = 2
    max_chunk_size = 3
    max_chunk_entries = 2
    HEADER_LEN = 2
    FOOTER_TRAILER_LEN = 2
    CHUNK_ENTRY_LEN = 1
    metadata_len = 1
    index_root_len = 1
    footer_fixed_len = 12
    frame_len <- MCFrameLen
    max_compressed_size = 2
    max_uncompressed_size = 3
    MaxInput = 5
    MaxPush = 3
SPECIFICATION Spec
INVARIANTS
    TypeOK
    RoundTrip
    NoPartialContainer
    ChunkTableValid
    BoundariesValid
PROPERTIES
    FinalIsFinal
    ImplementsPack
\* A writer that was rejected, poisoned or finished has nothing left to do.
CHECK_DEADLOCK FALSE
