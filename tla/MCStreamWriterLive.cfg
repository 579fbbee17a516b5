\* Few bytes, for liveness.
CONSTANTS
    target_chunk_size = 2
    max_chunk_size = 2
    max_chunk_entries = 2
    HEADER_LEN = 1
    FOOTER_TRAILER_LEN = 1
    CHUNK_ENTRY_LEN = 1
    metadata_len = 1
    index_root_len = 1
    footer_fixed_len = 1
    frame_len <- MCFrameLen
    max_compressed_size = 2
    max_uncompressed_size = 2
    MaxInput = 3
    MaxPush = 3
SPECIFICATION FairSpec
PROPERTIES
    CallsReturn
\* A writer that was rejected, poisoned or finished has nothing left to do.
CHECK_DEADLOCK FALSE
