---------------------------- MODULE StreamWriter ----------------------------
(***************************************************************************)
(* The streaming writer QztFileWriter of src/src/writer.rs over a sink     *)
(* that can be read, written and positioned.                               *)
(*                                                                         *)
(* push and finish run step by step, as the code touches the sink: one     *)
(* step per chunk of push, one per chunk, for the index blocks, for the    *)
(* header and for the footer of finish.  Every step may fail in the        *)
(* environment (an I/O error after any part of a write, or a failed        *)
(* allocation) and every one may be the last before the process ends, so   *)
(* that the sink's content in every state is what a killed process leaves. *)
(***************************************************************************)
EXTENDS ContainerReader

CONSTANTS
    MaxInput,     \* bound: bytes pushed in a behaviour
    MaxPush       \* bound: bytes of one push

ASSUME InputBounds == MaxInput \in Nat /\ MaxPush \in Nat

VARIABLES
    \* the fields of QztFileWriter
    pending,            \* bytes not yet in a chunk
    entries,            \* chunk table so far
    hashed,             \* what input_hasher has consumed: all bytes pushed
    physical_offset, logical_offset, line_starts_seen,
    lf_count, crlf_count, previous_byte,
    finished, poisoned,
    \* the call in progress
    pc,                 \* where the call is; "idle" between calls
    remaining,          \* push: bytes not yet moved to pending
    error,              \* why the writer is poisoned or was not made
    \* the sink
    content,            \* its bytes
    visible,            \* the bytes its Read implementation returns
    cursor,             \* its position
    mode                \* "plain", "buffered" (reads see flushed bytes only)
                        \* or "append" (every write goes to the end)

counters == <<physical_offset, logical_offset, line_starts_seen,
              lf_count, crlf_count, previous_byte>>

sink == <<content, visible, cursor, mode>>

vars == <<pending, entries, hashed, counters, finished, poisoned,
          pc, remaining, error, sink>>

-----------------------------------------------------------------------------
(* The sink.                                                               *)

foreign == [kind |-> "foreign", size |-> 1]

\* A file system pads a write past the end.
padding == [kind |-> "padding", size |-> 1]

Overwrite(bytes, at, cells) ==
    [i \in 1..Max({Len(bytes), at + Len(cells)}) |->
        IF i > at /\ i <= at + Len(cells) THEN cells[i - at]
        ELSE IF i <= Len(bytes) THEN bytes[i]
        ELSE <<padding, 1>>]

\* What a seek to an offset followed by write_all(cells) makes of the sink.
SinkWrite(at, cells) ==
    LET from == IF mode = "append" THEN Len(content) ELSE at
    IN  /\ content' = Overwrite(content, from, cells)
        /\ cursor' = from + Len(cells)
        /\ UNCHANGED mode

\* Unflushed bytes of a buffered sink need not be readable yet.
NotFlushed ==
    visible' \in IF mode = "buffered" THEN {visible, content'} ELSE {content'}

\* A seek, write_all or flush that reports an error: any part, even all, of
\* the bytes may be in the sink.
SinkWriteFails(at, cells) ==
    /\ \E written \in 0..Len(cells) :
          SinkWrite(at, SubSeq(cells, 1, written))
    /\ NotFlushed

\* Mutant of Flushed: the hash is taken of what happens to be readable.
Unflushed(written, readable) == readable

\* flush makes every written byte readable.
Flushed(written, readable) == written

-----------------------------------------------------------------------------
(* Errors.                                                                 *)

\* Mutant of usable: an error does not poison the writer.
not_finished == ~finished

usable == ~finished /\ ~poisoned

\* The call returns an error and the writer accepts no further call.
Poison(why) ==
    /\ poisoned' = TRUE
    /\ error' = why
    /\ pc' = "idle"
    /\ remaining' = <<>>
    /\ UNCHANGED finished

-----------------------------------------------------------------------------
(* QztFileWriter::new.                                                     *)

Init ==
    /\ pending = <<>> /\ entries = <<>> /\ hashed = <<>>
    /\ physical_offset = HEADER_LEN
    /\ logical_offset = 0 /\ line_starts_seen = 0
    /\ lf_count = 0 /\ crlf_count = 0 /\ previous_byte = "none"
    /\ finished = FALSE /\ poisoned = FALSE
    /\ pc = "new" /\ remaining = <<>> /\ error = "none"
    /\ mode \in {"plain", "buffered", "append"}
    /\ content \in {<<>>, encode(foreign)}
    /\ visible = content
    /\ cursor \in 0..Len(content)

\* An empty sink gets the placeholder of the header.
New ==
    /\ pc = "new"
    /\ content = <<>>
    /\ SinkWrite(0, encode(header_placeholder)) /\ NotFlushed
    /\ pc' = "idle"
    /\ UNCHANGED <<pending, entries, hashed, counters, finished, poisoned,
                   remaining, error>>

\* Bytes in the sink, wherever it is positioned: NonEmptyWriterSink, with the
\* position put back.
NewNonEmpty ==
    /\ pc = "new"
    /\ content # <<>>
    /\ pc' = "rejected" /\ error' = "nonempty"
    /\ UNCHANGED <<pending, entries, hashed, counters, finished, poisoned,
                   remaining, sink>>

\* A failed seek leaves the position unspecified, a failed write part of the
\* placeholder.
NewFails ==
    /\ pc = "new"
    /\ \/ content = <<>> /\ SinkWriteFails(0, encode(header_placeholder))
       \/ cursor' \in 0..Len(content) /\ UNCHANGED <<content, visible, mode>>
    /\ pc' = "rejected" /\ error' = "environment"
    /\ UNCHANGED <<pending, entries, hashed, counters, finished, poisoned,
                   remaining>>

-----------------------------------------------------------------------------
(* Emitting a chunk.                                                       *)

choose_stream_chunk_end(bytes) ==
    IF Len(bytes) <= max_chunk_size THEN None
    ELSE choose_split(bytes, 0, target_chunk_size, max_chunk_size)

\* Mutant of choose_known_chunk_end: the last chunk is filled to the maximum.
choose_largest_chunk_end(bytes) ==
    IF Len(bytes) <= max_chunk_size THEN Len(bytes)
    ELSE choose_split(bytes, 0, target_chunk_size, max_chunk_size)

choose_known_chunk_end(bytes) ==
    IF Len(bytes) <= target_chunk_size THEN Len(bytes)
    ELSE choose_split(bytes, 0, target_chunk_size,
                      Min({max_chunk_size, Len(bytes)}))

\* The checks of emit_chunk before it writes.
emit_refused(text) ==
    \/ Len(entries) + 1 > max_chunk_entries
    \/ ~from_utf8(text)
    \/ frame_len(text) = 0
    \/ ~enforce_chunk_sizes(frame_len(text), Len(text))

\* Mutant of starts_with_continuation: every chunk but the first does.
starts_after_first_chunk == logical_offset > 0

\* Does the next chunk start inside a line?
starts_with_continuation == logical_offset > 0 /\ previous_byte # "LF"

new_entry(text) ==
    chunk_entry([chunk_id |-> Len(entries),
                 logical_offset |-> logical_offset,
                 uncompressed_size |-> Len(text),
                 first_line |-> line_starts_seen,
                 line_count |->
                     Cardinality(local_line_starts(text, starts_with_continuation)),
                 flags |-> starts_with_continuation],
                physical_offset, text)

\* emit_chunk and the drain of emit_pending_chunk: cut text off buffer.
EmitChunk(buffer, text, rest) ==
    /\ SinkWrite(physical_offset, encode(frame(text))) /\ NotFlushed
    /\ lf_count' = lf_count + newlines(previous_byte, text, TRUE)
    /\ crlf_count' = crlf_count + newlines(previous_byte, text, FALSE)
    /\ previous_byte' = Last(text)
    /\ line_starts_seen' = line_starts_seen + new_entry(text).line_count
    /\ logical_offset' = logical_offset + Len(text)
    /\ physical_offset' = physical_offset + frame_len(text)
    /\ entries' = Append(entries, new_entry(text))
    /\ pending' = Slice(buffer, Len(text), Len(buffer))
    /\ remaining' = rest
    /\ UNCHANGED <<hashed, finished, poisoned, pc, error>>

\* Choose an end in buffer and emit the chunk, or return the error.
EmitPendingChunk(buffer, end, rest) ==
    LET text == Slice(buffer, 0, end)
        refused == end = None \/ emit_refused(text)
    IN  \/ /\ ~refused
           /\ EmitChunk(buffer, text, rest)
        \/ /\ refused
           /\ Poison("refused")
           /\ pending' = buffer
           /\ UNCHANGED <<entries, hashed, counters, sink>>
        \/ /\ ~refused
           /\ SinkWriteFails(physical_offset, encode(frame(text)))
           /\ Poison("environment")
           /\ pending' = buffer
           /\ UNCHANGED <<entries, hashed, counters>>

-----------------------------------------------------------------------------
(* QztFileWriter::push.                                                    *)

\* A push on a finished or poisoned writer returns WriterAlreadyFinished and
\* changes nothing.
Push(bytes) ==
    /\ pc = "idle"
    /\ usable
    /\ Len(hashed) + Len(bytes) <= MaxInput
    /\ hashed' = hashed \o bytes
    /\ remaining' = bytes
    /\ pc' = "push"
    /\ UNCHANGED <<pending, entries, counters, finished, poisoned, error, sink>>

\* Mutants of take: no room beyond a full chunk, and room for two bytes more.
take_to_full == Min({Len(remaining), max_chunk_size - Len(pending)})
take_too_many == Min({Len(remaining), max_chunk_size + 2 - Len(pending)})

\* Bytes one turn of the loop moves: never more than one past a full chunk.
take == Min({Len(remaining), max_chunk_size + 1 - Len(pending)})

\* One turn of the loop.
PushStep ==
    LET buffer == pending \o SubSeq(remaining, 1, take)
        rest == SubSeq(remaining, take + 1, Len(remaining))
    IN  /\ pc = "push"
        /\ remaining # <<>>
        /\ \/ /\ Len(buffer) <= max_chunk_size
              /\ pending' = buffer
              /\ remaining' = rest
              /\ UNCHANGED <<entries, hashed, counters, finished, poisoned,
                             pc, error, sink>>
           \/ /\ Len(buffer) > max_chunk_size
              /\ EmitPendingChunk(buffer, choose_stream_chunk_end(buffer), rest)
           \/ /\ Poison("environment")     \* try_reserve failed
              /\ UNCHANGED <<pending, entries, hashed, counters, sink>>

PushReturn ==
    /\ pc = "push"
    /\ remaining = <<>>
    /\ pc' = "idle"
    /\ UNCHANGED <<pending, entries, hashed, counters, finished, poisoned,
                   remaining, error, sink>>

-----------------------------------------------------------------------------
(* QztFileWriter::finish.                                                  *)

Finish ==
    /\ pc = "idle"
    /\ usable
    /\ pc' = "finish"
    /\ UNCHANGED <<pending, entries, hashed, counters, finished, poisoned,
                   remaining, error, sink>>

FinishChunk ==
    /\ pc = "finish"
    /\ pending # <<>>
    /\ EmitPendingChunk(pending, choose_known_chunk_end(pending), <<>>)

metadata_now ==
    metadata_block(container_id_from_input(hashed), logical_offset,
                   from_counts(lf_count, crlf_count), line_starts_seen)

layout_now == index_layout(entries, metadata_now, physical_offset)

\* The metadata, the chunk table and the index root, in that order.
FinishIndexes ==
    LET cells == encode(metadata_now) \o encode(layout_now.table)
                    \o encode(layout_now.root)
    IN  /\ pc = "finish"
        /\ pending = <<>>
        /\ \/ /\ SinkWrite(physical_offset, cells) /\ NotFlushed
              /\ pc' = "header"
              /\ UNCHANGED <<finished, poisoned, remaining, error>>
           \/ /\ SinkWriteFails(physical_offset, cells)
              /\ Poison("environment")
        /\ UNCHANGED <<pending, entries, hashed, counters>>

\* The header goes over its placeholder.  A sink that appends is found out by
\* its position.
FinishHeader ==
    LET cells == encode(layout_header(layout_now))
    IN  /\ pc = "header"
        /\ \/ /\ SinkWrite(0, cells) /\ NotFlushed
              /\ IF cursor' = HEADER_LEN
                 THEN /\ pc' = "footer"
                      /\ UNCHANGED <<finished, poisoned, remaining, error>>
                 ELSE Poison("sink")
           \/ /\ SinkWriteFails(0, cells)
              /\ Poison("environment")
        /\ UNCHANGED <<pending, entries, hashed, counters>>

\* Flush, hash the bytes read back, write the footer and the trailer, flush
\* and compare the length of the file with the one the footer states.
FinishFooter ==
    /\ pc = "footer"
    /\ \E at \in {layout_now.footer_payload_offset} :
       \E readable \in {Flushed(content, visible)} :
          IF Len(readable) < at
          THEN Poison("sink") /\ UNCHANGED sink
          ELSE \E footer \in {layout_footer(layout_now,
                                            blake3(Slice(readable, 0, at)))} :
               \E cells \in {encode(footer) \o encode(trailer_block(footer, at))} :
                  IF footer.final_file_size = None
                  THEN Poison("refused") /\ UNCHANGED sink
                  ELSE \/ /\ SinkWrite(at, cells)
                          /\ visible' = Flushed(content', visible)
                          /\ IF Len(content') = footer.final_file_size
                             THEN /\ finished' = TRUE /\ pc' = "idle"
                                  /\ UNCHANGED <<poisoned, remaining, error>>
                             ELSE Poison("sink")
                       \/ /\ SinkWriteFails(at, cells)
                          /\ Poison("environment")
    /\ UNCHANGED <<pending, entries, hashed, counters>>

-----------------------------------------------------------------------------

Working == PushStep \/ PushReturn \/ FinishChunk \/ FinishIndexes
              \/ FinishHeader \/ FinishFooter

Next ==
    \/ New \/ NewNonEmpty \/ NewFails
    \/ \E bytes \in BoundedSeq(Byte, MaxPush) : Push(bytes)
    \/ Finish
    \/ Working

Spec == Init /\ [][Next]_vars

\* A call that is under way runs on: the thread that made it executes it and
\* every system call returns.  Errors of the environment are never relied on
\* to end a call.
Progress == Working /\ error' # "environment"

FairSpec == Spec /\ WF_vars(Progress)

-----------------------------------------------------------------------------
(* Properties.                                                             *)

\* Every field keeps the type of its Rust declaration, pending never holds a
\* full chunk and more between two turns of push's loop, and the control state
\* is one of those of the calls.
TypeOK ==
    /\ pending \in Text /\ remaining \in Text /\ hashed \in Text
    /\ Len(pending) <= max_chunk_size + 1
    /\ usable => Len(pending) <= max_chunk_size
    /\ physical_offset \in Nat /\ logical_offset \in Nat
    /\ line_starts_seen \in Nat /\ lf_count \in Nat /\ crlf_count \in Nat
    /\ previous_byte \in Byte \cup {"none"}
    /\ finished \in BOOLEAN /\ poisoned \in BOOLEAN
    /\ pc \in {"new", "idle", "push", "finish", "header", "footer", "rejected"}
    /\ error \in {"none", "nonempty", "refused", "sink", "environment"}
    /\ cursor \in 0..Len(content)
    /\ mode \in {"plain", "buffered", "append"}

packed == pack_bytes(hashed)

details == open_skeleton_details(content)

\* finish() that returned Ok left a file that the reader opens, that passes
\* deep verification, and from which the whole input, every byte range of it
\* and every line of it can be read back.
RoundTrip ==
    finished =>
        /\ details # Rejected
        /\ verify_deep(content, details)
        /\ export_all(content, details) = [text |-> hashed]
        /\ \A from \in 0..Len(hashed) : \A to \in from..Len(hashed) :
              read_range(content, details, from, to - from)
                  = [text |-> Slice(hashed, from, to)]
        /\ \A start \in line_starts(hashed) :
              read_line(content, details, lower_bound(line_starts(hashed), start))
                  = [text |-> Slice(hashed, start,
                        Min({s \in line_starts(hashed) \cup {Len(hashed)} :
                                 s > start}))]

\* Whatever a killed process or a failed call leaves in the sink, a reader that opens
\* it finds the complete container of everything that was pushed: there is no
\* moment at which a partial file, or one missing the last pushes, opens.
NoPartialContainer ==
    details # Rejected => packed # Rejected /\ content = packed.bytes

\* The chunk table that emit_chunk builds entry by entry is one that the
\* reader's validate_chunk_table_block accepts for the text emitted so far.
ChunkTableValid ==
    validate_chunk_table_block(entries, Len(entries), logical_offset,
                               line_starts_seen)

\* No chunk boundary falls inside a character or a CRLF pair, however the text
\* was cut into pushes.
BoundariesValid ==
    \A i \in DOMAIN entries :
        /\ ~splits_crlf(hashed, logical_end(entries[i]))
        /\ ~splits_character(hashed, logical_end(entries[i]))

\* Once push or finish failed, or finish succeeded, no call writes to the sink
\* or changes the writer.
FinalIsFinal == [][finished \/ poisoned => UNCHANGED vars]_vars

\* Every push and every finish returns.
CallsReturn == [](pc \notin {"new", "rejected"} => <>(pc = "idle"))
=============================================================================
