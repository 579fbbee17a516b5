# Verification of the QZT container

QZT is a container for UTF-8 text: the text is cut into chunks, each chunk is a
zstd frame, and a chunk table, metadata and a footer make byte ranges and lines
of the text readable without decoding the rest. This directory holds TLA+ models
of the Rust code in `src/src`, runs of the TLC model checker on small instances
of them, and proofs that the TLAPS proof system checks for every instance.
`PROJECT.json` lists components, runs, mutants, theorems, hazards, and for every
definition the source lines it models.

## The system

| Part | Source | Modules | State |
|---|---|---|---|
| chunk planner | `chunker.rs` | `Chunker` | modelled |
| fixed structures, physical ranges | `fixed.rs`, `format.rs`, `primitives.rs` | `PhysicalRanges`, `Container` | partly |
| one-shot writer `pack_bytes` | `writer.rs`, `codec.rs`, `limits.rs` | `Container` | partly |
| streaming writer `QztFileWriter` | `writer.rs` | `StreamWriter`, `PackSpec`, `StreamWriterRefinement` | modelled |
| reader: open, export, range, line, verify | `skeleton.rs`, `reader.rs`, `chunk_table.rs` | `ContainerReader` | partly |
| atomic file output of the commands | `main.rs`, `cli_output_security.rs` | `AtomicOutput`, `OutputLinks` | partly |
| dense line index | `dense_line_index.rs` | | planned |
| document index | `writer.rs`, `reader.rs`, `schema.rs` | | planned |
| deterministic CBOR | `cbor.rs`, `schema.rs` | (lengths of heads in `Container`) | planned |
| positioned reads | `io.rs`, `reader.rs` | | planned |
| decode cache, search, posting lists | `reader.rs`, `search.rs` | | planned |
| QZI sidecar, corpus search, context | `sidecar.rs`, `corpus.rs`, `context_cli.rs` | | planned |
| other commands, errors, benchmarks | `main.rs`, `cli_json.rs`, `cli_attest.rs`, `error.rs`, `lib.rs`, `benchmark.rs` | | not modelled: printing, parsing of arguments, measuring |

The planner decides where chunks end. Both writers use its helpers: `pack_bytes`
plans the whole text at once, `QztFileWriter` sees the text in pieces and must
come to the same chunks with at most one chunk and one byte in memory. Both lay
out header, frames, metadata, chunk table, index root, footer and trailer. The
reader checks that structure before it hands out any text. The commands run a
writer on a temporary file which then replaces the output.

## Modules

**`Chunker`** is `chunker.rs` as operators. A byte is one of `x`, `LF`, `CR`,
`LEAD` and `CONT`, the last two being the halves of a two-byte character, so
texts may be invalid UTF-8. Offsets are 0-based as in the code. A `Result::Err`
or an `Option::None` is `Rejected` or `None`.

**`PhysicalRanges`** is `validate_physical_ranges` with its sort and its
comparison of neighbours, beside the definition it stands for, that no two
ranges overlap. `MCPhysicalRanges` collects ranges in any order.

**`Container`** is the file format and `pack_bytes`. A file is a sequence of
cells `<<block, i>>`, byte `i` of the encoding of `block`, which allows files
with blocks in part or overwritten by others; decoding succeeds on a complete
encoding only. `blake3` is taken as injective. The lengths of blocks are
constants, except those that the algorithms depend on: the frame of a chunk
(`frame_len`), the chunk table, and the footer, whose length depends on the file
size it states (`fixed_point_file_size`, with the CBOR head lengths of the code).
Metadata and index root are taken to fit the reader's block limit.

**`ContainerReader`** is the reader as operators on the cells of a file: the
checks of `open_skeleton_details` in their order, `validate_chunk_table_block`,
`decode_entry`, `export_all`, `read_range`, `read_line` with the binary searches
of the code, `verify_normal` and `verify_deep`. Files have no dictionary, dense
line or document block.

**`StreamWriter`** is `QztFileWriter` as a state machine. Its variables are the
fields of the struct, the call in progress (`pc`, `remaining`), the reason of the
last error, and the sink. A step is one access of the sink with what the code
computes around it: `New`, `PushStep` (one turn of push's loop), `FinishChunk`,
`FinishIndexes`, `FinishHeader`, `FinishFooter`. Each may fail after any part of
its bytes was written. The sink may be one that shows reads only what was
flushed (and may flush by itself), or one that appends whatever the position is. As every step leaves the
sink's bytes in the state, the death of the process needs no action of its own:
what holds of `content` in every state holds of what a killed process leaves. A
loss of power, which may reorder writes, is outside it: `finish` promises no
durability.

**`PackSpec`** says what a writer promises: the file is that of `pack_bytes`, or
the caller is told; a text is refused only if `pack_bytes` refuses it.
**`StreamWriterRefinement`** gives the mapping from `StreamWriter`.

**`AtomicOutput`** is `write_atomically` with the collision check, the creation
of the temporary file, its permissions, the writing, the syncs, the rename and
the cleanup, by several processes in one directory. Every system call may fail,
a rename also after it took effect. Processes may be killed and their process id
used again, and the machine may crash: then unsynced data may be torn and the
directory is one of those since the last directory sync (`recoverable`). Mode
and ACL of a file are one value, which nobody but the commands changes.

**`OutputLinks`** adds another program to `AtomicOutput`, which at any moment may
put a symlink or a hard link to the input in the place of the output. It records
which commands were past their last check at that moment (`late`).

## Runs

| Run | Instance | States | Shows |
|---|---|---|---|
| `stream_writer` | target 2, maximum 3, two chunks, texts of up to 5 bytes in pushes of up to 3 | 226,189 | see below |
| `stream_writer_tiny` | target and maximum 1, four chunks, 4 bytes, pushes of 2 | 42,451 | refusals where nothing of two bytes fits |
| `stream_writer_live` | target and maximum 2, 3 bytes | 11,027 | `CallsReturn` |
| `physical_ranges` | up to 3 ranges, offsets to 5, sizes to 2, files to 7 | 49,400 | the sorted test is exact |
| `atomic_output` | two processes, two names, one kill or crash | 620,396 | see below |
| `output_links` | two processes, one name, one link, one kill or crash | 1,612,480 | `LinkedOutputKept` |
| `atomic_output_live` | one process id, two kills or crashes | 12,956 | `CommandsEnd` |

`stream_writer` checks that a finished file opens, verifies deeply, and gives
back the text, every range and every line (`RoundTrip`); that a file which opens
is complete, in every state and so after every kill (`NoPartialContainer`);
that the chunk table is valid all along (`ChunkTableValid`); that boundaries
split nothing (`BoundariesValid`); that an error or success is final
(`FinalIsFinal`); and that the writer implements `PackSpec`. The bounds are the
smallest with all cases: text over one chunk and the lookahead byte, a chunk that
ends in its target, between target and maximum, and without a line end; a CRLF
or character across the target, across the maximum and across two pushes; a
chunk table that is full; and files on both sides of 24 bytes, where the CBOR
head of the file size grows and the footer's fixed point takes another turn.

`atomic_output` checks that the output is never partial, that a reported success
survives a crash, that the input is never touched and an output that is a hard
link to it stays one, that the report tells whether the output was replaced,
that leftovers are reported, and that a private output stays private, its
temporary file included. Two processes, two temporary names and one death give
every race of a check with the other's rename. The six inodes are enough that a
command which has yet to create its file finds one.

`output_links` shows what the check before the rename is for: a link in the place
of the output, there from the start or put there while a command writes, is never
replaced by a command that has that check before it. The check and the rename are
two system calls; a link that comes between them is replaced, and the property
says so. One link and one temporary name per process are enough for a link at
every step of either command, and seven inodes leave one free in every state.

Every property has a mutant, a plausible mistake in the code that makes TLC find
a violation.

### Fairness

`StreamWriter!FairSpec` assumes that a call under way takes its next step: the
calling thread runs and system calls return. Steps that fail in the environment
are not part of the fairness condition, so calls return without their help.
`AtomicOutput!FairSpec` assumes the same of each process. A killed process is not
running, and kills are bounded by `MaxDeaths`.

## Proofs

`tlapm` checks these for every value of the constants that the named
assumptions admit: chunk sizes as `ChunkerOptions::validate` and
`validate_writer_options` require them, positive block lengths, and frames with
a length.

* `PhysicalRangesProofs`: in a sorted sequence without overlapping neighbours no
  two ranges overlap (`NeighboursSuffice`), so the sorted test is sound
  (`SortedTestIsSound`). A range ends before its neighbour starts, which rests
  on the size in the sort key where ranges are empty, and offsets rise.
* `ChunkerProofs`: what `choose_split` returns lies in its window and splits
  nothing (`ChooseSplitValid`).
* `ContainerReaderProofs`: a table whose entries follow one another without gaps
  (`contiguous`) passes `validate_chunk_table_block`, whose running sums are
  replaced by comparisons of neighbours; appending keeps a table contiguous; the
  footer's size settles within eight turns, on a true size
  (`FooterSizeSettles`).
* `StreamWriterProofs`: type correctness (`TypeCorrect`), `ChunkTableAlwaysValid`,
  `BoundariesAlwaysValid` and `FinalIsFinalHolds`. The inductive invariant
  `WriterInv` adds to `TypeOK` that the table is contiguous and ends where the
  counters are; without the latter a new entry need not continue the table.
  `TextInv` adds that the pushed text is the text in chunks, then `pending`, then
  what the push has not taken, and that while more can be pushed text follows
  each boundary, since text pushed later could otherwise turn a boundary at the
  end of the text into a split CRLF. That is why push keeps a byte back.

Induction over the data is done with the least element of a set of naturals.
Model-checked only: `RoundTrip`, `NoPartialContainer` and the refinement, which
rest on recursive definitions over texts; `AtomicOutput`; liveness, which is out
of the prover's reach.

## Plan

1. Positioned reader over a file that changes after it was opened, and the
   positioned read on a shared cursor (`io.rs`).
2. Decode cache, candidate verification and its budgets, posting lists and their
   intersection, the index build over chunk boundaries (`search.rs`), with an
   abstract search that names all hits as the specification.
3. Sidecar: build, opening against a container that was replaced, search.
4. Document index: build, the one-pass hasher against a reference definition,
   deep verification. Dense line index: coding and decoding.
5. CBOR: the measured size against the parser's limits.
6. Proofs: the inductive invariant of `AtomicOutput` for `OutputComplete`,
   `InputUntouched` and `ReportIsTruthful`; decode cache budgets; the parts of
   the refinement that need no recursion over texts.

## Not modelled

The Windows and macOS variants of replacing a file and of copying its security
descriptor; numeric overflow of 64-bit offsets, which the code checks at every
addition and no file reaches; the contents of zstd frames; magic numbers,
versions and the field-by-field decoding of CBOR blocks; dictionaries, which the
writers never emit.
