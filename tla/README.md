# A verification model of tiders-core's ingestion path

tiders-core streams blockchain data from a provider (HyperSync, SQD, an RPC
node), filters it locally, and hands Arrow tables to Rust or Python callers,
with decoders and casts to be applied to them. This directory holds TLA+
modules for the part of it that decides *which* data a caller gets and *when*,
and for what the decoders and casts make of it; TLC configurations that check
them on small instances; and TLAPS proofs.

## 1. The system

| Component | Source | State | Operations | Talks to |
|---|---|---|---|---|
| HyperSync provider, streaming | `ingest/src/provider/hypersync.rs` 112-281 | the query's `from_block` / `to_block`, the last height seen, a channel of one item | `start_stream`, the spawned task, `chain_head_stream` | the client's prefetching stream, the server, the consumer through `mpsc::channel(1)` |
| HyperSync provider, translation | same, 18-110 and 283-739 | none | `query_to_hypersync`, `map_response` | EVM query, schema |
| SQD and RPC providers | `provider/sqd.rs`, `provider/rpc.rs` | none of their own | translate query and configuration; the stream is a client library's | the library |
| Query translation | `provider/common.rs` | none | `evm_query_to_generic`, `svm_query_to_generic` | query engine |
| Stream post-processing | `ingest/src/lib.rs`, `rayon_async.rs` | the chunk on the pool | `start_stream`'s `then`, `extract_last_block`, `make_req_fields` | provider, rayon pool, query engine |
| Query engine | `query/src/lib.rs` | none between calls; one mask per selection within one | `run_query`, `run_table_selection`, filters, joins, `select_fields` | rayon pool |
| Python stream object | `python/src/ingest.rs` | `inner`, `last_block` | `next`, `close`, getters | post-processed stream, pyo3's borrow check |
| EVM decoder | `evm-decode/src/{lib,arrow_convert}.rs` | none | `decode_events`, `decode_call_inputs`, `decode_call_outputs`, the announced schemas | alloy's ABI decoder, Cast's flattening |
| SVM decoder | `svm-decode/src/{lib,deserialize,arrow_converter}.rs` | none | `decode_instructions_batch`, `decode_logs_batch`, the announced schema | a recursive Borsh reader of its own |
| Cast | `cast/src/lib.rs` | none | casts by name and by type, hex, base58 and u256 conversions, flattening, each with a schema function beside it | arrow's kernels |
| Schemas | `evm-schema`, `svm-schema` | none | schemas, builders | |
| Python package | `python/` | none | dataclasses, re-exports | |

What is hard about it, and the properties that say it is right:

* **The hand-over from bulk streaming to head polling.** `from_block` is moved
  before the send in one phase and after it in the other, `to_block` is inclusive
  in the code, exclusive for the server and in the documentation, and the end is
  tested by equality. *Contiguous, NeverBack, Complete, ToBlockExclusive,
  StreamEnds, KeepsUp.*
* **Reorganisations.** The only protection is an offset of 200 blocks below a
  height that is stale by the time the server answers. *ReorgSafe.*
* **Dropping and cancelling.** The consumer may drop the stream in any state of
  the task; a Python caller may cancel a pending `next()`. *DropNoticed,
  NoSilentLoss, ExactResume, NextReturns.*
* **Errors.** An error from the provider ends the stream, one from the local
  query does not. *ImplementsProviderStream, NoSilentLoss.*
* **Who filters what.** A query is split between the server (filters, one join
  mode for all requests, requested columns) and the local query.
  *PushdownComplete, PushdownSound, FailsOnlyByDeployment, FailsOnlyByD3,
  LastBlockIsHighest, ColumnsServed.*
* **Nulls.** Arrow's `and` / `or` are null-propagating, and join keys compare
  nulls as equal; the null buffer of a sliced array starts at an offset.
  *Sound, CompleteButNulls, ValuesFlattened, NullsOnlyWhereCastFails.*
* **Rows that do not decode.** Offsets, validity and inner values of nested
  columns are built apart from each other, for rows of which some are missing;
  one flag decides over several kinds of failure. *RowsFaithful and
  FailsByRowOrShape of either decoder.*
* **Widths.** 256-bit words in signed decimals, 128-bit ones in 16 or 32 bytes,
  hex with and without a prefix. *ValuesPreserved, EvmRowsFaithful.*
* **Schemas beside data.** Schemas are announced by one function and produced
  by another. *SchemasAgree, FlattenedSchema, and SchemaPredicted of either decoder.*

`PROJECT.json` lists these and the smaller ones under `hazards`, at their lines.

## 2. Modules

```
ProviderStream  <--implements--  HypersyncStream  <-- MCHypersyncStream
      ^                                           <-- HypersyncStreamProofs
      | used by
ResponseStream  <-- MCResponseStream
                <-- ResponseStreamProofs

QueryEngine  <-- MCQueryEngine
      ^      <-- QueryEngineProofs
      | used by     ^ used by
StreamQuery  <-- StreamQueryProofs
             <--  EvmQuery  <-- MCEvmQuery
                            <-- EvmQueryProofs
             <--  SvmQuery  <-- MCSvmQuery
                            <-- SvmQueryProofs

Arrow  <--  Columns  <--------------  Cast  <-- CastProofs
       <--  NestedArrow  <-- Flatten
            Cast, Flatten     <--  CastFlatten  <-- MCCast
            Columns, Flatten  <--  EvmDecode, EvmJobs          <-- MCDecode
                      Borsh   <--  SvmDecode, SvmJobs          <-- MCDecode

NaturalProofs  <-- ResponseStreamProofs, SvmQueryProofs, CastProofs
```

**HypersyncStream.** One action per stretch of code between two awaits.
`StartFail`, `GetChainId`, `GetHeight` and `StreamArrow` are `start_stream` up
to the spawn; `RecvOk`, `RecvErr`, `RecvEnd`, `SendBulk` and `SendErr` the
spawned task; the `Head*` actions `chain_head_stream`. `pc` names the await the
task is at, `fromBlock` and `reqTo` are the two fields of `evm_query` that
change, `pending` is the item a `tx.send(..).await` holds. The chain (`Grow`,
`Reorg`), the server (`NextBlocks`: any non-empty prefix of what it has, or
nothing) and the client's prefetcher (`ClientFetch`, `ClientFail`,
`ClientClose`) are external and as free as the code allows them to be: the
client's stream may end before the end of its request, which the head loop then
takes up and `stop_on_head` takes for completion. A chunk is the range of
blocks it covers plus the fork each block was read from, which is all the
properties can tell apart.

**ProviderStream.** What a provider promises: the requested blocks in order
and once each, cut anywhere, then an end; or an error and then an end.
HypersyncStream implements it through `position <- Position` (the first block
the consumer has not received) and `status <- abstractStatus`.

**ResponseStream.** The caller's side, on top of ProviderStream. `work` is what
the `then` adapter holds between two polls, which is why a cancelled `next()`
loses nothing; `RayonDone` is the pool's task, which finishes whether or not
anyone awaits it. A panic on the pool aborts the process (no panic handler is
installed) and is not modelled. The local query is abstracted to the set `Kept`
of blocks of which it keeps rows.

**QueryEngine.** `run_query` on every chunk and query of two given sets.
Selections run in any order (`RunSelection`), the first error is the result
(`SelectionError`), otherwise the masks are or-ed and the rows filtered
(`Combine`). Masks are three-valued, as arrow's are.

**StreamQuery.** What `start_stream` does with any query: `make_req_fields`,
`LocalQuery` (`extract_last_block` and the start of `run_query`), and
QueryEngine's steps. EvmQuery and SvmQuery extend it with the way to a provider
and back.

**EvmQuery.** `Validate` (validation, generic query, requested columns), then
one of `query_to_hypersync` / `RequestFails`, `evm_query_to_sqd` and `map_query`
according to `provider`, `Respond` (the server, and `map_response` for
HyperSync, with the columns it leaves null: those not sent and, always,
`trace_address`) or `ColumnMistyped` (a column of HyperSync's that has another type
than the schema). The three `evm_*_selection_to_generic` keep the join columns of the
source. One filter stands for all that are treated alike; `author`, `address`
and `reward_type` of a trace, which providers treat differently, `status`,
which must be single, and `contract_deployment_address`, whose column has
another name, are kept.

**SvmQuery.** `StartStream` (generic query and requested columns), `NotSupported`
(HyperSync and RPC), `svm_query_to_sqd` / `RequestFails`, `Respond`. The six
kinds of request keep their filters and joins; `SentWidth` and `SqdPrefixes` are
the cutting of discriminators, `SqdColumns` the translation of the requested
columns.

**Arrow** and **NestedArrow** (external). An array is its type, length, values or
children, list ranges, and a null buffer *with its offset*. `Cell` reads a row of an
array without children. What looks below an array (`Row`, `Take`, `Slice`) is a
recursive definition and has a module of its own, out of the way of the proofs.
`TryNew` is `RecordBatch::try_new`: it compares types and lengths and refuses a null in
a field that is not nullable.

**Flatten** and **Columns.** The functions of `cast/src/lib.rs` on a column and on
a schema. A byte has `Base` values, a 256-bit integer `Word` bytes, a 128-bit one
`Half`; hex text is its digits, base58 text what it encodes. `Fail` marks a value
a call cannot convert. `CanCast` and `ArrowCast` are arrow's casts: numbers and text
into each other, text and bytes into each other. A decimal's room is that of its
integer (its digits are not counted), and a float is a number rounded to a multiple
of four.

**Cast** and **CastFlatten.** A caller takes a batch through a series of calls. A
decoding call is made on text that is in an encoding it is for, and a cast to a number
on numbers or the text of one (`Asked`), as the Python API's users must see to it: hex
that happens to have decimal digits only, arrow would read as decimal. `meant` is what
the columns stand for: the first batch, or the float where the caller went by one. A
call ends `ok`, in an `error`, or in `try_new`, by a schema that does not fit
(`mismatch`) or by `nulls` in a field that has none. Cast's calls work column by column; CastFlatten adds
`flatten_record_batch` to them, and its `CallSpec` is what the runs check.

**EvmDecode.** `decode_events` and `decode_call_impl` on batches whose blobs are
what alloy decodes them to, or `Bad`; alloy keeps the whole word of an integer, so a
value may be wider than its type. Types, values, the sequence in which
failures are noticed, filter, hstack and flattening follow the source.

**Borsh** and **SvmDecode.** `deserialize_value` on bytes, and beside it the
grammar (`Encoded`) that says which values a byte string stands for, without
reading from left to right. SvmDecode is the rest of the crate: conversion to
Arrow, discriminators, accounts from their columns and from the list column, whose
type is compared as a whole.

**EvmJobs, SvmJobs** hold the calls that **MCDecode** makes of the two decoders; it
names their properties `EvmRowsFaithful`, `SvmRowsFaithful` and so on.

Operators marked *Mutant* or *A slip* are deliberately wrong versions of the definition
that follows; `PROJECT.json` pairs each with the property that must catch it.

## 3. Runs

| Run | Instance | What it shows |
|---|---|---|
| `hypersync_range` | blocks 1..3 of a chain of up to 7, offset = reorg depth = 2, two reorganisations, prefetch 2 | gap-free, complete, reorg-safe delivery, also when the client's stream ends early; the stream ends; a drop frees the task; ProviderStream is implemented |
| `hypersync_follow` | from block 0, no end, one reorganisation | no block twice, every block that is deep enough arrives |
| `hypersync_stop` | `stop_on_head`, range up to 4, two reorganisations | the bulk phase ends exactly at the safe height, unless the client's stream ends early; the inductive invariant of the proofs |
| `response_stream` | blocks 1..6, some empty, some filtered out | cancels, retries, errors and close lose nothing silently; `last_block` is an exact resume point until an error is raised; a pending call returns |
| `query_engine` | all chunks of up to 3 of 5 rows in one table and up to 3 in another; 1 or 2 selections with filters, joins, self-joins; ill-formed ones | rows returned are the rows asked for (nulls under a Bool filter excepted); failure depends on the input only |
| `evm_query` | 2 blocks, 3 transactions, logs, a tree of traces, 2 rewards; every single request with every flag and field combination, pairs of requests, each with all three providers | server and local query together return what the documentation of the requests says, except where section 4 says otherwise |
| `svm_query` | 2 slots, 3 transactions, inner instructions, data that differ in byte 1, 3, 5 or 9; discriminators of 0 to 9 bytes; every kind of request with every flag, pairs of requests | cutting discriminators loses nothing; the wide local joins add nothing when SQD filters by all that was listed; `last_block` is the highest slot |
| `cast` | two columns of decimals, floats and bytes at the limits of their widths, nullable or not; structs in structs, fixed size lists and lists of structs with all patterns of nulls, clashing names; up to 4 calls in a row | a value survives any series of casts, encodings and decodings or the call fails; a failed value takes no other with it and becomes null only where the call allows it; flattening keeps every value in its row and null where a parent is; schemas agree with arrays |
| `decode` | EVM: integers of six widths, words too wide for their type, arrays, tuples, named tuples; rows that decode, do not, or are missing; missing and mistyped columns; all options. SVM: all byte strings of up to 3 bytes and all of 4 that start with a 1, against 12 nested types; three-row instructions with accounts in columns and in the list | each cell shows its row; the Borsh reader agrees with the grammar; announced schemas are the results'; failures are those of a row or of the shape |

Three runs expect a violation, each of a sentence in the repository that
`PROJECT.json` quotes under `findings`:

* `to_block_exclusive`: the block `to_block` is delivered (`hypersync.rs` 65), while
  `evm.py` 282 calls it exclusive. The repository's own test (`ingest/src/lib.rs` 449)
  wants it delivered, and `Complete` follows the test. `svm.py` 382 says the same of
  slots.
* `response_last_block`: `last_block` moves before the pyarrow conversion, so
  it may name a block of a chunk the caller never got (`python/src/ingest.rs`
  54 against 79-93).
* `flatten_sliced`: the nulls of a flattened struct column that is sliced off a
  longer one are those of other rows (`cast/src/lib.rs` 703-704 against 715).

**Bounds.** `MaxHeight` and `MaxEpoch` bound the chain. The instances put the
end of the range above the first safe height, so bulk phase, hand-over, several
head polls, a young chain (height below the offset) and a reorganisation in the
middle all occur. The offset is 1 or 2 instead of 200: only its relation to the
depth of reorganisations matters, and the proofs are for every value. Two
selections suffice for the query engine because masks combine pairwise, and one
or two requests for the join mode because it is a maximum over the requests.
Bytes with 4 values, words of 4 bytes and half words of 2 (`cast`) or 3 (`decode`) keep what the
conversions distinguish: a sign bit, leading zeros, values of one width that do
not fit another, two hex digits to a byte. `Natives`, `LenSize` and `Direct`
scale Arrow's integer widths, the 4-byte length and the 10 account columns down
likewise. `MaxCalls` is 4: to text, back to bytes, to a number and to another
width is the longest chain in which a new pair of neighbours occurs.

**What is assumed of others.** HyperSync's join modes, SQD's rules (which lists
concern which kinds of trace, subtraces and parents, own logs and inner
instructions, block headers with any row) and the RPC client's joins are modelled
from how the code uses them and marked external, as are arrow's kernels (nulls
propagate, a slice shares its buffers, a union of null buffers is a new one
unless one side is missing) and alloy (a blob decodes to values of the signature's
types; of integers it does not check the width).

**Fairness.** tokio runs a task that can run (`WF(TaskStep)`), the client and
the server answer, the chain grows (up to the bound), and a caller that keeps
the stream keeps pulling. Failures, reorganisations and drops are never forced.
In ResponseStream the provider answers and the pool runs its tasks; the caller
owes nothing. Two limits follow from the code and are not hidden by fairness:
`StreamEnds` needs `from_block <= to_block + 1` (an assumption on the
constants; otherwise the equality test never holds), and `DropNoticed` a chain
that grows, because a task that polls the head does not look at the channel.

## 4. Where code and documentation part

Besides the three violation runs, the models meet these disagreements. The model
does what the code does. Where the last column names a property, it holds because
it names the case as its exception or states what the code does instead; where it
names an action, the model's caller stays clear of the case.

| Code | Documentation | What happens | Exception in |
|---|---|---|---|
| `query/src/lib.rs` 151-157, 667 | 43-44: selections of a table are or-combined | a null under a Bool filter of one selection drops a row that another accepts | `CompleteButNulls` |
| `provider/common.rs` 146 | `query/src/lib.rs` 51-53 | a filter by `contract_deployment_address` names a column the schema does not have; every chunk fails | `FailsOnlyByDeployment` |
| `provider/common.rs` 549 | `svm.py` 214 | the same with `d3` | `FailsOnlyByD3` |
| `ingest/src/lib.rs` 183 | 181-182 | rows without a `last_block` when no block-number column was requested | `LastBlockIsHighest` (`last_block # Null`) |
| `hypersync.rs` 199 | `ingest/__init__.py` 71: stop when reaching the chain head | with `stop_on_head` an early end of the client's stream ends the stream short, without an error | `CutShort` in `CompleteToHead` |
| `query/src/lib.rs` 788 | `evm.py` 91: traces from matching transactions | block rewards are in no transaction; their null positions are equal, and one brings the others of its block along | `JoinedByNull` in `PushdownSound` |
| `sqd.rs` 418 | `evm.py` 83 | a trace's addresses are sent as refund addresses, self-destructs of the address are lost | `SqdShortfall` in `PushdownComplete` |
| `sqd.rs` 540 | `evm.py` 85 | `reward_type` is requested under the flag of `author`; a filter by it finds nulls | `SqdShortfall` |
| `sqd.rs` 430 | `evm.py` 91 | a transaction's traces are asked for as parents and subtraces; other branches are missing | `SqdShortfall` |
| `sqd.rs` 107-125 | `svm.py` 164 | a block's `height` is never asked for | `ColumnsServed` |
| `provider/common.rs` 623-632, `sqd.rs` 163-169 | `svm.py` 230 | `include_logs` with a discriminator that is cut returns instructions that do not match | `Widened` in `PushdownSound` |
| `cast/src/lib.rs` 724 | 722-723 | a name made for a duplicate may clash again | not checked: `FlattenedSchema` says only that schema and batch agree |
| `cast/src/lib.rs` 399 | 386 | prefixed decoding of hex without a prefix drops a byte instead of failing | `DecodeText` makes no such call |
| `cast/src/lib.rs` 109, 196 | 31: null is written if a row's cast fails | the schema keeps `is_nullable`: in a column without nulls the call fails instead | `SchemasAgree` (`outcome = "nulls"`) |
| `cast/src/lib.rs` 511 | 528 | a Decimal128 becomes 16 bytes where the decoder writes 32 | `Half` in `StandsFor` and `SignLost` of `ValuesPreserved` |
| `evm-decode/src/lib.rs` 281, 295 | 251 | an event with an indexed, named tuple never decodes, failures allowed or not | `IndexedTuple` in `EvmFailsByRowOrShape` |
| `evm-decode/src/arrow_convert.rs` 301-313 | 286: the high 16 bytes are zero | an integer of up to 128 bits whose word is wider, which alloy lets through, loses its high half silently | `Narrowed` in `EvmRowsFaithful` |
| `svm-decode/src/arrow_converter.rs` 243 | `svm-decode/src/lib.rs` 457, `.idea/ARCHITECTURE.md` 216 | one u128 above `i128::MAX` fails the batch although failures are allowed | `WideInteger` in `SvmFailsByRowOrShape` |
| `svm-decode/src/lib.rs` 106-121 | `tiders_core/__init__.py` 291-292 | one row with too few accounts in the list fails the batch likewise | `TooFewAccounts` in `SvmFailsByRowOrShape` |
| `svm-decode/src/deserialize.rs` 359 | Borsh: a bool is 0 or 1 | any other byte is true | `Encoded` follows the code |
| `svm-decode/src/arrow_converter.rs` 284 | `svm_decode/__init__.py` 40 | fixed arrays of anything but bytes have a schema and no values | `Inconvertible` in `SvmFailsByRowOrShape` |
| `svm-decode/src/lib.rs` 642 | `tiders_core/__init__.py` 345 | an unnamed account has an empty name in the schema, `a0`, `a1`, .. in the batch | `SvmSchemaPredicted` |

## 5. Proofs

Every safety invariant that the runs check of the stream, the caller's object,
the query engine, the two kinds of query and the casts is also a theorem, for every
value of the constants, and so are the action properties `NeverBack` and
`NullsOnlyWhereCastFails` and the refinement of `ProviderStream`.

| Module | Theorems (properties) | For every |
|---|---|---|
| `HypersyncStreamProofs` | `Inductive`, `TypeCorrect`, `ContiguousDelivery`, `ReorgSafety`, `Completeness` (`Complete`), `CompletenessToHead`, `ForwardOnly` (`NeverBack`), `Refinement` (`ImplementsProviderStream`) | range, offset, prefetch depth, chain |
| `ResponseStreamProofs` | `TypeCorrect`, `NoLoss` (`NoSilentLoss`), `Resume` (`ExactResume`) | rows, kept rows, cuts into chunks |
| `QueryEngineProofs` | `Soundness` (`Sound`), `Completeness` (`CompleteButNulls`), `FailureByInput` | chunk, query, order of the pool |
| `EvmQueryProofs` | `Completeness`, `Soundness` (`PushdownComplete`, `PushdownSound`), `Rejections`, `Failures` | query, chain, provider |
| `SvmQueryProofs` | `Completeness`, `Soundness`, `HighestBlock`, `ColumnsAreServed`, `FailuresByD3` | query, chain |
| `CastProofs` | `CastInductive`, `SchemasAgreeTheorem`, `ValuesPreservedTheorem`, `NullsTheorem` (`NullsOnlyWhereCastFails`) | batch, map, pair of types, size of a byte, widths, number of calls |

`StreamQueryProofs` and `NaturalProofs` hold lemmas that several of these need; the
latter the maximum of a finite set, induction over the naturals in the form of sets,
and division with remainder.

**HypersyncStreamProofs.** Under the assumptions named in `HypersyncStream`,
chiefly `Depth <= Offset`: reorganisations are no deeper than the rollback
offset. None of the properties is inductive by itself. `Contiguous` speaks of
what was delivered, so the invariant must follow a chunk from the client's buffer
(`InboxInv`) through the pending send and the channel (`QueueInv`), and say
where `from_block` stands relative to them: after the pending item in the bulk
phase, before it in the head phase. `ReorgSafe` needs that *every height ever
read* is at most `Depth` above the final block (`ChainInv`), because the bound
of a request is computed from an old height; from it follows that requests end
at a final block, and that items in flight cover blocks that can no longer
change (`SettledInv`). `Complete` needs the reasons for which a task may have
returned (`EndInv`), and these the shape of the task's states (`ShapeInv`).
The proof has one lemma per part, one case per action in each, and a few lemmas
about chains of items and `make_to_block`.

For the refinement that invariant says too
little: it must also be known that no item reaches beyond the range or the chain
(`RangeInv`), that an error is the last thing in the channel and is followed by
nothing (`ErrorInv`), and, for `stop_on_head`, that the height is read once and
that a task that is done without an error has passed on all the client fetched
(`StopInv`). Initial states
map to initial states, a receive maps to a delivery, an error or the end, and
every other step to a stutter.

**ResponseStreamProofs.** `Held` is the first block not handed over in rows or in
an error. The invariant says that everything below it was handed over
(`HandedInv`), that `last_block` is below it and not below any row handed over
(`LastBlockInv`), that the adapter's chunk is the provider's last (`WorkInv`) and
that a closed stream holds none (`OverInv`). `ExactResume` is a part of it: after
a close, when `position` no longer says anything, it is kept by itself.

**QueryEngineProofs.** The mask of a selection that ran is a function of the
selection and the chunk (`MaskInv`), and the output is the error of a selection
or the result of all masks (`OutputInv`): so the order of the pool does not
matter. The rest is about operators: the three-valued masks give `TRUE` exactly
for rows that pass or are joined, as long as no Bool filter meets a null.
Assumed: a null is no truth value; a column's type is one of the four the model
distinguishes; the column lists of a join are sequences.

**StreamQueryProofs, EvmQueryProofs, SvmQueryProofs.** The steps of the local query
in a stream are the engine's, so the engine's theorems apply to the chunk and
the generic query handed to it (`RunsEngine`, `HandOver`, `EngineOk`). The
invariant says what each stage has settled: the generic query and the requested
columns are those of the caller's query, the chunk is the server's answer.
Completeness then takes three facts: a row that matches is sent (one lemma per
server; HyperSync's rests on `JoinModeIs`, that the one join mode is wide enough
for each flag, and by default on the chain having the transaction of a log);
every column a filter or join looks at is requested and sent (`ReqFacts`,
`SentFacts`, `ColumnFacts`), so that the local filters accept it
(`MatchingPasses`, `LocalPasses`); and rows that belong together share the key of
the local join (`SharedKey`, `KeySeen`). Soundness is the converse: a null that
stands for a column not sent is in no list. Rows that match and rows that share a
transaction are told apart there from rows that share only a null (`JoinedByNull`).
For Solana it also takes that a
discriminator sent in full is found by SQD only where the caller wants it
(`SqdFindsOnly`).

Assumed of queries, as the request types have it: which lists and flags each kind
of request has, that lists are finite and without nulls, that requested columns
are columns of the schema. Assumed of the chain: rows have the columns of their
table; EVM transactions and logs have a place in their block, and a log's
transaction is there; a Solana row's slot is that of a block, and the prefixes of
an instruction's data are its own. TLC evaluates all of these on the instances.

**CastProofs.** The theorems are about `Cast!Spec`, the series of calls without
flattening; `CallSpec`, which the run checks, has those behaviours and the ones with
`Flat` in between. `ValuesPreserved` is not inductive: that a cell stands for its value
does not say that the next call can read it. The invariant `CastInv` says of every cell
what form it has (`Kept`): a number within the width of its decimal or rounded in a
float, the text of a number within a word, or bytes, in the open or as text, from which
the number or the bytes it is meant to hold can be told (`BytesOf`: leading zeros apart,
and the sign apart that `Half` bytes lose). A column that leaves a float behind is meant
to hold the float from then on (`FloatHolds`). The invariant also says that nulls are
only where the field has them (`NullsInPlace`): otherwise a call could be refused by
`try_new` for a null it did not make, and `SchemasAgree` could not name the reason.
Three layers of lemmas carry it:

* *Numbers and bytes.* `Pow` and `Unsigned` read tables that recursive functions
  define; `TableExists` and `SumExists` show by induction that these exist, `Digits`
  that bytes spell a number below `Pow`, `SameNumber` that two byte strings of one
  number differ only in leading zeros, `RoundTrip` that two's complement gives back
  what fits, `HexRoundTrip` that two digits to a byte give back the byte.
* *One value.* `NumberToBytes`, `NumberToTrimmed`, `BytesToNumber` and `KeptCast`: each
  conversion of a value keeps its form, or fails. `CastRefused`: a cast refuses a value
  only if it is too wide for the decimal. `KeptStands`: the form implies
  `StandsFor`, up to a lost sign.
* *Columns and calls.* `Made` is what a call owes for each column: the type the schema
  announces, the length, and rows that are kept, refused by arrow's cast in a call that
  allows it, or stop the call (`Base58EncodeMade` to `CastColumnMade`). `CallStep` shows once that a call whose
  columns are all `Made` keeps the invariant; there is one lemma per call that they are.

Assumed, and evaluated by TLC on the instances: a byte has a square number of values
(`BaseAssumption`), a half word is not longer than a word (`SizesAssumption`), neither
`Null` nor `Fail` is a number, bytes or text (`NullAssumption`), and a batch without
nested columns starts with cells of its columns' types (`BatchesAssumption`). With
`Base` = 256, `Word` = 32 and `Half` = 16 the theorems are about the code's own widths.

Only model-checked:

* the liveness properties (`StreamEnds`, `DropNoticed`, `KeepsUp`,
  `NextReturns`), which the prover cannot do;
* what the decoders and `flatten_record_batch` make of nested columns (the six
  properties of `decode`, `ValuesFlattened`, `FlattenedSchema`): their
  definitions recur over types, arrays and bytes, which is outside what the prover
  accepts.

## 6. Not modelled, and the plan

Not modelled: the byte-level conversions of single HyperSync columns, the precision of a decimal (as
against its width), the hash
table behind large sets, client construction and retries inside the client
libraries (SQD's and the RPC client's streams are theirs altogether), the
parsing of signatures and ABI files (`abi.rs`, alloy), extraction of arguments
from Python objects, the builders of the schemas, Python dataclasses, logging,
allocation. Of arrays, the offset of a boolean array's values in
`propagate_nulls` is left out.

Next, in this order:

1. Proofs about the parts of the decoders that do not recurse on types, as for
   Cast: the bookkeeping of rows, failures and null masks around the conversion of
   a single value, taken as a parameter.
2. The conversions of HyperSync's columns one by one (`map_hypersync_binary_array_*`);
   a column of the wrong type is so far one failure for all.
