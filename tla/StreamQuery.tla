------------------------------ MODULE StreamQuery ------------------------------
(***************************************************************************)
(* What start_stream (src/ingest/src/lib.rs) does with a query whatever    *)
(* its kind: it works out the columns to request, has a provider fetch     *)
(* them, and runs the generic query (QueryEngine) on what comes back.      *)
(* EvmQuery and SvmQuery add the translations of the two kinds of query.   *)
(*                                                                         *)
(* A request is [table, filters, include]: the table it selects rows of,   *)
(* the filter lists by name, and the tables its include_* flags lead to.   *)
(* A row carries an id that is no column, so that rows whose columns were  *)
(* not requested stay apart.                                               *)
(***************************************************************************)
EXTENDS Integers, FiniteSetsExt, Sequences

CONSTANTS
    Null,
    Providers,  \* the kinds of provider: "hypersync", "sqd", "rpc"
    Chain       \* what the provider's server has: [tables -> set of rows]

\* A null is no truth value and no number.
ASSUME NullAssumption == Null \notin BOOLEAN /\ Null \notin Nat

VARIABLES
    provider,   \* provider_config.kind
    asked,      \* the caller's query: [requests, fields, include_all_blocks]
    stage,      \* "new", "rejected", "request", "await", "failed", "chunk" or "local"
    req,        \* the query's fields, as overwritten with make_req_fields
    last_block, \* of the chunk
    data, query, masks, output  \* see QueryEngine

E == INSTANCE QueryEngine WITH Datasets <- {}, Queries <- {}

engine == <<data, query, masks, output>>
vars == <<provider, asked, stage, req, last_block, data, query, masks, output>>

Requests == {asked.requests[i] : i \in DOMAIN asked.requests}

AllBlocks == [table |-> "blocks", filters |-> [c \in {} |-> {}], include |-> {}]

\* The columns of t that the filters and the joins of a generic query look at.
add_request_and_include_fields(q, t) ==
    LET sels == {q.selections[i] : i \in DOMAIN q.selections}
        own  == {s \in sels : s.table = t}
        incs == UNION {s.include : s \in sels}
    IN  (UNION {DOMAIN s.filters : s \in own})
        \cup (UNION {E!Names(inc.fields) : inc \in UNION {s.include : s \in own}})
        \cup (UNION {E!Names(inc.otherFields) : inc \in {i \in incs : i.other = t}})

\* The names go through JSON into the Fields struct, which drops the unknown.
make_req_fields(q, types) ==
    [t \in DOMAIN types |->
        (q.fields[t] \cup add_request_and_include_fields(q, t)) \cap DOMAIN types[t]]

-----------------------------------------------------------------------------
\* The work on the chunk.

\* The maximum of the block numbers that are there.
extract_last_block ==
    LET known(t) == {"block_number", "number", "slot"} \cap DOMAIN data[t].types
        numbers  == UNION {{row[c] : row \in data[t].rows, c \in known(t)} : t \in DOMAIN data}
    IN  IF numbers \subseteq {Null} THEN Null ELSE Max(numbers \ {Null})

LocalQuery ==
    /\ stage = "chunk"
    /\ stage' = "local"
    /\ last_block' = extract_last_block
    /\ masks' = E!Pending(query.selections)
    /\ output' = E!Running
    /\ UNCHANGED <<provider, asked, req, data, query>>

RunQuery ==
    /\ stage = "local"
    /\ E!RunQuery
    /\ UNCHANGED <<provider, asked, stage, req, last_block>>

InitWith(queries, tables) ==
    /\ provider \in Providers
    /\ asked \in queries
    /\ stage = "new"
    /\ req = [t \in tables |-> {}]
    /\ last_block = Null
    /\ data = E!NoTables
    /\ query = [selections |-> <<>>, fields |-> asked.fields]
    /\ masks = <<>>
    /\ output = [state |-> "idle", tables |-> E!NoTables]

Over == (stage \in {"rejected", "failed"} \/ output.state \in {"ok", "error"}) /\ UNCHANGED vars

-----------------------------------------------------------------------------
Ids(rows) == {row.id : row \in rows}
Ok == output.state = "ok"
Got(t) == IF t \in DOMAIN output.tables THEN Ids(output.tables[t].rows) ELSE {}
=============================================================================
