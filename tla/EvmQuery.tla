------------------------------- MODULE EvmQuery -------------------------------
(***************************************************************************)
(* The way of an EVM query through start_stream: it is validated and made  *)
(* generic (provider/common.rs), sent to HyperSync, SQD or an RPC node     *)
(* (provider/hypersync.rs, sqd.rs, rpc.rs), and what comes back is         *)
(* filtered by the generic query.                                          *)
(*                                                                         *)
(* The three kinds of request differ in their table, their filters and     *)
(* what they include.  Of the filters that are treated alike one or two    *)
(* stand for all.                                                          *)
(***************************************************************************)
EXTENDS StreamQuery

CONSTANT EvmQueries

Types ==
    [blocks       |-> [number |-> "int", hash |-> "bytes"],
     transactions |-> [block_number |-> "int", transaction_index |-> "int", from |-> "bytes",
                       status |-> "int", contract_address |-> "bytes"],
     logs         |-> [block_number |-> "int", transaction_index |-> "int", address |-> "bytes"],
     traces       |-> [block_number |-> "int", transaction_position |-> "int",
                       trace_address |-> "other", type |-> "bytes", from |-> "bytes",
                       address |-> "bytes", refund_address |-> "bytes",
                       author |-> "bytes", reward_type |-> "bytes"]]

Tables == DOMAIN Types

\* The lists of each kind of request, and the tables its flags lead to.
FilterLists ==
    [transactions |-> {"from", "status", "contract_deployment_address"},
     logs         |-> {"address"},
     traces       |-> {"from", "author", "address", "reward_type"}]
IncludeFlags ==
    [transactions |-> {"logs", "traces", "blocks"},
     logs         |-> {"logs", "traces", "transactions", "blocks"},
     traces       |-> {"logs", "traces", "transactions", "blocks"}]

IsRequest(r) ==
    /\ r.table \in DOMAIN FilterLists
    /\ DOMAIN r.filters \subseteq FilterLists[r.table]
    /\ r.include \subseteq IncludeFlags[r.table]
    /\ \A c \in DOMAIN r.filters : IsFiniteSet(r.filters[c]) /\ Null \notin r.filters[c]

ASSUME ProvidersAssumption == Providers \subseteq {"hypersync", "sqd", "rpc"}

\* A query is a list of requests, the columns wanted of each table and a flag.
ASSUME EvmQueriesAssumption ==
    \A q \in EvmQueries :
        /\ E!IsList(q.requests)
        /\ \A i \in DOMAIN q.requests : IsRequest(q.requests[i])
        /\ DOMAIN q.fields = Tables
        /\ \A t \in Tables : q.fields[t] \subseteq DOMAIN Types[t]
        /\ q.include_all_blocks \in BOOLEAN

\* Transactions and logs have a place in their block; the chain has the transaction
\* of every log.
ASSUME ChainAssumption ==
    /\ DOMAIN Chain = Tables
    /\ \A t \in Tables : \A row \in Chain[t] : DOMAIN row = DOMAIN Types[t] \cup {"id"}
    /\ \A row \in Chain.transactions \cup Chain.logs : row.transaction_index # Null
    /\ \A log \in Chain.logs : \E tx \in Chain.transactions :
          tx.block_number = log.block_number /\ tx.transaction_index = log.transaction_index

-----------------------------------------------------------------------------
\* evm_query_to_generic.

\* Mutant: what traces include is forgotten.
FetchedNotByTraces(t) ==
    \/ \E r \in Requests : r.table = t \/ (t \in r.include /\ r.table # "traces")
    \/ t = "blocks" /\ asked.include_all_blocks

\* Some request asks for rows of t, or includes them.
Fetched(t) ==
    \/ \E r \in Requests : r.table = t \/ t \in r.include
    \/ t = "blocks" /\ asked.include_all_blocks

On(col, other, otherCol) ==
    [fields |-> <<"block_number", col>>, other |-> other,
     otherFields |-> <<"block_number", otherCol>>]
OnBlock == [fields |-> <<"block_number">>, other |-> "blocks", otherFields |-> <<"number">>]

FilterType == [from |-> "bytes", status |-> "int", contract_deployment_address |-> "bytes",
               address |-> "bytes", author |-> "bytes", reward_type |-> "bytes"]

\* A filter for each list that is not empty, and the joins of the flags set.
Selection(r, joins) ==
    [table   |-> r.table,
     filters |-> [c \in {d \in DOMAIN r.filters : r.filters[d] # {}} |->
                    [kind |-> "contains", type |-> FilterType[c], values |-> r.filters[c]]],
     include |-> {joins[o] : o \in r.include}]

evm_tx_selection_to_generic(r) ==
    Selection(r, [logs   |-> On("transaction_index", "logs", "transaction_index"),
                  traces |-> On("transaction_index", "traces", "transaction_position"),
                  blocks |-> OnBlock])

\* Mutant: the column of the other tables is taken for that of traces.
evm_trace_selection_by_index(r) ==
    Selection(r, [logs         |-> On("transaction_index", "logs", "transaction_index"),
                  traces       |-> On("transaction_position", "traces", "transaction_position"),
                  transactions |-> On("transaction_position", "transactions", "transaction_index"),
                  blocks       |-> OnBlock])

evm_trace_selection_to_generic(r) ==
    Selection(r, [logs         |-> On("transaction_position", "logs", "transaction_index"),
                  traces       |-> On("transaction_position", "traces", "transaction_position"),
                  transactions |-> On("transaction_position", "transactions", "transaction_index"),
                  blocks       |-> OnBlock])

\* Mutant: all transactions of the block are joined.
evm_log_selection_by_block(r) ==
    Selection(r, [logs         |-> On("transaction_index", "logs", "transaction_index"),
                  transactions |-> [fields |-> <<"block_number">>, other |-> "transactions",
                                    otherFields |-> <<"block_number">>],
                  traces       |-> On("transaction_index", "traces", "transaction_position"),
                  blocks       |-> OnBlock])

evm_log_selection_to_generic(r) ==
    Selection(r, [logs         |-> On("transaction_index", "logs", "transaction_index"),
                  transactions |-> On("transaction_index", "transactions", "transaction_index"),
                  traces       |-> On("transaction_index", "traces", "transaction_position"),
                  blocks       |-> OnBlock])

ToGeneric(r) ==
    CASE r.table = "transactions" -> evm_tx_selection_to_generic(r)
      [] r.table = "traces"       -> evm_trace_selection_to_generic(r)
      [] r.table = "logs"         -> evm_log_selection_to_generic(r)

evm_query_to_generic ==
    [selections |-> [i \in DOMAIN asked.requests |-> ToGeneric(asked.requests[i])]
                    \o (IF asked.include_all_blocks THEN <<AllBlocks>> ELSE <<>>),
     fields |-> asked.fields]

Validate ==
    /\ stage = "new"
    /\ \/ /\ \E t \in Tables : asked.fields[t] # {} /\ ~Fetched(t)
          /\ stage' = "rejected"
          /\ UNCHANGED <<query, req>>
       \/ /\ \A t \in Tables : asked.fields[t] # {} => Fetched(t)
          /\ stage' = "request"
          /\ query' = evm_query_to_generic
          /\ req' = make_req_fields(evm_query_to_generic, Types)
    /\ UNCHANGED <<provider, asked, last_block, data, masks, output>>

-----------------------------------------------------------------------------
\* HyperSync: query_to_hypersync.

\* Mutant: a transaction joined to a trace needs no more than the default.
join_mode_trace_default ==
    IF \E r \in Requests : "logs" \in r.include THEN "JoinAll"
    ELSE IF \E r \in Requests : r.include # {} THEN "Default"
    ELSE "JoinNothing"

join_mode ==
    IF \E r \in Requests :
          \/ "logs" \in r.include
          \/ r.table = "traces" /\ r.include \cap {"transactions", "traces"} # {}
    THEN "JoinAll"
    ELSE IF \E r \in Requests : r.include # {} THEN "Default"
    ELSE "JoinNothing"

\* What HyperSync is asked to filter by: not the author of a trace.
HypersyncFilters(r) ==
    [c \in (DOMAIN r.filters \ {"author"}) |-> r.filters[c]]

RequestFails ==
    /\ stage = "request"
    /\ provider = "hypersync"
    /\ \E r \in Requests : "status" \in DOMAIN r.filters /\ Cardinality(r.filters["status"]) > 1
    /\ stage' = "rejected"
    /\ UNCHANGED <<provider, asked, req, last_block, engine>>

query_to_hypersync ==
    /\ stage = "request"
    /\ provider = "hypersync"
    /\ \A r \in Requests :
          "status" \in DOMAIN r.filters => Cardinality(r.filters["status"]) <= 1
    /\ stage' = "await"
    /\ UNCHANGED <<provider, asked, req, last_block, engine>>

-----------------------------------------------------------------------------
\* SQD: evm_query_to_sqd.

\* The lists SQD has a filter for.  The address of a trace is sent as the refund
\* address of a self-destruct.
SqdFilters(r) ==
    LET sent == [transactions |-> {"from"}, logs |-> {"address"},
                 traces |-> {"from", "address", "author"}][r.table]
    IN  [c \in DOMAIN r.filters \cap sent |-> r.filters[c]]

\* The number of a block is sent once, for all tables; a reward's type comes with
\* its author.
SqdColumns(t) ==
    LET numbered == "number" \in req.blocks \/ \E u \in DOMAIN req : "block_number" \in req[u]
    IN  (req[t] \ {"number", "block_number", "reward_type"})
        \cup (IF numbered THEN {"number", "block_number"} \cap DOMAIN Types[t] ELSE {})
        \cup (IF t = "traces" /\ "author" \in req.traces THEN {"reward_type"} ELSE {})

\* Mutant: the logs of a trace's transaction are not asked for.
SqdIncludesNoLogs(r) == IF r.table = "traces" THEN r.include \ {"logs"} ELSE r.include

\* The flags that are passed on; a trace's include_transaction_traces is passed as
\* subtraces and parents.
SqdIncludes(r) == r.include \ {"blocks"}

evm_query_to_sqd ==
    /\ stage = "request"
    /\ provider = "sqd"
    /\ stage' = "await"
    /\ UNCHANGED <<provider, asked, req, last_block, engine>>

\* An RPC node: map_query, which passes everything on.
map_query ==
    /\ stage = "request"
    /\ provider = "rpc"
    /\ stage' = "await"
    /\ UNCHANGED <<provider, asked, req, last_block, engine>>

\* The columns an RPC node is asked for: those of the query, name by name.
map_fields(t) == req[t]

-----------------------------------------------------------------------------
\* The servers (external).

Column(c) == IF c = "contract_deployment_address" THEN "contract_address" ELSE c

Matches(filters, row) ==
    \A c \in DOMAIN filters : filters[c] # {} => row[Column(c)] \in filters[c]

Position(t) == IF t = "traces" THEN "transaction_position" ELSE "transaction_index"
TxOf(t, row) == <<row.block_number, row[Position(t)]>>
TxTables == Tables \ {"blocks"}

\* Rows of t in one of the transactions txs; a block reward is in none.
InTxs(t, txs) == {row \in Chain[t] : row[Position(t)] # Null /\ TxOf(t, row) \in txs}
TxsOf(t, rows) == {TxOf(t, row) : row \in {r \in rows : r[Position(t)] # Null}}

\* What HyperSync selects, and the transactions of that.
Selected(t) ==
    {row \in Chain[t] : \E r \in Requests : r.table = t /\ Matches(HypersyncFilters(r), row)}
SelectedTxs == UNION {TxsOf(t, Selected(t)) : t \in TxTables}

\* What it joins: by default from logs to transactions to traces, or everything
\* with everything.
HypersyncTransactions ==
    Selected("transactions") \cup
    InTxs("transactions", CASE join_mode = "JoinAll" -> SelectedTxs
                            [] join_mode = "Default" -> TxsOf("logs", Selected("logs"))
                            [] OTHER                 -> {})
HypersyncTraces ==
    Selected("traces") \cup
    InTxs("traces", CASE join_mode = "JoinAll" -> SelectedTxs
                      [] join_mode = "Default" -> TxsOf("transactions", HypersyncTransactions)
                      [] OTHER                 -> {})
HypersyncLogs ==
    Selected("logs") \cup InTxs("logs", IF join_mode = "JoinAll" THEN SelectedTxs ELSE {})
HypersyncBlocks ==
    LET nos == {row.block_number :
                    row \in HypersyncTransactions \cup HypersyncTraces \cup HypersyncLogs}
    IN  {row \in Chain.blocks :
            asked.include_all_blocks \/ (join_mode # "JoinNothing" /\ row.number \in nos)}

\* A table of which no column is requested is not sent.
HypersyncRows(t) ==
    IF req[t] = {} THEN {}
    ELSE [transactions |-> HypersyncTransactions, traces |-> HypersyncTraces,
          logs |-> HypersyncLogs, blocks |-> HypersyncBlocks][t]

\* The kinds of trace a list SQD is sent is about; it says nothing of other kinds.
SqdKinds == [from |-> {"call", "create"}, address |-> {"suicide"}, author |-> {"reward"}]
SqdMatches(r, row) ==
    \A c \in DOMAIN SqdFilters(r) :
        \/ r.filters[c] = {}
        \/ r.table = "traces" /\ row.type \notin SqdKinds[c]
        \/ row[IF r.table = "traces" /\ c = "address" THEN "refund_address" ELSE c] \in r.filters[c]

\* Two traces of a transaction of which one called, in the end, the other.
SameBranch(src, row) ==
    \A i \in DOMAIN src.trace_address \cap DOMAIN row.trace_address :
        src.trace_address[i] = row.trace_address[i]

\* What SQD joins to a row of one of its requests.
SqdJoined(r, src, t) ==
    {row \in InTxs(t, TxsOf(r.table, {src})) :
        r.table = "traces" /\ t = "traces" => SameBranch(src, row)}

\* SQD sends the header of each block it sends rows of.
SqdRows(t) ==
    LET matched(r) == {row \in Chain[r.table] : SqdMatches(r, row)}
        rows(u)    == {row \in Chain[u] : \E r \in Requests :
                         \/ r.table = u /\ row \in matched(r)
                         \/ u \in SqdIncludes(r) /\ \E src \in matched(r) : row \in SqdJoined(r, src, u)}
        nos        == {row.block_number : row \in UNION {rows(u) : u \in TxTables}}
    IN  IF t # "blocks" THEN rows(t)
        ELSE {row \in Chain.blocks : asked.include_all_blocks \/ row.number \in nos}

RpcRows(t) ==
    LET matched(r) == {row \in Chain[r.table] : Matches(r.filters, row)}
        joined(r)  == IF t = "blocks"
                      THEN {row \in Chain.blocks : \E src \in matched(r) : src.block_number = row.number}
                      ELSE InTxs(t, TxsOf(r.table, matched(r)))
    IN  {row \in Chain[t] :
            \/ t = "blocks" /\ asked.include_all_blocks
            \/ \E r \in Requests :
                  \/ r.table = t /\ row \in matched(r)
                  \/ t \in r.include /\ row \in joined(r)}

Served(t) ==
    CASE provider = "hypersync" -> HypersyncRows(t)
      [] provider = "sqd"       -> SqdRows(t)
      [] OTHER                  -> RpcRows(t)

\* The columns that a response has.
Sent(t) ==
    CASE provider = "sqd" -> SqdColumns(t)
      [] provider = "rpc" -> map_fields(t)
      [] OTHER            -> req[t]

\* A column the server did not send is null.
map_hypersync_array(t, row, c) == IF c = "id" \/ c \in Sent(t) THEN row[c] ELSE Null

\* Where a trace lies in its transaction is not read from HyperSync's answer.
MapColumn(t, row, c) ==
    IF c = "trace_address" /\ provider = "hypersync" THEN Null ELSE map_hypersync_array(t, row, c)

\* map_blocks, map_transactions, map_logs and map_traces: the columns of the schema.
MapTable(t) ==
    [types |-> Types[t],
     rows  |-> {[c \in DOMAIN row |-> MapColumn(t, row, c)] : row \in Served(t)}]

map_response == [t \in Tables |-> MapTable(t)]

Respond ==
    /\ stage = "await"
    /\ data' = map_response
    /\ stage' = "chunk"
    /\ UNCHANGED <<provider, asked, req, last_block, query, masks, output>>

\* A column that HyperSync sent has another type than the schema.
ColumnMistyped ==
    /\ stage = "await"
    /\ provider = "hypersync"
    /\ stage' = "failed"
    /\ UNCHANGED <<provider, asked, req, last_block, engine>>

-----------------------------------------------------------------------------
Init == InitWith(EvmQueries, Tables)

Next == Validate \/ RequestFails \/ query_to_hypersync \/ evm_query_to_sqd \/ map_query
        \/ Respond \/ ColumnMistyped \/ LocalQuery \/ RunQuery \/ Over

Spec == Init /\ [][Next]_vars

-----------------------------------------------------------------------------
\* What the caller's documentation (src/python/tiders_core/ingest/evm.py) says a
\* query returns, over the whole chain.

MatchingRows(r) == {row \in Chain[r.table] : Matches(r.filters, row)}

\* Rows of t with the block of a matching row, or its transaction, if it is in one.
Included(r, t) ==
    {row \in Chain[t] : \E src \in MatchingRows(r) :
        IF t = "blocks" THEN row.number = src.block_number
        ELSE row[Position(t)] # Null /\ TxOf(t, row) = TxOf(r.table, src)}

AskedFor(t) ==
    {row \in Chain[t] :
        \/ t = "blocks" /\ asked.include_all_blocks
        \/ \E r \in Requests :
              \/ r.table = t /\ row \in MatchingRows(r)
              \/ t \in r.include /\ row \in Included(r, t)}

\* An exception: the block rewards of a block are in no transaction, but share the
\* null in its place.  The local join takes one of them for the other's company.
JoinedByNull(t) ==
    {row \in Chain[t] :
        /\ t # "blocks" /\ row[Position(t)] = Null
        /\ \E r \in Requests : t \in r.include /\ \E src \in MatchingRows(r) : TxOf(t, row) = TxOf(r.table, src)}

Lists(r, c) == r.table = "traces" /\ c \in DOMAIN r.filters /\ r.filters[c] # {}

\* What evm_query_to_sqd asks for differently: traces by address (sent as refund
\* address), rewards by type (read from author's column) and the traces of a whole
\* transaction (sent as those above and below).
SqdShortfall ==
    /\ provider = "sqd"
    /\ \E r \in Requests : \/ Lists(r, "address") \/ Lists(r, "reward_type")
                           \/ r.table = "traces" /\ "traces" \in r.include

\* The split of the work loses nothing, with any provider: what the caller asked
\* for is what comes out of the server's filters and joins, the requested columns
\* and the local query together, in every table of which a column is requested.
PushdownComplete ==
    Ok /\ ~SqdShortfall =>
        \A t \in Tables : req[t] # {} => Ids(AskedFor(t)) \subseteq Got(t)

\* It adds nothing either: rows that a server without the filter, or a join made
\* for another request, brings along do not reach the caller; only rows that are in
\* no transaction come with another such row of their block.
PushdownSound ==
    Ok => \A t \in Tables : Got(t) \subseteq Ids(AskedFor(t) \cup JoinedByNull(t))

\* The validation rejects no query that could return rows of every table whose
\* columns it asks for; HyperSync, one with several statuses.
RejectsOnlyFutile ==
    stage = "rejected" =>
        \/ \E t \in Tables : asked.fields[t] # {} /\ AskedFor(t) = {}
        \/ /\ provider = "hypersync"
           /\ \E r \in Requests : "status" \in DOMAIN r.filters /\ Cardinality(r.filters["status"]) > 1

\* The columns the local query looks at are in every chunk, other than the one of
\* a filter by deployed contract.
FailsOnlyByDeployment ==
    output.state = "error" =>
        \E r \in Requests : "contract_deployment_address" \in DOMAIN r.filters
=============================================================================
