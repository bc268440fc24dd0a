---------------------------- MODULE EvmQueryProofs ----------------------------
(***************************************************************************)
(* An EVM query through start_stream, for every query the request types    *)
(* admit, every chain and each of the three providers: what the servers    *)
(* filter and join, the columns that are requested and the local query add *)
(* up to what the caller asked for.                                        *)
(***************************************************************************)
EXTENDS EvmQuery, StreamQueryProofs

\* What each stage has settled, as a function of the query and the chain.
QueryInv ==
    /\ asked \in EvmQueries
    /\ stage \notin {"new", "rejected"} =>
          /\ query = evm_query_to_generic
          /\ req = make_req_fields(evm_query_to_generic, Types)
    /\ stage \in {"chunk", "local"} => data = map_response
    /\ RejectsOnlyFutile

Inv == QueryInv /\ EngineInv

\* A row of the chunk: one of the chain with the columns that were not sent nulled.
Received(t, row) == [c \in DOMAIN row |-> MapColumn(t, row, c)]

-----------------------------------------------------------------------------
\* The join that a flag stands for: the block's rows by number, those of a
\* transaction by block and place.
JoinOf(from, t) == IF t = "blocks" THEN OnBlock ELSE On(Position(from), t, Position(t))

\* The generic filter of a list.
FilterOf(r, c) == [kind |-> "contains", type |-> FilterType[c], values |-> r.filters[c]]

\* The translations of the three kinds of request differ in their joins alone, and
\* these in the column that holds a row's place in its block.
LEMMA GenericFacts ==
    ASSUME NEW r, IsRequest(r)
    PROVE  /\ ToGeneric(r).table = r.table
           /\ \A c : c \in DOMAIN ToGeneric(r).filters <=>
                        c \in DOMAIN r.filters /\ r.filters[c] # {}
           /\ \A c \in DOMAIN ToGeneric(r).filters : ToGeneric(r).filters[c] = FilterOf(r, c)
           /\ \A inc : inc \in ToGeneric(r).include <=> \E t \in r.include : inc = JoinOf(r.table, t)
<1>1. r.table \in {"transactions", "traces", "logs"} /\ r.include \subseteq IncludeFlags[r.table]
  BY DEF IsRequest, FilterLists
<1>2. ASSUME NEW joins
      PROVE  LET sel == Selection(r, joins)
             IN  /\ sel.table = r.table
                 /\ \A c : c \in DOMAIN sel.filters <=> c \in DOMAIN r.filters /\ r.filters[c] # {}
                 /\ \A c \in DOMAIN sel.filters : sel.filters[c] = FilterOf(r, c)
                 /\ \A inc : inc \in sel.include <=> \E t \in r.include : inc = joins[t]
  BY DEF Selection, FilterOf
<1>3. CASE r.table = "transactions"
  <2> DEFINE joins == [logs   |-> On("transaction_index", "logs", "transaction_index"),
                       traces |-> On("transaction_index", "traces", "transaction_position"),
                       blocks |-> OnBlock]
  <2>1. ToGeneric(r) = evm_tx_selection_to_generic(r)
    BY <1>3, Zenon DEF ToGeneric
  <2>2. ToGeneric(r) = Selection(r, joins)
    BY <2>1 DEF evm_tx_selection_to_generic
  <2>3. \A t \in IncludeFlags[r.table] : joins[t] = JoinOf(r.table, t)
    BY <1>3 DEF IncludeFlags, JoinOf, Position
  <2> HIDE DEF joins
  <2> QED
    BY <1>1, <1>2, <2>2, <2>3
<1>4. CASE r.table = "traces"
  <2> DEFINE joins == [logs |-> On("transaction_position", "logs", "transaction_index"),
                       traces |-> On("transaction_position", "traces", "transaction_position"),
                       transactions |-> On("transaction_position", "transactions", "transaction_index"),
                       blocks |-> OnBlock]
  <2>1. ToGeneric(r) = evm_trace_selection_to_generic(r)
    BY <1>4, Zenon DEF ToGeneric
  <2>2. ToGeneric(r) = Selection(r, joins)
    BY <2>1 DEF evm_trace_selection_to_generic
  <2>3. \A t \in IncludeFlags[r.table] : joins[t] = JoinOf(r.table, t)
    BY <1>4 DEF IncludeFlags, JoinOf, Position
  <2> HIDE DEF joins
  <2> QED
    BY <1>1, <1>2, <2>2, <2>3
<1>5. CASE r.table = "logs"
  <2> DEFINE joins == [logs |-> On("transaction_index", "logs", "transaction_index"),
                       transactions |-> On("transaction_index", "transactions", "transaction_index"),
                       traces |-> On("transaction_index", "traces", "transaction_position"),
                       blocks |-> OnBlock]
  <2>1. ToGeneric(r) = evm_log_selection_to_generic(r)
    BY <1>5, Zenon DEF ToGeneric
  <2>2. ToGeneric(r) = Selection(r, joins)
    BY <2>1 DEF evm_log_selection_to_generic
  <2>3. \A t \in IncludeFlags[r.table] : joins[t] = JoinOf(r.table, t)
    BY <1>5 DEF IncludeFlags, JoinOf, Position
  <2> HIDE DEF joins
  <2> QED
    BY <1>1, <1>2, <2>2, <2>3
<1> QED
  BY <1>1, <1>3, <1>4, <1>5

\* The column pairs of a join, and that both tables have them.
LEMMA JoinFacts ==
    ASSUME NEW from \in DOMAIN FilterLists, NEW t \in IncludeFlags[from]
    PROVE  LET inc == JoinOf(from, t)
           IN  /\ QP!IsList(inc.fields) /\ QP!IsList(inc.otherFields)
               /\ Len(inc.fields) = Len(inc.otherFields)
               /\ DOMAIN inc.fields = DOMAIN inc.otherFields
               /\ inc.other = t /\ t \in Tables
               /\ QP!Names(inc.fields) \subseteq DOMAIN Types[from] \ {"reward_type", "trace_address"}
               /\ QP!Names(inc.otherFields) \subseteq DOMAIN Types[t] \ {"reward_type", "trace_address"}
               /\ "block_number" \in QP!Names(inc.fields)
<1>1. from \in {"transactions", "traces", "logs"} /\ t \in {"transactions", "traces", "logs", "blocks"}
  BY DEF FilterLists, IncludeFlags
<1>2. from \in Tables /\ t \in Tables
  BY <1>1 DEF Tables, Types
<1>3. \A u \in {"transactions", "traces", "logs"} :
         {"block_number", Position(u)} \subseteq DOMAIN Types[u] \ {"reward_type", "trace_address"}
  BY DEF Position, Types
<1>4. CASE t = "blocks"
  <2>1. /\ JoinOf(from, t).fields = <<"block_number">> /\ JoinOf(from, t).otherFields = <<"number">>
        /\ JoinOf(from, t).other = t
    BY <1>4 DEF JoinOf, OnBlock
  <2>2. "number" \in DOMAIN Types.blocks
    BY DEF Types
  <2> QED
    BY <1>1, <1>2, <1>3, <1>4, <2>1, <2>2 DEF QP!IsList, QP!Names
<1>5. CASE t # "blocks"
  <2>1. /\ JoinOf(from, t).fields = <<"block_number", Position(from)>>
        /\ JoinOf(from, t).otherFields = <<"block_number", Position(t)>>
        /\ JoinOf(from, t).other = t
    BY <1>5 DEF JoinOf, On
  <2>2. ASSUME NEW a, NEW b
        PROVE  /\ QP!IsList(<<a, b>>) /\ QP!Names(<<a, b>>) = {a, b}
               /\ Len(<<a, b>>) = 2 /\ DOMAIN <<a, b>> = 1..2
    BY DEF QP!IsList, QP!Names
  <2> QED
    BY <1>1, <1>2, <1>3, <1>5, <2>1, <2>2
<1> QED
  BY <1>4, <1>5

\* Every list is about a column of a type the engine filters, but for that of the
\* deployed contracts.
LEMMA FilterColumns ==
    ASSUME NEW r, IsRequest(r), NEW c \in DOMAIN r.filters, c # "contract_deployment_address"
    PROVE  /\ c \in DOMAIN Types[r.table] \ {"trace_address"}
           /\ QP!Fits(FilterOf(r, c), Types[r.table][c])
           /\ Column(c) = c
<1>1. r.table \in {"transactions", "logs", "traces"} /\ c \in FilterLists[r.table]
  BY DEF IsRequest, FilterLists
<1>2. /\ c \in DOMAIN Types[r.table] \ {"trace_address"} /\ Types[r.table][c] = FilterType[c]
      /\ Types[r.table][c] \in {"int", "bytes"}
  BY <1>1 DEF FilterLists, Types, FilterType
<1>3. FilterOf(r, c).kind = "contains" /\ FilterOf(r, c).type = FilterType[c]
  BY DEF FilterOf
<1> QED
  BY <1>2, <1>3 DEF QP!Fits, QP!Supports, Column

-----------------------------------------------------------------------------
\* The generic query of what was asked.
LEMMA QueryFacts ==
    ASSUME asked \in EvmQueries
    PROVE  /\ \A r \in Requests : IsRequest(r) /\ r.table \in Tables \ {"blocks"}
           /\ evm_query_to_generic.fields = asked.fields
           /\ Elems(evm_query_to_generic.selections) =
                 {ToGeneric(r) : r \in Requests}
                 \cup (IF asked.include_all_blocks THEN {AllBlocks} ELSE {})
<1> DEFINE rs == asked.requests
           s == [i \in DOMAIN rs |-> ToGeneric(rs[i])]
           u == IF asked.include_all_blocks THEN <<AllBlocks>> ELSE <<>>
           S == {s[i] : i \in DOMAIN s} \cup {AllBlocks}
<1>1. /\ DOMAIN rs = 1..Len(rs) /\ Len(rs) \in Nat
      /\ \A i \in DOMAIN rs : IsRequest(rs[i])
  <2>1. E!IsList(rs) /\ \A i \in DOMAIN rs : IsRequest(rs[i])
    BY EvmQueriesAssumption
  <2>2. rs \in Seq({rs[i] : i \in DOMAIN rs})
    BY <2>1 DEF E!IsList
  <2> QED
    BY <2>1, <2>2
<1>2. s \in Seq(S)
  BY <1>1
<1>3. u \in Seq(S)
  <2>1. AllBlocks \in S
    OBVIOUS
  <2> HIDE DEF S
  <2> QED
    BY <2>1
<1>4. evm_query_to_generic.selections = s \o u /\ evm_query_to_generic.fields = asked.fields
  BY DEF evm_query_to_generic
<1>5. Elems(u) = IF asked.include_all_blocks THEN {AllBlocks} ELSE {}
  BY DEF Elems
<1>6. Elems(s) = {ToGeneric(r) : r \in Requests}
  BY DEF Requests, Elems
<1>7. ASSUME NEW r \in Requests
      PROVE  IsRequest(r) /\ r.table \in Tables \ {"blocks"}
  <2>1. IsRequest(r)
    BY <1>1 DEF Requests
  <2> QED
    BY <2>1 DEF IsRequest, FilterLists, Tables, Types
<1> HIDE DEF s, u, S
<1>8. Elems(s \o u) = Elems(s) \cup Elems(u)
  BY <1>2, <1>3, Elements, Zenon
<1> QED
  BY <1>4, <1>5, <1>6, <1>7, <1>8

\* Every column that a filter or a join looks at is requested.
LEMMA ReqFacts ==
    ASSUME QueryInv, stage \notin {"new", "rejected"}
    PROVE  /\ DOMAIN req = Tables
           /\ \A t \in Tables : req[t] \subseteq DOMAIN Types[t]
           /\ \A r \in Requests :
                 /\ \A c \in DOMAIN r.filters :
                       r.filters[c] # {} /\ c # "contract_deployment_address" => c \in req[r.table]
                 /\ \A t \in r.include :
                       /\ QP!Names(JoinOf(r.table, t).fields) \subseteq req[r.table]
                       /\ QP!Names(JoinOf(r.table, t).otherFields) \subseteq req[t]
<1> DEFINE q == evm_query_to_generic
           sels == Elems(q.selections)
<1>1. asked \in EvmQueries /\ req = make_req_fields(q, Types)
  BY DEF QueryInv
<1>2. \A r \in Requests : IsRequest(r) /\ ToGeneric(r) \in sels
  BY <1>1, QueryFacts
<1> HIDE DEF q
<1>3. /\ DOMAIN req = Tables
      /\ \A t \in Tables :
            req[t] = (q.fields[t] \cup add_request_and_include_fields(q, t)) \cap DOMAIN Types[t]
  BY <1>1 DEF make_req_fields, Tables
<1>4. ASSUME NEW r \in Requests
      PROVE  /\ DOMAIN ToGeneric(r).filters \subseteq add_request_and_include_fields(q, r.table)
             /\ \A inc \in ToGeneric(r).include :
                   /\ QP!Names(inc.fields) \subseteq add_request_and_include_fields(q, r.table)
                   /\ QP!Names(inc.otherFields) \subseteq add_request_and_include_fields(q, inc.other)
  <2>1. ToGeneric(r) \in sels /\ ToGeneric(r).table = r.table
    BY <1>2, GenericFacts
  <2>2. \A names : QP!Names(names) = E!Names(names)
    BY DEF QP!Names, E!Names
  <2> QED
    BY <2>1, <2>2 DEF add_request_and_include_fields, Elems
<1>5. ASSUME NEW r \in Requests, NEW c \in DOMAIN r.filters, r.filters[c] # {},
             c # "contract_deployment_address"
      PROVE  c \in req[r.table]
  <2>1. c \in DOMAIN Types[r.table] /\ c \in DOMAIN ToGeneric(r).filters
    BY <1>2, <1>5, GenericFacts, FilterColumns
  <2> QED
    BY <1>1, <1>3, <1>4, <2>1, QueryFacts
<1>6. ASSUME NEW r \in Requests, NEW t \in r.include
      PROVE  /\ QP!Names(JoinOf(r.table, t).fields) \subseteq req[r.table]
             /\ QP!Names(JoinOf(r.table, t).otherFields) \subseteq req[t]
  <2>1. /\ r.table \in DOMAIN FilterLists /\ t \in IncludeFlags[r.table] /\ r.table \in Tables
        /\ JoinOf(r.table, t) \in ToGeneric(r).include
    BY <1>1, <1>2, GenericFacts, QueryFacts DEF IsRequest
  <2>2. /\ JoinOf(r.table, t).other = t /\ t \in Tables
        /\ QP!Names(JoinOf(r.table, t).fields) \subseteq DOMAIN Types[r.table]
        /\ QP!Names(JoinOf(r.table, t).otherFields) \subseteq DOMAIN Types[t]
    BY <2>1, JoinFacts
  <2> QED
    BY <1>3, <1>4, <2>1, <2>2
<1> QED
  BY <1>3, <1>5, <1>6

\* What was requested is sent by each provider; SQD may leave out the type of a
\* reward.
LEMMA SentFacts ==
    ASSUME QueryInv, stage \notin {"new", "rejected"}, NEW t \in Tables, NEW c \in req[t],
           provider = "sqd" => c # "reward_type"
    PROVE  c \in Sent(t)
<1>1. DOMAIN req = Tables /\ \A u \in Tables : req[u] \subseteq DOMAIN Types[u]
  BY ReqFacts
<1>2. CASE provider = "sqd"
  <2>1. "number" \in DOMAIN Types[t] => t = "blocks"
    BY DEF Tables, Types
  <2>2. c \in SqdColumns(t)
    <3>1. CASE c \in {"number", "block_number"}
      <4>1. "number" \in req.blocks \/ \E u \in DOMAIN req : "block_number" \in req[u]
        BY <1>1, <2>1, <3>1
      <4>2. c \in {"number", "block_number"} \cap DOMAIN Types[t]
        BY <1>1, <3>1
      <4> QED
        BY <4>1, <4>2 DEF SqdColumns
    <3>2. CASE c \notin {"number", "block_number"}
      BY <1>2, <3>2 DEF SqdColumns
    <3> QED
      BY <3>1, <3>2
  <2> QED
    BY <1>2, <2>2 DEF Sent
<1>3. CASE provider # "sqd"
  BY <1>3 DEF Sent, map_fields
<1> QED
  BY <1>2, <1>3

\* A column of a row in the chunk is that of the chain or null; the place of a trace
\* in its transaction, which no filter or join looks at, is left open.
LEMMA ReceivedFacts ==
    ASSUME NEW t \in Tables, NEW row \in Chain[t]
    PROVE  /\ Received(t, row).id = row.id
           /\ \A c \in DOMAIN Types[t] \ {"trace_address"} :
                 Received(t, row)[c] = IF c \in Sent(t) THEN row[c] ELSE Null
<1>1. DOMAIN row = DOMAIN Types[t] \cup {"id"}
  BY ChainAssumption
<1>2. "id" \notin DOMAIN Types[t]
  BY DEF Types, Tables
<1> QED
  BY <1>1, <1>2 DEF Received, MapColumn, map_hypersync_array

\* The servers send rows of the chain.
LEMMA RowsFacts ==
    ASSUME NEW t \in Tables
    PROVE  Served(t) \subseteq Chain[t]
<1>1. t \in {"transactions", "traces", "logs", "blocks"}
  BY DEF Tables, Types
<1>2. HypersyncRows(t) \subseteq Chain[t]
  <2>1. \A u : \A txs : InTxs(u, txs) \subseteq Chain[u]
    BY DEF InTxs
  <2>2. \A u : Selected(u) \subseteq Chain[u]
    BY DEF Selected
  <2>3. /\ HypersyncTransactions \subseteq Chain.transactions
        /\ HypersyncTraces \subseteq Chain.traces
        /\ HypersyncLogs \subseteq Chain.logs
    BY <2>1, <2>2 DEF HypersyncTransactions, HypersyncTraces, HypersyncLogs
  <2>4. HypersyncBlocks \subseteq Chain.blocks
    BY DEF HypersyncBlocks
  <2> QED
    BY <1>1, <2>3, <2>4 DEF HypersyncRows
<1>3. SqdRows(t) \subseteq Chain[t]
  BY DEF SqdRows
<1>4. RpcRows(t) \subseteq Chain[t]
  BY DEF RpcRows
<1> QED
  BY <1>2, <1>3, <1>4 DEF Served

\* The chunk, row by row.
LEMMA ChunkFacts ==
    ASSUME QueryInv, stage \in {"chunk", "local"}
    PROVE  /\ DOMAIN data = Tables
           /\ \A t \in Tables :
                 /\ data[t].types = Types[t]
                 /\ \A row : row \in data[t].rows <=> \E orig \in Served(t) : row = Received(t, orig)
BY DEF QueryInv, map_response, MapTable, Received

-----------------------------------------------------------------------------
\* The invariant.

\* What is worked out from the query alone changes with the query alone.
LEMMA Stable ==
    ASSUME UNCHANGED <<asked, provider>>
    PROVE  /\ evm_query_to_generic' = evm_query_to_generic
           /\ make_req_fields(evm_query_to_generic, Types)' =
                 make_req_fields(evm_query_to_generic, Types)
           /\ Requests' = Requests
           /\ \A t : AskedFor(t)' = AskedFor(t)
           /\ UNCHANGED req => map_response' = map_response
<1>1. Requests' = Requests
  BY DEF Requests
<1>2. evm_query_to_generic' = evm_query_to_generic
  BY DEF evm_query_to_generic
<1>3. make_req_fields(evm_query_to_generic, Types)' = make_req_fields(evm_query_to_generic, Types)
  BY <1>2 DEF make_req_fields, add_request_and_include_fields
<1>4. \A t : AskedFor(t)' = AskedFor(t)
  BY <1>1 DEF AskedFor
<1>5. UNCHANGED req => map_response' = map_response
  <2> SUFFICES ASSUME UNCHANGED req
               PROVE  map_response' = map_response
    OBVIOUS
  <2>1. join_mode' = join_mode
    BY <1>1 DEF join_mode
  <2>2. /\ \A t : Selected(t)' = Selected(t)
        /\ SelectedTxs' = SelectedTxs
    BY <1>1 DEF Selected, SelectedTxs
  <2>3. HypersyncTransactions' = HypersyncTransactions
    BY <2>1, <2>2 DEF HypersyncTransactions
  <2>4. HypersyncTraces' = HypersyncTraces
    BY <2>1, <2>2, <2>3 DEF HypersyncTraces
  <2>5. HypersyncLogs' = HypersyncLogs
    BY <2>1, <2>2 DEF HypersyncLogs
  <2>6. HypersyncBlocks' = HypersyncBlocks
    BY <2>1, <2>3, <2>4, <2>5 DEF HypersyncBlocks
  <2>7. \A t : HypersyncRows(t)' = HypersyncRows(t)
    BY <2>3, <2>4, <2>5, <2>6 DEF HypersyncRows
  <2>8. \A t : SqdRows(t)' = SqdRows(t) /\ RpcRows(t)' = RpcRows(t)
    BY <1>1 DEF SqdRows, RpcRows
  <2>9. \A t : Served(t)' = Served(t)
    BY <2>7, <2>8 DEF Served
  <2>10. \A t : Sent(t)' = Sent(t)
    BY DEF Sent, SqdColumns, map_fields
  <2>11. \A t, row, c : MapColumn(t, row, c)' = MapColumn(t, row, c)
    BY <2>10 DEF MapColumn, map_hypersync_array
  <2>12. \A t : MapTable(t)' = MapTable(t)
    BY <2>9, <2>11 DEF MapTable
  <2> QED
    BY <2>12 DEF map_response
<1> QED
  BY <1>1, <1>2, <1>3, <1>4, <1>5

\* The generic query and the chunk are fit for the engine.
LEMMA FitForEngine ==
    ASSUME QueryInv, stage = "chunk"
    PROVE  QP!ChunkOk /\ QP!QueryOk
<1>1. QP!ChunkOk
  <2>1. \A t \in Tables : \A c \in DOMAIN Types[t] : Types[t][c] \in {"int", "bytes", "bool", "other"}
    BY DEF Tables, Types
  <2> QED
    BY <2>1, ChunkFacts DEF QP!ChunkOk
<1>2. ASSUME NEW i \in DOMAIN query.selections, NEW inc \in query.selections[i].include
      PROVE  QP!IsList(inc.fields) /\ QP!IsList(inc.otherFields)
  <2>1. asked \in EvmQueries /\ query = evm_query_to_generic
    BY DEF QueryInv
  <2>2. query.selections[i] \in Elems(query.selections)
    BY DEF Elems
  <2>3. query.selections[i] # AllBlocks
    BY <1>2 DEF AllBlocks
  <2>4. PICK r \in Requests : query.selections[i] = ToGeneric(r)
    BY <2>1, <2>2, <2>3, QueryFacts
  <2>5. IsRequest(r)
    BY <2>1, QueryFacts
  <2>6. PICK t \in r.include : inc = JoinOf(r.table, t)
    BY <1>2, <2>4, <2>5, GenericFacts
  <2>7. r.table \in DOMAIN FilterLists /\ t \in IncludeFlags[r.table]
    BY <2>5 DEF IsRequest
  <2> QED
    BY <2>6, <2>7, JoinFacts
<1> QED
  BY <1>1, <1>2 DEF QP!QueryOk, QP!Selection

\* A query that is rejected is so for a table it cannot fetch, or by HyperSync.
LEMMA StepRejects ==
    ASSUME RejectsOnlyFutile, Next, UNCHANGED <<asked, provider>>
    PROVE  RejectsOnlyFutile'
<1>1. SUFFICES ASSUME stage' = "rejected"
               PROVE  \/ \E t \in Tables : asked.fields[t] # {} /\ AskedFor(t) = {}
                      \/ /\ provider = "hypersync"
                         /\ \E r \in Requests : /\ "status" \in DOMAIN r.filters
                                                /\ Cardinality(r.filters["status"]) > 1
  BY Stable DEF RejectsOnlyFutile
<1>2. CASE stage = "rejected"
  BY <1>2 DEF RejectsOnlyFutile
<1>3. CASE Validate
  <2>1. PICK t \in Tables : asked.fields[t] # {} /\ ~Fetched(t)
    BY <1>1, <1>3 DEF Validate
  <2>2. AskedFor(t) = {}
    BY <2>1 DEF Fetched, AskedFor
  <2> QED
    BY <2>1, <2>2
<1>4. CASE RequestFails
  BY <1>4 DEF RequestFails
<1> QED
  BY <1>1, <1>2, <1>3, <1>4 DEF Next, query_to_hypersync, evm_query_to_sqd, map_query, Respond, ColumnMistyped,
     LocalQuery, RunQuery, Over, vars

\* A step of the stream settles what its stage says, and keeps what is settled.
LEMMA StepInv ==
    ASSUME Inv, [Next]_vars
    PROVE  Inv'
<1>1. UNCHANGED <<asked, provider>>
  BY DEF Next, Validate, RequestFails, query_to_hypersync, evm_query_to_sqd, map_query, Respond, ColumnMistyped,
     LocalQuery, RunQuery, Over, vars
<1>2. QueryInv /\ EngineInv
  BY DEF Inv
<1>3. RejectsOnlyFutile'
  <2>1. CASE Next
    BY <1>1, <1>2, <2>1, StepRejects DEF QueryInv
  <2>2. CASE UNCHANGED vars
    <3>1. UNCHANGED stage
      BY <2>2 DEF vars
    <3> QED
      BY <1>1, <1>2, <3>1, Stable DEF QueryInv, RejectsOnlyFutile
  <2> QED
    BY <2>1, <2>2
<1>4. asked' \in EvmQueries
  BY <1>1, <1>2 DEF QueryInv
<1>5. CASE Validate
  <2>1. /\ stage = "new" /\ UNCHANGED output
        /\ \/ stage' = "rejected"
           \/ /\ stage' = "request" /\ query' = evm_query_to_generic
              /\ req' = make_req_fields(evm_query_to_generic, Types)
    BY <1>5 DEF Validate
  <2> QED
    BY <1>1, <1>2, <1>3, <1>4, <2>1, Stable DEF Inv, QueryInv, EngineInv
<1>6. CASE RequestFails
  <2>1. stage = "request" /\ stage' = "rejected" /\ UNCHANGED output
    BY <1>6 DEF RequestFails, engine
  <2> QED
    BY <1>2, <1>3, <1>4, <2>1 DEF Inv, QueryInv, EngineInv
<1>7. CASE query_to_hypersync \/ evm_query_to_sqd \/ map_query
  <2>1. stage = "request" /\ stage' = "await" /\ UNCHANGED <<query, req, output>>
    BY <1>7 DEF query_to_hypersync, evm_query_to_sqd, map_query, engine
  <2> QED
    BY <1>1, <1>2, <1>3, <1>4, <2>1, Stable DEF Inv, QueryInv, EngineInv
<1>8. CASE Respond
  <2>1. stage = "await" /\ stage' = "chunk" /\ data' = map_response /\ UNCHANGED <<query, req, output>>
    BY <1>8 DEF Respond
  <2> QED
    BY <1>1, <1>2, <1>3, <1>4, <2>1, Stable DEF Inv, QueryInv, EngineInv
<1>9. CASE LocalQuery
  <2>1. stage = "chunk" /\ stage' = "local" /\ UNCHANGED <<query, req, data>>
    BY <1>9 DEF LocalQuery
  <2>2. QueryInv'
    BY <1>1, <1>2, <1>3, <1>4, <2>1, Stable DEF QueryInv
  <2>3. EngineInv'
    BY <1>2, <1>9, <2>1, FitForEngine, HandOver
  <2> QED
    BY <2>2, <2>3 DEF Inv
<1>10. CASE RunQuery \/ Over \/ UNCHANGED vars
  <2>1. UNCHANGED <<stage, req, data, query>>
    BY <1>10 DEF RunQuery, Over, vars, E!RunQuery, E!RunSelection, E!SelectionError, E!Combine
  <2>2. QueryInv'
    BY <1>1, <1>2, <1>3, <1>4, <2>1, Stable DEF QueryInv
  <2>3. RunQuery \/ UNCHANGED <<stage, data, query, masks, output>>
    BY <1>10 DEF Over, vars
  <2> QED
    BY <1>2, <2>2, <2>3, EngineStep DEF Inv
<1>11. CASE ColumnMistyped
  <2>1. stage = "await" /\ stage' = "failed" /\ UNCHANGED <<query, req, output>>
    BY <1>11 DEF ColumnMistyped, engine
  <2> QED
    BY <1>1, <1>2, <1>3, <1>4, <2>1, Stable DEF Inv, QueryInv, EngineInv
<1> QED
  BY <1>5, <1>6, <1>7, <1>8, <1>9, <1>10, <1>11 DEF Next

\* What a stage has settled holds as long as the stream goes on, whatever the
\* query, the chain and the provider.
THEOREM Inductive == Spec => []Inv
<1>1. Init => Inv
  BY DEF Init, InitWith, Inv, QueryInv, EngineInv, RejectsOnlyFutile
<1>2. Inv /\ [Next]_vars => Inv'
  BY StepInv
<1> QED
  BY <1>1, <1>2, PTL DEF Spec

\* Validation turns away no query that could return rows of every table whose
\* columns it asks for, and HyperSync none but those with several statuses.
THEOREM Rejections == Spec => []RejectsOnlyFutile
<1>1. Inv => RejectsOnlyFutile
  BY DEF Inv, QueryInv
<1> QED
  BY <1>1, Inductive, PTL

-----------------------------------------------------------------------------
\* A request filters by the contract its transactions deployed.
ByDeployment(r) ==
    /\ "contract_deployment_address" \in DOMAIN r.filters
    /\ r.filters["contract_deployment_address"] # {}

\* A selection that fails has a filter by deployed contract.
LEMMA FailsOnly ==
    ASSUME Inv, stage = "local"
    PROVE  /\ DOMAIN query.fields = Tables /\ DOMAIN data = Tables
           /\ ~QP!SelectionFails(AllBlocks)
           /\ \A r \in Requests : QP!SelectionFails(ToGeneric(r)) <=> ByDeployment(r)
<1>1. /\ QueryInv /\ asked \in EvmQueries /\ query = evm_query_to_generic
      /\ DOMAIN data = Tables /\ \A t \in Tables : data[t].types = Types[t]
  BY ChunkFacts DEF Inv, QueryInv
<1>2. DOMAIN query.fields = Tables
  BY <1>1, QueryFacts, EvmQueriesAssumption
<1>3. ~QP!SelectionFails(AllBlocks)
  <2>1. "blocks" \in Tables
    BY DEF Tables, Types
  <2> QED
    BY <1>1, <2>1 DEF AllBlocks, QP!SelectionFails
<1>4. ASSUME NEW r \in Requests
      PROVE  QP!SelectionFails(ToGeneric(r)) <=> ByDeployment(r)
  <2>1. IsRequest(r) /\ r.table \in Tables
    BY <1>1, QueryFacts
  <2>2. ToGeneric(r).table = r.table
    BY <2>1, GenericFacts
  <2>3. ASSUME NEW inc \in ToGeneric(r).include
        PROVE  /\ Len(inc.fields) = Len(inc.otherFields) /\ inc.other \in Tables
               /\ QP!Names(inc.fields) \subseteq QP!Columns(r.table)
               /\ QP!Names(inc.otherFields) \subseteq QP!Columns(inc.other)
    <3>1. PICK t \in r.include : inc = JoinOf(r.table, t)
      BY <2>1, <2>3, GenericFacts
    <3>2. r.table \in DOMAIN FilterLists /\ t \in IncludeFlags[r.table]
      BY <2>1 DEF IsRequest
    <3> QED
      BY <1>1, <2>1, <3>1, <3>2, JoinFacts DEF QP!Columns
  <2>4. ASSUME NEW c \in DOMAIN ToGeneric(r).filters, c # "contract_deployment_address"
        PROVE  /\ c \in QP!Columns(r.table)
               /\ QP!Fits(ToGeneric(r).filters[c], data[r.table].types[c])
    BY <1>1, <2>1, <2>4, GenericFacts, FilterColumns DEF QP!Columns
  <2>5. QP!SelectionFails(ToGeneric(r)) <=>
           \E c \in DOMAIN ToGeneric(r).filters :
              c \notin QP!Columns(r.table) \/ ~QP!Fits(ToGeneric(r).filters[c], data[r.table].types[c])
    BY <1>1, <2>1, <2>2, <2>3 DEF QP!SelectionFails
  <2>6. ByDeployment(r) <=> "contract_deployment_address" \in DOMAIN ToGeneric(r).filters
    BY <2>1, GenericFacts DEF ByDeployment
  <2>7. "contract_deployment_address" \notin QP!Columns(r.table)
    BY <1>1, <2>1 DEF QP!Columns, Tables, Types
  <2> QED
    BY <2>4, <2>5, <2>6, <2>7
<1> QED
  BY <1>1, <1>2, <1>3, <1>4

\* The columns that filters and joins look at are in the chunk, of the types the
\* engine filters: a local query fails by a filter on deployed contracts alone.
THEOREM Failures == Spec => []FailsOnlyByDeployment
<1>1. ASSUME Inv
      PROVE  FailsOnlyByDeployment
  <2> SUFFICES ASSUME output.state = "error"
               PROVE  \E r \in Requests : ByDeployment(r)
    BY DEF FailsOnlyByDeployment, ByDeployment
  <2>1. EngineInv /\ asked \in EvmQueries
    BY <1>1 DEF Inv, QueryInv
  <2>2. stage = "local" /\ query = evm_query_to_generic
    BY <1>1, <2>1, EngineError DEF Inv, QueryInv
  <2>3. PICK sel \in Elems(query.selections) : QP!SelectionFails(sel)
    BY <1>1, <2>1, <2>2, EngineError, FailsOnly
  <2>4. sel # AllBlocks
    BY <1>1, <2>2, <2>3, FailsOnly
  <2>5. PICK r \in Requests : sel = ToGeneric(r)
    BY <2>1, <2>2, <2>4, QueryFacts
  <2> QED
    BY <1>1, <2>2, <2>3, <2>5, FailsOnly
<1> QED
  BY <1>1, Inductive, PTL

-----------------------------------------------------------------------------
\* What is known once a local query has succeeded.
LEMMA OkFacts ==
    ASSUME Inv, Ok
    PROVE  /\ QueryInv /\ EngineInv /\ asked \in EvmQueries
           /\ stage = "local" /\ query = evm_query_to_generic
           /\ \A r \in Requests :
                 /\ IsRequest(r) /\ ~ByDeployment(r)
                 /\ r.table \in Tables \ {"blocks"}
                 /\ ToGeneric(r) \in Elems(query.selections)
<1>1. QueryInv /\ EngineInv /\ asked \in EvmQueries
  BY DEF Inv, QueryInv
<1>2. stage = "local" /\ \A sel \in Elems(query.selections) : ~QP!SelectionFails(sel)
  BY <1>1, EngineOk
<1>3. query = evm_query_to_generic
  BY <1>1, <1>2 DEF QueryInv
<1>4. ASSUME NEW r \in Requests
      PROVE  /\ IsRequest(r) /\ r.table \in Tables \ {"blocks"}
             /\ ToGeneric(r) \in Elems(query.selections)
  BY <1>1, <1>3, QueryFacts
<1> QED
  BY <1>1, <1>2, <1>3, <1>4, FailsOnly

\* What the documentation says of a row, list by list.
LEMMA MatchingIs ==
    ASSUME Inv, Ok, NEW r \in Requests, NEW orig \in Chain[r.table]
    PROVE  orig \in MatchingRows(r) <=>
              \A c \in DOMAIN r.filters : r.filters[c] # {} => orig[c] \in r.filters[c]
<1>1. IsRequest(r) /\ ~ByDeployment(r)
  BY OkFacts
<1>2. \A c \in DOMAIN r.filters : r.filters[c] # {} => Column(c) = c
  BY <1>1 DEF ByDeployment, Column
<1> QED
  BY <1>2 DEF MatchingRows, Matches

\* What a filter accepts: a value that is listed, and not a null.
LEMMA AcceptsIs ==
    ASSUME NEW r, NEW c, NEW v
    PROVE  QP!Accepts(FilterOf(r, c), v) <=> v # Null /\ v \in r.filters[c]
<1>1. FilterOf(r, c).kind = "contains" /\ FilterOf(r, c).values = r.filters[c]
  BY DEF FilterOf
<1> QED
  BY <1>1 DEF QP!Accepts

\* A row that passes the local filters matches: a column that was not sent is
\* null, which no list has.
LEMMA PassesOnlyMatching ==
    ASSUME Inv, Ok, NEW r \in Requests, NEW orig \in Chain[r.table],
           QP!Passes(ToGeneric(r), Received(r.table, orig))
    PROVE  orig \in MatchingRows(r)
<1>1. IsRequest(r) /\ r.table \in Tables /\ ~ByDeployment(r)
  BY OkFacts
<1>2. ASSUME NEW c \in DOMAIN r.filters, r.filters[c] # {}
      PROVE  orig[c] \in r.filters[c]
  <2>1. c \in DOMAIN ToGeneric(r).filters /\ ToGeneric(r).filters[c] = FilterOf(r, c)
    BY <1>1, <1>2, GenericFacts
  <2>2. c \in DOMAIN Types[r.table] /\ c # "trace_address"
    BY <1>1, <1>2, FilterColumns DEF ByDeployment
  <2>3. QP!Accepts(FilterOf(r, c), Received(r.table, orig)[c])
    BY <2>1 DEF QP!Passes
  <2>4. Received(r.table, orig)[c] # Null /\ Received(r.table, orig)[c] \in r.filters[c]
    BY <2>3, AcceptsIs
  <2> QED
    BY <1>1, <2>2, <2>4, ReceivedFacts
<1> QED
  BY <1>2, MatchingIs

\* A row that matches passes them, as every list's column is sent; SQD sends the
\* type of a reward with its author only.
LEMMA MatchingPasses ==
    ASSUME Inv, Ok, ~SqdShortfall, NEW r \in Requests, NEW orig \in MatchingRows(r)
    PROVE  QP!Passes(ToGeneric(r), Received(r.table, orig))
<1>1. IsRequest(r) /\ r.table \in Tables /\ ~ByDeployment(r) /\ QueryInv /\ stage = "local"
  BY OkFacts
<1>2. orig \in Chain[r.table]
  BY DEF MatchingRows
<1>3. ASSUME NEW c \in DOMAIN ToGeneric(r).filters
      PROVE  QP!Accepts(ToGeneric(r).filters[c], Received(r.table, orig)[c])
  <2>1. /\ c \in DOMAIN r.filters /\ r.filters[c] # {}
        /\ ToGeneric(r).filters[c] = FilterOf(r, c)
    BY <1>1, GenericFacts
  <2>2. c # "contract_deployment_address"
    BY <1>1, <2>1 DEF ByDeployment
  <2>3. c \in DOMAIN Types[r.table] /\ c \in req[r.table] /\ c # "trace_address"
    BY <1>1, <2>1, <2>2, FilterColumns, ReqFacts
  <2>4. provider = "sqd" => c # "reward_type"
    <3>1. c = "reward_type" => r.table = "traces"
      BY <1>1, <2>3 DEF Tables, Types
    <3> QED
      BY <2>1, <3>1 DEF SqdShortfall, Lists
  <2>5. c \in Sent(r.table)
    BY <1>1, <2>3, <2>4, SentFacts
  <2>6. Received(r.table, orig)[c] = orig[c]
    BY <1>1, <1>2, <2>3, <2>5, ReceivedFacts
  <2>7. orig[c] \in r.filters[c]
    BY <1>2, <2>1, MatchingIs
  <2>8. Null \notin r.filters[c]
    BY <1>1, <2>1 DEF IsRequest
  <2> QED
    BY <2>1, <2>6, <2>7, <2>8, AcceptsIs
<1> QED
  BY <1>3 DEF QP!Passes

\* The columns of a join are in the chunk as they are in the chain.
LEMMA KeySeen ==
    ASSUME Inv, Ok, NEW r \in Requests, NEW t \in r.include,
           NEW src \in Chain[r.table], NEW row \in Chain[t]
    PROVE  /\ t \in Tables
           /\ \A i \in DOMAIN JoinOf(r.table, t).fields :
                 /\ Received(r.table, src)[JoinOf(r.table, t).fields[i]] =
                       src[JoinOf(r.table, t).fields[i]]
                 /\ Received(t, row)[JoinOf(r.table, t).otherFields[i]] =
                       row[JoinOf(r.table, t).otherFields[i]]
<1> DEFINE inc == JoinOf(r.table, t)
<1>1. IsRequest(r) /\ r.table \in Tables /\ QueryInv /\ stage = "local"
  BY OkFacts
<1>2. r.table \in DOMAIN FilterLists /\ t \in IncludeFlags[r.table]
  BY <1>1 DEF IsRequest
<1>3. /\ t \in Tables /\ DOMAIN inc.fields = DOMAIN inc.otherFields
      /\ {"reward_type", "trace_address"} \cap (QP!Names(inc.fields) \cup QP!Names(inc.otherFields)) = {}
  BY <1>2, JoinFacts
<1>4. QP!Names(inc.fields) \subseteq req[r.table] /\ QP!Names(inc.otherFields) \subseteq req[t]
  BY <1>1, ReqFacts
<1>5. ASSUME NEW u \in Tables, NEW c \in req[u], c \notin {"reward_type", "trace_address"}, NEW orig \in Chain[u]
      PROVE  Received(u, orig)[c] = orig[c]
  <2>1. c \in Sent(u) /\ c \in DOMAIN Types[u]
    BY <1>1, <1>5, SentFacts, ReqFacts
  <2> QED
    BY <1>5, <2>1, ReceivedFacts
<1> HIDE DEF inc
<1>6. ASSUME NEW i \in DOMAIN inc.fields
      PROVE  inc.fields[i] \in QP!Names(inc.fields) /\ inc.otherFields[i] \in QP!Names(inc.otherFields)
  BY <1>3 DEF QP!Names
<1>7. \A i \in DOMAIN inc.fields :
         /\ Received(r.table, src)[inc.fields[i]] = src[inc.fields[i]]
         /\ Received(t, row)[inc.otherFields[i]] = row[inc.otherFields[i]]
  BY <1>1, <1>3, <1>4, <1>5, <1>6
<1> QED
  BY <1>3, <1>7 DEF inc

\* Rows that belong together: of one block, or of one transaction.
Belongs(from, src, t, row) ==
    IF t = "blocks" THEN row.number = src.block_number ELSE TxOf(t, row) = TxOf(from, src)

\* They share the key of the local join, and no others do.
LEMMA SharedKey ==
    ASSUME NEW from, NEW t, NEW src, NEW row
    PROVE  Belongs(from, src, t, row) <=>
              \A i \in DOMAIN JoinOf(from, t).fields :
                 src[JoinOf(from, t).fields[i]] = row[JoinOf(from, t).otherFields[i]]
<1>1. CASE t = "blocks"
  <2>1. JoinOf(from, t).fields = <<"block_number">> /\ JoinOf(from, t).otherFields = <<"number">>
    BY <1>1 DEF JoinOf, OnBlock
  <2>2. Belongs(from, src, t, row) <=> row.number = src.block_number
    BY <1>1 DEF Belongs
  <2> QED
    BY <2>1, <2>2
<1>2. CASE t # "blocks"
  <2>1. /\ JoinOf(from, t).fields = <<"block_number", Position(from)>>
        /\ JoinOf(from, t).otherFields = <<"block_number", Position(t)>>
    BY <1>2 DEF JoinOf, On
  <2>2. Belongs(from, src, t, row) <=>
           row.block_number = src.block_number /\ row[Position(t)] = src[Position(from)]
    BY <1>2 DEF Belongs, TxOf
  <2> QED
    BY <2>1, <2>2
<1> QED
  BY <1>1, <1>2

\* What is included is what belongs to a row that matches.
LEMMA IncludedIs ==
    ASSUME NEW r, NEW t, NEW row
    PROVE  row \in Included(r, t) <=>
              /\ row \in Chain[t] /\ (t # "blocks" => row[Position(t)] # Null)
              /\ \E src \in MatchingRows(r) : Belongs(r.table, src, t, row)
BY DEF Included, Belongs

\* Nothing is returned that was not asked for: rows that a server without the
\* filter, or a join made for another request, brings along are filtered out, other
\* than rows in no transaction that share the null with one that matches.
THEOREM Soundness == Spec => []PushdownSound
<1>1. ASSUME Inv
      PROVE  PushdownSound
  <2> SUFFICES ASSUME Ok, NEW t \in Tables,
                      t \in DOMAIN output.tables, NEW row \in output.tables[t].rows
               PROVE  \E orig \in AskedFor(t) \cup JoinedByNull(t) : orig.id = row.id
    BY DEF PushdownSound, Got, Ids
  <2>1. QueryInv /\ EngineInv /\ asked \in EvmQueries /\ stage = "local" /\ query = evm_query_to_generic
    BY <1>1, OkFacts
  <2>2. /\ row \in data[t].rows
        /\ \E sel \in Elems(query.selections) : Asks(sel, t, row)
    BY <2>1, EngineOk
  <2>3. PICK sel \in Elems(query.selections) : Asks(sel, t, row)
    BY <2>2
  <2>4. PICK orig \in Served(t) : row = Received(t, orig)
    BY <2>1, <2>2, ChunkFacts
  <2>5. orig \in Chain[t] /\ orig.id = row.id
    BY <2>4, RowsFacts, ReceivedFacts
  <2>6. SUFFICES orig \in AskedFor(t) \cup JoinedByNull(t)
    BY <2>5
  <2>7. CASE t = "blocks" /\ asked.include_all_blocks
    BY <2>5, <2>7 DEF AskedFor
  <2>8. CASE ~(t = "blocks" /\ asked.include_all_blocks)
    <3>1. sel # AllBlocks \/ ~asked.include_all_blocks
      BY <2>3, <2>8 DEF Asks, QP!Asks, AllBlocks
    <3>2. PICK r \in Requests : sel = ToGeneric(r)
      BY <2>1, <3>1, QueryFacts
    <3>3. IsRequest(r) /\ r.table \in Tables /\ ToGeneric(r).table = r.table
      BY <1>1, OkFacts, GenericFacts
    <3>4. CASE r.table = t /\ QP!Passes(ToGeneric(r), row)
      BY <1>1, <2>4, <2>5, <3>4, PassesOnlyMatching DEF AskedFor
    <3>5. ASSUME NEW inc \in ToGeneric(r).include, inc.other = t, QP!Joins(ToGeneric(r), inc, row)
          PROVE  orig \in AskedFor(t) \cup JoinedByNull(t)
      <4>1. PICK u \in r.include : inc = JoinOf(r.table, u)
        BY <3>3, <3>5, GenericFacts
      <4>2. u = t
        BY <3>3, <3>5, <4>1, JoinFacts DEF IsRequest
      <4>3. PICK drow \in data[r.table].rows :
               /\ QP!Passes(ToGeneric(r), drow)
               /\ \A i \in DOMAIN inc.fields : drow[inc.fields[i]] = row[inc.otherFields[i]]
        BY <3>3, <3>5 DEF QP!Joins
      <4>4. PICK src \in Served(r.table) : drow = Received(r.table, src)
        BY <2>1, <3>3, ChunkFacts
      <4>5. src \in Chain[r.table]
        BY <3>3, RowsFacts
      <4>6. src \in MatchingRows(r)
        BY <1>1, <4>3, <4>4, <4>5, PassesOnlyMatching
      <4>7. \A i \in DOMAIN inc.fields : src[inc.fields[i]] = orig[inc.otherFields[i]]
        BY <1>1, <2>4, <2>5, <4>1, <4>2, <4>3, <4>4, <4>5, KeySeen
      <4>8. Belongs(r.table, src, t, orig)
        BY <4>1, <4>2, <4>7, SharedKey
      <4>9. CASE t # "blocks" /\ orig[Position(t)] = Null
        <5>1. TxOf(t, orig) = TxOf(r.table, src)
          BY <4>8, <4>9 DEF Belongs
        <5> QED
          BY <2>5, <4>2, <4>6, <4>9, <5>1 DEF JoinedByNull
      <4>10. CASE t = "blocks" \/ orig[Position(t)] # Null
        <5>1. orig \in Included(r, t)
          BY <2>5, <4>6, <4>8, <4>10, IncludedIs
        <5> QED
          BY <2>5, <4>2, <5>1 DEF AskedFor
      <4> QED
        BY <4>9, <4>10
    <3> QED
      BY <2>3, <3>2, <3>3, <3>4, <3>5 DEF Asks, QP!Asks
  <2> QED
    BY <2>7, <2>8
<1> QED
  BY <1>1, Inductive, PTL

-----------------------------------------------------------------------------
\* What the servers send.  Each sends the rows that match a request, and those of
\* the transaction or of the block of such a row that a flag asks for.

\* The tables of what happens in a block.
LEMMA TxTablesAre == TxTables = {"transactions", "traces", "logs"}
BY DEF TxTables, Tables, Types

\* Rows of the same transaction.
LEMMA InTxsIs ==
    ASSUME NEW t, NEW row \in Chain[t], row[Position(t)] # Null,
           NEW from, NEW rows, NEW src \in rows, TxOf(t, row) = TxOf(from, src)
    PROVE  /\ TxOf(from, src) \in TxsOf(from, rows)
           /\ \A txs : TxOf(from, src) \in txs => row \in InTxs(t, txs)
<1>1. src[Position(from)] # Null
  BY DEF TxOf
<1> QED
  BY <1>1 DEF TxsOf, InTxs

\* HyperSync selects the rows that match: it has every list's filter but one.
LEMMA HypersyncMatches ==
    ASSUME NEW r \in Requests, NEW orig \in MatchingRows(r)
    PROVE  orig \in Selected(r.table)
<1>1. Matches(HypersyncFilters(r), orig)
  BY DEF MatchingRows, Matches, HypersyncFilters
<1> QED
  BY <1>1 DEF Selected, MatchingRows

\* The join mode is wide enough for each flag that is set.
LEMMA JoinModeIs ==
    ASSUME NEW r \in Requests, NEW t \in r.include
    PROVE  /\ join_mode \in {"JoinAll", "Default"}
           /\ t = "logs" \/ (r.table = "traces" /\ t # "blocks" /\ t \in IncludeFlags["traces"])
                 => join_mode = "JoinAll"
BY DEF join_mode, IncludeFlags

\* HyperSync joins the rows of a selected row's transaction, through its
\* transaction by default.
LEMMA HypersyncJoins ==
    ASSUME NEW r \in Requests, IsRequest(r), NEW t \in r.include, t # "blocks",
           NEW src \in Selected(r.table),
           NEW row \in Chain[t], row[Position(t)] # Null, TxOf(t, row) = TxOf(r.table, src)
    PROVE  row \in [transactions |-> HypersyncTransactions, traces |-> HypersyncTraces,
                    logs |-> HypersyncLogs][t]
<1>1. /\ r.table \in {"transactions", "traces", "logs"} /\ t \in IncludeFlags[r.table]
      /\ t \in {"transactions", "traces", "logs"}
  BY DEF IsRequest, FilterLists, IncludeFlags
<1>2. TxOf(r.table, src) \in TxsOf(r.table, Selected(r.table))
  BY InTxsIs
<1>3. \A txs : TxOf(r.table, src) \in txs => row \in InTxs(t, txs)
  BY InTxsIs
<1>4. CASE join_mode = "JoinAll"
  <2>1. TxOf(r.table, src) \in SelectedTxs
    BY <1>1, <1>2, TxTablesAre DEF SelectedTxs
  <2>2. row \in InTxs(t, SelectedTxs)
    BY <1>3, <2>1
  <2> QED
    BY <1>1, <1>4, <2>2 DEF HypersyncTransactions, HypersyncTraces, HypersyncLogs
<1>5. CASE join_mode = "Default"
  <2>1. t # "logs" /\ r.table # "traces"
    BY <1>1, <1>5, JoinModeIs
  <2>2. CASE r.table = "transactions"
    <3>1. t = "traces"
      BY <1>1, <2>1, <2>2 DEF IncludeFlags
    <3>2. src \in HypersyncTransactions
      BY <2>2 DEF HypersyncTransactions
    <3>3. TxOf(r.table, src) \in TxsOf("transactions", HypersyncTransactions)
      BY <2>2, <3>2, InTxsIs
    <3>4. row \in InTxs("traces", TxsOf("transactions", HypersyncTransactions))
      BY <1>3, <3>1, <3>3
    <3> QED
      BY <1>5, <3>1, <3>4 DEF HypersyncTraces
  <2>3. CASE r.table = "logs" /\ t = "transactions"
    <3>1. row \in InTxs("transactions", TxsOf("logs", Selected("logs")))
      BY <1>2, <1>3, <2>3
    <3> QED
      BY <1>5, <2>3, <3>1 DEF HypersyncTransactions
  <2>4. CASE r.table = "logs" /\ t = "traces"
    <3>1. src \in Chain.logs
      BY <2>4 DEF Selected
    <3>2. PICK tx \in Chain.transactions :
             tx.block_number = src.block_number /\ tx.transaction_index = src.transaction_index
      BY <3>1, ChainAssumption
    <3>3. TxOf("transactions", tx) = TxOf("logs", src) /\ tx[Position("transactions")] # Null
      BY <3>2, ChainAssumption DEF TxOf, Position
    <3>4. tx \in InTxs("transactions", TxsOf("logs", Selected("logs")))
      BY <1>2, <2>4, <3>3 DEF InTxs
    <3>5. tx \in HypersyncTransactions
      BY <1>5, <3>4 DEF HypersyncTransactions
    <3>6. TxOf(r.table, src) \in TxsOf("transactions", HypersyncTransactions)
      BY <2>4, <3>3, <3>5 DEF TxsOf
    <3>7. row \in InTxs("traces", TxsOf("transactions", HypersyncTransactions))
      BY <1>3, <2>4, <3>6
    <3> QED
      BY <1>5, <2>4, <3>7 DEF HypersyncTraces
  <2> QED
    BY <1>1, <2>1, <2>2, <2>3, <2>4
<1> QED
  BY <1>4, <1>5, JoinModeIs

\* HyperSync sends what a request matches and what its flags ask for, of the
\* tables a column is requested of.
LEMMA HypersyncSends ==
    ASSUME NEW r \in Requests, IsRequest(r), NEW src \in MatchingRows(r)
    PROVE  /\ req[r.table] # {} => src \in HypersyncRows(r.table)
           /\ \A t \in r.include : \A row \in Chain[t] :
                 /\ req[t] # {} /\ Belongs(r.table, src, t, row)
                 /\ t # "blocks" => row[Position(t)] # Null
                 => row \in HypersyncRows(t)
<1>1. src \in Selected(r.table)
  BY HypersyncMatches
<1>2. r.table \in {"transactions", "traces", "logs"}
  BY DEF IsRequest, FilterLists
<1>3. src \in [transactions |-> HypersyncTransactions, traces |-> HypersyncTraces,
               logs |-> HypersyncLogs][r.table]
  BY <1>1, <1>2 DEF HypersyncTransactions, HypersyncTraces, HypersyncLogs
<1>4. req[r.table] # {} => src \in HypersyncRows(r.table)
  BY <1>2, <1>3 DEF HypersyncRows
<1>5. ASSUME NEW t \in r.include, NEW row \in Chain[t], req[t] # {}, Belongs(r.table, src, t, row),
             t # "blocks" => row[Position(t)] # Null
      PROVE  row \in HypersyncRows(t)
  <2>1. CASE t = "blocks"
    <3>1. row.number \in {x.block_number :
             x \in HypersyncTransactions \cup HypersyncTraces \cup HypersyncLogs}
      BY <1>2, <1>3, <1>5, <2>1 DEF Belongs
    <3>2. join_mode # "JoinNothing"
      BY JoinModeIs
    <3>3. row \in HypersyncBlocks
      BY <1>5, <2>1, <3>1, <3>2 DEF HypersyncBlocks
    <3> QED
      BY <1>5, <2>1, <3>3 DEF HypersyncRows
  <2>2. CASE t # "blocks"
    <3>1. t \in {"transactions", "traces", "logs"}
      BY <1>2, <2>2 DEF IsRequest, IncludeFlags
    <3>2. row \in [transactions |-> HypersyncTransactions, traces |-> HypersyncTraces,
                   logs |-> HypersyncLogs][t]
      BY <1>1, <1>5, <2>2, HypersyncJoins DEF Belongs
    <3> QED
      BY <1>5, <3>1, <3>2 DEF HypersyncRows
  <2> QED
    BY <2>1, <2>2
<1> QED
  BY <1>4, <1>5

\* SQD finds what matches, traces by address apart.
LEMMA SqdFinds ==
    ASSUME Inv, Ok, provider = "sqd", ~SqdShortfall, NEW r \in Requests, NEW orig \in MatchingRows(r)
    PROVE  SqdMatches(r, orig)
<1>1. ASSUME NEW c \in DOMAIN SqdFilters(r), r.filters[c] # {}
      PROVE  orig[IF r.table = "traces" /\ c = "address" THEN "refund_address" ELSE c] \in r.filters[c]
  <2>1. c \in DOMAIN r.filters
    BY DEF SqdFilters
  <2>2. ~(r.table = "traces" /\ c = "address")
    BY <1>1, <2>1 DEF SqdShortfall, Lists
  <2>3. orig \in Chain[r.table]
    BY DEF MatchingRows
  <2>4. orig[c] \in r.filters[c]
    BY <1>1, <2>1, <2>3, MatchingIs
  <2> QED
    BY <2>2, <2>4
<1> QED
  BY <1>1 DEF SqdMatches

\* SQD sends what a request matches and what its flags ask for, the block included.
LEMMA SqdSends ==
    ASSUME Inv, Ok, provider = "sqd", ~SqdShortfall, NEW r \in Requests, NEW src \in MatchingRows(r)
    PROVE  /\ src \in SqdRows(r.table)
           /\ \A t \in r.include : \A row \in Chain[t] :
                 /\ Belongs(r.table, src, t, row)
                 /\ t # "blocks" => row[Position(t)] # Null
                 => row \in SqdRows(t)
<1> DEFINE matched(q) == {row \in Chain[q.table] : SqdMatches(q, row)}
           rows(u)    == {row \in Chain[u] : \E q \in Requests :
                            \/ q.table = u /\ row \in matched(q)
                            \/ u \in SqdIncludes(q) /\ \E s \in matched(q) : row \in SqdJoined(q, s, u)}
           nos        == {row.block_number : row \in UNION {rows(u) : u \in TxTables}}
<1>1. /\ \A t : t # "blocks" => SqdRows(t) = rows(t)
      /\ SqdRows("blocks") = {row \in Chain.blocks : asked.include_all_blocks \/ row.number \in nos}
  BY DEF SqdRows
<1>2. IsRequest(r) /\ r.table # "blocks" /\ r.table \in TxTables
  BY OkFacts DEF TxTables
<1>3. src \in matched(r)
  BY SqdFinds DEF MatchingRows
<1>4. src \in rows(r.table)
  BY <1>3
<1>5. ASSUME NEW t \in r.include, NEW row \in Chain[t], Belongs(r.table, src, t, row),
             t # "blocks" => row[Position(t)] # Null
      PROVE  row \in SqdRows(t)
  <2>1. CASE t = "blocks"
    <3> HIDE DEF rows
    <3>1. row.number \in nos
      BY <1>2, <1>4, <1>5, <2>1 DEF Belongs
    <3> QED
      BY <1>1, <1>5, <2>1, <3>1
  <2>2. CASE t # "blocks"
    <3>1. t \in SqdIncludes(r)
      BY <1>5, <2>2 DEF SqdIncludes
    <3>2. ~(r.table = "traces" /\ t = "traces")
      BY <1>5 DEF SqdShortfall
    <3>3. row \in InTxs(t, TxsOf(r.table, {src}))
      BY <1>5, <2>2, InTxsIs DEF Belongs
    <3>4. row \in SqdJoined(r, src, t)
      BY <3>2, <3>3 DEF SqdJoined
    <3>5. row \in rows(t)
      BY <1>3, <1>5, <3>1, <3>4
    <3> HIDE DEF rows
    <3> QED
      BY <1>1, <2>2, <3>5
  <2> QED
    BY <2>1, <2>2
<1> HIDE DEF rows
<1> QED
  BY <1>1, <1>2, <1>4, <1>5

\* An RPC node sends what a request matches and what its flags ask for.
LEMMA RpcSends ==
    ASSUME NEW r \in Requests, NEW src \in MatchingRows(r)
    PROVE  /\ src \in RpcRows(r.table)
           /\ \A t \in r.include : \A row \in Chain[t] :
                 /\ Belongs(r.table, src, t, row)
                 /\ t # "blocks" => row[Position(t)] # Null
                 => row \in RpcRows(t)
<1>1. src \in {row \in Chain[r.table] : Matches(r.filters, row)}
  BY DEF MatchingRows
<1>2. src \in RpcRows(r.table)
  BY <1>1 DEF RpcRows
<1>3. ASSUME NEW t \in r.include, NEW row \in Chain[t], Belongs(r.table, src, t, row),
             t # "blocks" => row[Position(t)] # Null
      PROVE  row \in RpcRows(t)
  <2>1. CASE t = "blocks"
    BY <1>1, <1>3, <2>1 DEF RpcRows, Belongs
  <2>2. CASE t # "blocks"
    <3> DEFINE m == {x \in Chain[r.table] : Matches(r.filters, x)}
    <3>1. row \in InTxs(t, TxsOf(r.table, m))
      BY <1>1, <1>3, <2>2, InTxsIs DEF Belongs
    <3> QED
      BY <1>3, <2>2, <3>1 DEF RpcRows
  <2> QED
    BY <2>1, <2>2
<1> QED
  BY <1>2, <1>3

\* Each provider does, of the tables a column is requested of.
LEMMA Sends ==
    ASSUME Inv, Ok, ~SqdShortfall, NEW r \in Requests, NEW src \in MatchingRows(r)
    PROVE  /\ req[r.table] # {} => src \in Served(r.table)
           /\ \A t \in r.include : \A row \in Chain[t] :
                 /\ req[t] # {} /\ Belongs(r.table, src, t, row)
                 /\ t # "blocks" => row[Position(t)] # Null
                 => row \in Served(t)
<1>1. IsRequest(r)
  BY OkFacts
<1>2. CASE provider = "hypersync"
  <2>1. \A t : Served(t) = HypersyncRows(t)
    BY <1>2 DEF Served
  <2> QED
    BY <1>1, <2>1, HypersyncSends
<1>3. CASE provider = "sqd"
  <2>1. \A t : Served(t) = SqdRows(t)
    BY <1>3 DEF Served
  <2> QED
    BY <1>3, <2>1, SqdSends
<1>4. CASE provider \notin {"hypersync", "sqd"}
  <2>1. \A t : Served(t) = RpcRows(t)
    BY <1>4 DEF Served
  <2> QED
    BY <2>1, RpcSends
<1> QED
  BY <1>2, <1>3, <1>4

-----------------------------------------------------------------------------
\* No filter of an EVM query is on a flag, so that nulls are never in the way.
LEMMA NoNullMet ==
    ASSUME Inv, Ok, NEW sel \in Elems(query.selections), NEW t, NEW row
    PROVE  ~NullMet(sel, t, row)
<1>1. asked \in EvmQueries /\ query = evm_query_to_generic
  BY OkFacts
<1>2. SUFFICES ASSUME NEW c \in DOMAIN sel.filters, sel.filters[c].kind = "bool"
               PROVE  FALSE
  BY DEF NullMet, QP!NullMet
<1>3. sel # AllBlocks
  BY <1>2 DEF AllBlocks
<1>4. PICK r \in Requests : sel = ToGeneric(r)
  BY <1>1, <1>3, QueryFacts
<1>5. sel.filters[c] = FilterOf(r, c)
  BY <1>2, <1>4, OkFacts, GenericFacts
<1> QED
  BY <1>2, <1>5 DEF FilterOf

\* The local join finds what belongs to a row that matches.
LEMMA JoinAsks ==
    ASSUME Inv, Ok, ~SqdShortfall, NEW r \in Requests, NEW src \in MatchingRows(r),
           NEW t \in r.include, NEW row \in Chain[t], Belongs(r.table, src, t, row)
    PROVE  Asks(ToGeneric(r), t, Received(t, row))
<1> DEFINE inc == JoinOf(r.table, t)
<1>1. QueryInv /\ stage = "local" /\ IsRequest(r) /\ r.table \in Tables
  BY OkFacts
<1>2. ToGeneric(r).table = r.table /\ inc \in ToGeneric(r).include
  BY <1>1, GenericFacts
<1>3. inc.other = t /\ "block_number" \in QP!Names(inc.fields)
  BY <1>1, JoinFacts DEF IsRequest
<1>4. req[r.table] # {}
  BY <1>1, <1>3, ReqFacts
<1>5. src \in Chain[r.table] /\ src \in Served(r.table)
  BY <1>4, Sends DEF MatchingRows
<1>6. Received(r.table, src) \in data[r.table].rows
  BY <1>1, <1>5, ChunkFacts
<1>7. QP!Passes(ToGeneric(r), Received(r.table, src))
  BY MatchingPasses
<1>8. \A i \in DOMAIN inc.fields :
         Received(r.table, src)[inc.fields[i]] = Received(t, row)[inc.otherFields[i]]
  BY <1>5, KeySeen, SharedKey
<1> HIDE DEF inc
<1>9. QP!Joins(ToGeneric(r), inc, Received(t, row))
  BY <1>2, <1>6, <1>7, <1>8 DEF QP!Joins
<1> QED
  BY <1>2, <1>3, <1>9 DEF Asks, QP!Asks

\* Nothing the caller asked for is lost between a server's filters and joins, the
\* columns requested and the local query, with any of the three providers.
THEOREM Completeness == Spec => []PushdownComplete
<1>1. ASSUME Inv
      PROVE  PushdownComplete
  <2> SUFFICES ASSUME Ok, ~SqdShortfall, NEW t \in Tables, req[t] # {},
                      NEW orig \in AskedFor(t)
               PROVE  orig.id \in Got(t)
    BY DEF PushdownComplete, Ids
  <2>1. QueryInv /\ EngineInv /\ asked \in EvmQueries /\ stage = "local" /\ query = evm_query_to_generic
    BY <1>1, OkFacts
  <2>2. orig \in Chain[t]
    BY DEF AskedFor
  <2>3. /\ orig \in Served(t)
        /\ \E sel \in Elems(query.selections) : Asks(sel, t, Received(t, orig))
    <3>1. CASE t = "blocks" /\ asked.include_all_blocks
      <4>1. orig \in HypersyncRows(t) /\ orig \in SqdRows(t) /\ orig \in RpcRows(t)
        BY <2>2, <3>1 DEF HypersyncRows, HypersyncBlocks, SqdRows, RpcRows
      <4>2. AllBlocks \in Elems(query.selections)
        BY <2>1, <3>1, QueryFacts
      <4>3. Asks(AllBlocks, t, Received(t, orig))
        BY <3>1 DEF Asks, QP!Asks, AllBlocks, QP!Passes
      <4> QED
        BY <4>1, <4>2, <4>3 DEF Served
    <3>2. ASSUME NEW r \in Requests, r.table = t, orig \in MatchingRows(r)
          PROVE  /\ orig \in Served(t)
                 /\ \E sel \in Elems(query.selections) : Asks(sel, t, Received(t, orig))
      <4>1. orig \in Served(t) /\ QP!Passes(ToGeneric(r), Received(t, orig))
        BY <1>1, <3>2, Sends, MatchingPasses
      <4>2. ToGeneric(r) \in Elems(query.selections) /\ ToGeneric(r).table = t
        BY <1>1, <3>2, OkFacts, GenericFacts
      <4> QED
        BY <4>1, <4>2 DEF Asks, QP!Asks
    <3>3. ASSUME NEW r \in Requests, t \in r.include, orig \in Included(r, t)
          PROVE  /\ orig \in Served(t)
                 /\ \E sel \in Elems(query.selections) : Asks(sel, t, Received(t, orig))
      <4>1. PICK src \in MatchingRows(r) : Belongs(r.table, src, t, orig)
        BY <3>3, IncludedIs
      <4>2. t = "blocks" \/ orig[Position(t)] # Null
        BY <3>3, IncludedIs
      <4>3. orig \in Served(t)
        BY <1>1, <2>2, <3>3, <4>1, <4>2, Sends
      <4>4. Asks(ToGeneric(r), t, Received(t, orig))
        BY <1>1, <2>2, <3>3, <4>1, JoinAsks
      <4> QED
        BY <1>1, <4>3, <4>4, OkFacts
    <3> QED
      BY <3>1, <3>2, <3>3 DEF AskedFor
  <2>4. Received(t, orig) \in data[t].rows
    BY <2>1, <2>3, ChunkFacts
  <2>5. \A sel \in Elems(query.selections) : ~NullMet(sel, t, Received(t, orig))
    BY <1>1, NoNullMet
  <2>6. t \in DOMAIN query.fields
    BY <1>1, <2>1, FailsOnly
  <2>7. t \in DOMAIN output.tables /\ Received(t, orig) \in output.tables[t].rows
    BY <2>1, <2>3, <2>4, <2>5, <2>6, EngineOk
  <2>8. Received(t, orig).id = orig.id
    BY <2>2, ReceivedFacts
  <2> QED
    BY <2>7, <2>8 DEF Got, Ids
<1> QED
  BY <1>1, Inductive, PTL
=============================================================================
