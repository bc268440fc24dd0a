---------------------------- MODULE SvmQueryProofs ----------------------------
(***************************************************************************)
(* A Solana query through start_stream, for every query the request types  *)
(* admit and every chain: what is sent to SQD, asked of the columns and    *)
(* filtered and joined again locally add up to what the caller asked for.  *)
(***************************************************************************)
EXTENDS SvmQuery, StreamQueryProofs, NaturalProofs

\* What each stage has settled, as a function of the query and the chain.
QueryInv ==
    /\ asked \in SvmQueries
    /\ stage # "new" => /\ query = svm_query_to_generic
                        /\ req = make_req_fields(svm_query_to_generic, Types)
    /\ stage \in {"await", "chunk", "local"} =>
          \A r \in Requests : r.table = "instructions" => ~BadDiscriminators(r)
    /\ stage \in {"chunk", "local"} => data = Response
    /\ stage = "local" => last_block = extract_last_block

Inv == QueryInv /\ EngineInv

-----------------------------------------------------------------------------
\* The joins that the flags of each kind of request stand for.
JoinsOf ==
    LET txJoins == [transactions |-> OnTx("transactions"), instructions |-> OnTx("instructions"),
                    blocks |-> OnSlot]
    IN  [instructions   |->
            [logs |-> {On("logs", <<"block_slot", "transaction_index", "instruction_address">>),
                       On("instructions", <<"block_slot", "instruction_address">>)},
             blocks         |-> OnSlot,
             transactions   |-> OnTx("transactions"),
             instructions   |-> OnTx("instructions"),
             token_balances |-> OnTx("token_balances")],
         transactions   |-> [logs |-> OnTx("logs"), instructions |-> OnTx("instructions"),
                             blocks |-> OnSlot],
         logs           |-> txJoins,
         balances       |-> txJoins,
         token_balances |-> txJoins,
         rewards        |-> [blocks |-> OnSlot]]

\* The translations of the six kinds of request differ in their joins alone.
LEMMA GenericIs ==
    ASSUME NEW r, r.table \in DOMAIN FilterLists
    PROVE  ToGeneric(r) = Selection(r, JoinsOf[r.table])
<1>1. r.table \in {"instructions", "transactions", "logs", "balances", "token_balances", "rewards"}
  BY DEF FilterLists
<1>2. CASE r.table = "instructions"
  <2>1. ToGeneric(r) = svm_instruction_selection_to_generic(r)
    BY <1>2, Zenon DEF ToGeneric
  <2> QED
    BY <1>2, <2>1 DEF svm_instruction_selection_to_generic, JoinsOf
<1>3. CASE r.table = "transactions"
  <2>1. ToGeneric(r) = svm_transaction_selection_to_generic(r)
    BY <1>3, Zenon DEF ToGeneric
  <2> QED
    BY <1>3, <2>1 DEF svm_transaction_selection_to_generic, JoinsOf
<1>4. CASE r.table = "logs"
  <2>1. ToGeneric(r) = svm_log_selection_to_generic(r)
    BY <1>4, Zenon DEF ToGeneric
  <2> QED
    BY <1>4, <2>1 DEF svm_log_selection_to_generic, JoinsOf
<1>5. CASE r.table = "balances"
  <2>1. ToGeneric(r) = svm_balance_selection_to_generic(r)
    BY <1>5, Zenon DEF ToGeneric
  <2> QED
    BY <1>5, <2>1 DEF svm_balance_selection_to_generic, JoinsOf
<1>6. CASE r.table = "token_balances"
  <2>1. ToGeneric(r) = svm_token_balance_selection_to_generic(r)
    BY <1>6, Zenon DEF ToGeneric
  <2> QED
    BY <1>6, <2>1 DEF svm_token_balance_selection_to_generic, JoinsOf
<1>7. CASE r.table = "rewards"
  <2>1. ToGeneric(r) = svm_reward_selection_to_generic(r)
    BY <1>7, Zenon DEF ToGeneric
  <2> QED
    BY <1>7, <2>1 DEF svm_reward_selection_to_generic, JoinsOf
<1> QED
  BY <1>1, <1>2, <1>3, <1>4, <1>5, <1>6, <1>7

\* The lists of columns that joins are on, and the names in them.
LEMMA NamesOf ==
    /\ QP!IsList(<<"slot">>) /\ QP!Names(<<"slot">>) = {"slot"}
    /\ QP!IsList(<<"block_slot">>) /\ QP!Names(<<"block_slot">>) = {"block_slot"}
    /\ QP!IsList(<<"block_slot", "transaction_index">>)
    /\ QP!Names(<<"block_slot", "transaction_index">>) = {"block_slot", "transaction_index"}
    /\ QP!IsList(<<"block_slot", "instruction_address">>)
    /\ QP!Names(<<"block_slot", "instruction_address">>) = {"block_slot", "instruction_address"}
    /\ QP!IsList(<<"block_slot", "transaction_index", "instruction_address">>)
    /\ QP!Names(<<"block_slot", "transaction_index", "instruction_address">>) =
          {"block_slot", "transaction_index", "instruction_address"}
BY DEF QP!IsList, QP!Names

\* A join that the engine can make: of columns the two tables have; one to the
\* blocks is on the slot.
Sensible(from, inc) ==
    /\ QP!IsList(inc.fields) /\ QP!IsList(inc.otherFields)
    /\ Len(inc.fields) = Len(inc.otherFields)
    /\ inc.other \in Tables
    /\ QP!Names(inc.fields) \subseteq DOMAIN Types[from]
    /\ QP!Names(inc.otherFields) \subseteq DOMAIN Types[inc.other]
    /\ inc.other = "blocks" => inc.fields = <<"block_slot">> /\ inc.otherFields = <<"slot">>

\* The join that a flag is named for.
Leads(from, inc, t) ==
    /\ inc.other = t
    /\ \/ t = "blocks"
       \/ t # "blocks" /\ inc = On(t, <<"block_slot", "transaction_index">>)
       \/ /\ from = "instructions" /\ t = "logs"
          /\ inc = On(t, <<"block_slot", "transaction_index", "instruction_address">>)

\* Every join of a flag is sensible, one of them leads where the flag says, and
\* none but its own leads to the blocks.
LEMMA JoinFacts ==
    ASSUME NEW from \in DOMAIN FilterLists, NEW t \in IncludeFlags[from]
    PROVE  /\ \A inc \in JoinsOf[from][t] :
                 Sensible(from, inc) /\ (inc.other = "blocks" => t = "blocks")
           /\ \E inc \in JoinsOf[from][t] : Leads(from, inc, t)
<1>1. from \in {"instructions", "transactions", "logs", "balances", "token_balances", "rewards"}
  BY DEF FilterLists
<1> DEFINE TxOk(u) == /\ {"block_slot", "transaction_index"} \subseteq DOMAIN Types[u]
                      /\ u \in Tables
<1>2. \A u \in {"instructions", "transactions", "logs", "balances", "token_balances"} : TxOk(u)
  BY DEF Types, Tables
<1>3. "slot" \in DOMAIN Types.blocks /\ "blocks" \in Tables /\ "block_slot" \in DOMAIN Types[from]
  BY <1>1 DEF Types, Tables
<1>4. \A inc \in OnSlot : Sensible(from, inc) /\ inc.other = "blocks"
  BY <1>3, NamesOf DEF OnSlot, Sensible
<1>5. ASSUME NEW u \in {"instructions", "transactions", "logs", "token_balances"}, from # "rewards"
      PROVE  \A inc \in OnTx(u) : Sensible(from, inc) /\ inc.other = u /\ Leads(from, inc, u)
  <2>1. TxOk(from) /\ TxOk(u) /\ u # "blocks"
    BY <1>1, <1>2, <1>5
  <2> QED
    BY <2>1, NamesOf DEF OnTx, On, Sensible, Leads
<1>6. from = "instructions" =>
        LET l == On("logs", <<"block_slot", "transaction_index", "instruction_address">>)
            i == On("instructions", <<"block_slot", "instruction_address">>)
        IN  Sensible(from, l) /\ Sensible(from, i) /\ Leads(from, l, "logs")
            /\ l.other = "logs" /\ i.other = "instructions"
  <2>1. /\ {"block_slot", "transaction_index", "instruction_address"} \subseteq DOMAIN Types.instructions
        /\ {"block_slot", "transaction_index", "instruction_address"} \subseteq DOMAIN Types.logs
        /\ "instructions" \in Tables /\ "logs" \in Tables
    BY DEF Types, Tables
  <2> QED
    BY <2>1, NamesOf DEF On, Sensible, Leads
<1>7. \E inc \in OnSlot : Leads(from, inc, "blocks")
  BY DEF OnSlot, Leads
<1>8. \A u : \E inc : inc \in OnTx(u)
  BY DEF OnTx
<1>9. \/ t = "blocks" /\ JoinsOf[from][t] = OnSlot
      \/ /\ t \in {"instructions", "transactions", "logs", "token_balances"} /\ from # "rewards"
         /\ JoinsOf[from][t] = OnTx(t)
      \/ /\ from = "instructions" /\ t = "logs"
         /\ JoinsOf[from][t] =
               {On("logs", <<"block_slot", "transaction_index", "instruction_address">>),
                On("instructions", <<"block_slot", "instruction_address">>)}
  BY <1>1 DEF JoinsOf, IncludeFlags
<1> QED
  BY <1>4, <1>5, <1>6, <1>7, <1>8, <1>9

\* The generic filter on column c.
FilterOf(r, c) ==
    IF c = "data"
    THEN [kind |-> "starts_with", type |-> "bytes", values |-> Listed(r, "discriminator")]
    ELSE IF c = "is_committed" THEN [kind |-> "bool", type |-> "bool", value |-> TRUE]
    ELSE [kind |-> "contains", type |-> "bytes", values |-> Listed(r, c)]

\* The column a list is about.
ColumnOf(d) == IF d = "discriminator" THEN "data" ELSE d

\* What a request becomes: a filter for each list that is not empty, on the
\* column it is about, and the joins of its flags.
LEMMA GenericFacts ==
    ASSUME NEW r, IsRequest(r)
    PROVE  /\ ToGeneric(r).table = r.table
           /\ \A c : c \in DOMAIN ToGeneric(r).filters <=>
                        \E d \in DOMAIN r.filters : r.filters[d] # {} /\ c = ColumnOf(d)
           /\ \A c \in DOMAIN ToGeneric(r).filters : ToGeneric(r).filters[c] = FilterOf(r, c)
           /\ \A inc \in ToGeneric(r).include :
                 Sensible(r.table, inc) /\ (inc.other = "blocks" => "blocks" \in r.include)
           /\ \A t \in r.include : \E inc \in ToGeneric(r).include : Leads(r.table, inc, t)
<1> DEFINE joins == JoinsOf[r.table]
           used == {d \in DOMAIN r.filters : Listed(r, d) # {}}
<1>1. ToGeneric(r) = Selection(r, joins)
  BY GenericIs DEF IsRequest
<1>2. /\ r.table \in DOMAIN FilterLists
      /\ \A t \in r.include : t \in IncludeFlags[r.table]
  BY DEF IsRequest
<1>3. \A d \in DOMAIN r.filters : Listed(r, d) = r.filters[d]
  BY DEF Listed
<1>4. /\ Selection(r, joins).table = r.table
      /\ DOMAIN Selection(r, joins).filters = {ColumnOf(d) : d \in used}
      /\ Selection(r, joins).include = UNION {joins[o] : o \in r.include}
  BY DEF Selection, ColumnOf
<1>5. \A c \in {ColumnOf(d) : d \in used} : Selection(r, joins).filters[c] = FilterOf(r, c)
  BY DEF Selection, ColumnOf, FilterOf
<1> HIDE DEF joins
<1>6. \A c : c \in {ColumnOf(d) : d \in used} <=>
                \E d \in DOMAIN r.filters : r.filters[d] # {} /\ c = ColumnOf(d)
  BY <1>3
<1>7. ASSUME NEW t \in r.include
      PROVE  /\ \A inc \in joins[t] :
                   Sensible(r.table, inc) /\ (inc.other = "blocks" => t = "blocks")
             /\ \E inc \in joins[t] : Leads(r.table, inc, t)
  BY <1>2, JoinFacts DEF joins
<1> QED
  BY <1>1, <1>4, <1>5, <1>6, <1>7

\* The filters of an instruction, and those of the other requests.
LEMMA FilterColumns ==
    ASSUME NEW r, IsRequest(r), NEW c \in DOMAIN ToGeneric(r).filters
    PROVE  \/ c \in DOMAIN Types[r.table] /\ QP!Fits(FilterOf(r, c), Types[r.table][c])
           \/ c = "d3" /\ Listed(r, "d3") # {}
<1>1. PICK d \in DOMAIN r.filters : r.filters[d] # {} /\ c = ColumnOf(d)
  BY GenericFacts
<1>2. /\ r.table \in {"instructions", "transactions", "logs", "balances", "token_balances", "rewards"}
      /\ d \in FilterLists[r.table]
  BY DEF IsRequest, FilterLists
<1>3. CASE r.table = "instructions" /\ d \in {"discriminator", "is_committed"}
  <2>1. CASE d = "discriminator"
    BY <1>1, <1>3, <2>1 DEF ColumnOf, FilterOf, QP!Fits, QP!Supports, Types
  <2>2. CASE d = "is_committed"
    BY <1>1, <1>3, <2>2 DEF ColumnOf, FilterOf, QP!Fits, QP!Supports, Types
  <2> QED
    BY <1>3, <2>1, <2>2
<1>4. CASE d = "d3"
  BY <1>1, <1>4 DEF ColumnOf, Listed
<1>5. CASE d \notin {"discriminator", "is_committed", "d3"}
  <2>1. c = d /\ c \in DOMAIN Types[r.table] /\ Types[r.table][c] = "bytes" /\ c # "data"
    BY <1>1, <1>2, <1>5 DEF ColumnOf, FilterLists, Types
  <2>2. FilterOf(r, c).kind = "contains" /\ FilterOf(r, c).type = "bytes"
    BY <1>5, <2>1 DEF FilterOf
  <2> QED
    BY <2>1, <2>2 DEF QP!Fits, QP!Supports
<1> QED
  BY <1>2, <1>3, <1>4, <1>5 DEF FilterLists

-----------------------------------------------------------------------------
\* The generic query of what was asked.
LEMMA QueryFacts ==
    ASSUME asked \in SvmQueries
    PROVE  /\ \A r \in Requests : IsRequest(r)
           /\ svm_query_to_generic.fields = asked.fields
           /\ Elems(svm_query_to_generic.selections) =
                 {ToGeneric(r) : r \in Requests}
                 \cup (IF asked.include_all_blocks THEN {AllBlocks} ELSE {})
<1> DEFINE rs == asked.requests
           s == [i \in DOMAIN rs |-> ToGeneric(rs[i])]
           u == IF asked.include_all_blocks THEN <<AllBlocks>> ELSE <<>>
           S == {s[i] : i \in DOMAIN s} \cup {AllBlocks}
<1>1. /\ DOMAIN rs = 1..Len(rs) /\ Len(rs) \in Nat
      /\ \A i \in DOMAIN rs : IsRequest(rs[i])
  <2>1. E!IsList(rs) /\ \A i \in DOMAIN rs : IsRequest(rs[i])
    BY SvmQueriesAssumption
  <2>2. rs \in Seq({rs[i] : i \in DOMAIN rs})
    BY <2>1 DEF E!IsList
  <2> QED
    BY <2>1, <2>2
<1>2. s \in Seq(S)
  BY <1>1
<1>3. u \in Seq(S)
  <2>1. AllBlocks \in S
    OBVIOUS
  <2> HIDE DEF S
  <2> QED
    BY <2>1
<1>4. svm_query_to_generic.selections = s \o u /\ svm_query_to_generic.fields = asked.fields
  BY DEF svm_query_to_generic
<1>5. Elems(u) = IF asked.include_all_blocks THEN {AllBlocks} ELSE {}
  BY DEF Elems
<1>6. Elems(s) = {ToGeneric(r) : r \in Requests}
  BY DEF Requests, Elems
<1>7. \A r \in Requests : IsRequest(r)
  BY <1>1 DEF Requests
<1> HIDE DEF s, u, S
<1>8. Elems(s \o u) = Elems(s) \cup Elems(u)
  BY <1>2, <1>3, Elements, Zenon
<1> QED
  BY <1>4, <1>5, <1>6, <1>7, <1>8

\* Every column that a filter or a join looks at is requested.
LEMMA ReqFacts ==
    ASSUME QueryInv, stage # "new"
    PROVE  /\ DOMAIN req = Tables
           /\ \A t \in Tables : asked.fields[t] \subseteq req[t] /\ req[t] \subseteq DOMAIN Types[t]
           /\ \A r \in Requests :
                 /\ DOMAIN ToGeneric(r).filters \cap DOMAIN Types[r.table] \subseteq req[r.table]
                 /\ \A inc \in ToGeneric(r).include :
                       /\ QP!Names(inc.fields) \subseteq req[r.table]
                       /\ QP!Names(inc.otherFields) \subseteq req[inc.other]
<1> DEFINE q == svm_query_to_generic
           sels == Elems(q.selections)
<1>1. asked \in SvmQueries /\ req = make_req_fields(q, Types)
  BY DEF QueryInv
<1>2. /\ \A r \in Requests : IsRequest(r) /\ ToGeneric(r) \in sels
      /\ q.fields = asked.fields
  BY <1>1, QueryFacts
<1>3. /\ DOMAIN asked.fields = Tables
      /\ \A t \in Tables : asked.fields[t] \subseteq DOMAIN Types[t]
  BY <1>1, SvmQueriesAssumption
<1> HIDE DEF q
<1>4. /\ DOMAIN req = Tables
      /\ \A t \in Tables :
            req[t] = (q.fields[t] \cup add_request_and_include_fields(q, t)) \cap DOMAIN Types[t]
  BY <1>1 DEF make_req_fields, Tables
<1>5. ASSUME NEW r \in Requests
      PROVE  /\ DOMAIN ToGeneric(r).filters \subseteq add_request_and_include_fields(q, r.table)
             /\ \A inc \in ToGeneric(r).include :
                   /\ QP!Names(inc.fields) \subseteq add_request_and_include_fields(q, r.table)
                   /\ QP!Names(inc.otherFields) \subseteq add_request_and_include_fields(q, inc.other)
  <2>1. ToGeneric(r) \in sels /\ ToGeneric(r).table = r.table
    BY <1>2, GenericFacts
  <2>2. \A names : QP!Names(names) = E!Names(names)
    BY DEF QP!Names, E!Names
  <2> QED
    BY <2>1, <2>2 DEF add_request_and_include_fields, Elems
<1>6. ASSUME NEW r \in Requests
      PROVE  /\ r.table \in Tables
             /\ \A inc \in ToGeneric(r).include :
                   /\ inc.other \in Tables
                   /\ QP!Names(inc.fields) \subseteq DOMAIN Types[r.table]
                   /\ QP!Names(inc.otherFields) \subseteq DOMAIN Types[inc.other]
  <2>1. IsRequest(r)
    BY <1>2
  <2>2. r.table \in Tables
    BY <2>1 DEF IsRequest, FilterLists, Tables, Types
  <2> QED
    BY <2>1, <2>2, GenericFacts DEF Sensible
<1> QED
  BY <1>2, <1>3, <1>4, <1>5, <1>6

\* The columns of a chunk: what was requested but the height, and a row's slot in
\* all tables or in none.
LEMMA ColumnFacts ==
    /\ \A t \in Tables : req[t] \ {"height"} \subseteq SqdColumns(t)
    /\ \A t, u \in Tables : "slot" \in SqdColumns(t) => "block_slot" \in SqdColumns(u)
BY DEF SqdColumns

\* A row of the chunk is a row of the chain with some columns nulled.
LEMMA ReceivedFacts ==
    ASSUME NEW t \in Tables, NEW row \in Chain[t]
    PROVE  /\ Received(t, row).id = row.id
           /\ \A c \in DOMAIN Types[t] :
                 Received(t, row)[c] = IF c \in SqdColumns(t) THEN row[c] ELSE Null
<1>1. DOMAIN row = DOMAIN Types[t] \cup {"id"}
  BY ChainAssumption
<1>2. "id" \notin DOMAIN Types[t]
  BY DEF Types, Tables
<1> QED
  BY <1>1, <1>2 DEF Received

\* SQD sends rows of the chain.
LEMMA RowsFacts ==
    ASSUME QueryInv, NEW t \in Tables
    PROVE  SqdRows(t) \subseteq Chain[t]
BY DEF SqdRows

\* The chunk, row by row.
LEMMA ChunkFacts ==
    ASSUME QueryInv, stage \in {"chunk", "local"}
    PROVE  /\ DOMAIN data = Tables
           /\ \A t \in Tables :
                 /\ data[t].types = Types[t]
                 /\ \A row : row \in data[t].rows <=> \E orig \in SqdRows(t) : row = Received(t, orig)
BY DEF QueryInv, Response

-----------------------------------------------------------------------------
\* The invariant.

\* What is worked out from the query alone changes with the query alone.
LEMMA Stable ==
    ASSUME UNCHANGED asked
    PROVE  /\ svm_query_to_generic' = svm_query_to_generic
           /\ make_req_fields(svm_query_to_generic, Types)' =
                 make_req_fields(svm_query_to_generic, Types)
           /\ Requests' = Requests
           /\ UNCHANGED req => Response' = Response
           /\ UNCHANGED data => extract_last_block' = extract_last_block
<1>1. Requests' = Requests
  BY DEF Requests
<1>2. svm_query_to_generic' = svm_query_to_generic
  BY DEF svm_query_to_generic
<1>3. make_req_fields(svm_query_to_generic, Types)' = make_req_fields(svm_query_to_generic, Types)
  BY <1>2 DEF make_req_fields, add_request_and_include_fields
<1>4. UNCHANGED req => Response' = Response
  <2> SUFFICES ASSUME UNCHANGED req
               PROVE  Response' = Response
    OBVIOUS
  <2>1. \A t : SqdRows(t)' = SqdRows(t)
    BY <1>1 DEF SqdRows
  <2>2. \A t : SqdColumns(t)' = SqdColumns(t)
    BY DEF SqdColumns
  <2>3. \A t, row : Received(t, row)' = Received(t, row)
    BY <2>2 DEF Received
  <2> QED
    BY <2>1, <2>3 DEF Response
<1>5. UNCHANGED data => extract_last_block' = extract_last_block
  BY DEF extract_last_block
<1> QED
  BY <1>1, <1>2, <1>3, <1>4, <1>5

\* The generic query and the chunk are fit for the engine.
LEMMA FitForEngine ==
    ASSUME QueryInv, stage = "chunk"
    PROVE  QP!ChunkOk /\ QP!QueryOk
<1>1. QP!ChunkOk
  <2>1. \A t \in Tables : \A c \in DOMAIN Types[t] : Types[t][c] \in {"int", "bytes", "bool", "other"}
    BY DEF Tables, Types
  <2> QED
    BY <2>1, ChunkFacts DEF QP!ChunkOk
<1>2. ASSUME NEW i \in DOMAIN query.selections, NEW inc \in query.selections[i].include
      PROVE  QP!IsList(inc.fields) /\ QP!IsList(inc.otherFields)
  <2>1. asked \in SvmQueries /\ query = svm_query_to_generic
    BY DEF QueryInv
  <2>2. query.selections[i] \in Elems(query.selections)
    BY DEF Elems
  <2>3. query.selections[i] # AllBlocks
    BY <1>2 DEF AllBlocks
  <2>4. PICK r \in Requests : query.selections[i] = ToGeneric(r)
    BY <2>1, <2>2, <2>3, QueryFacts
  <2>5. IsRequest(r)
    BY <2>1, QueryFacts
  <2> QED
    BY <1>2, <2>4, <2>5, GenericFacts DEF Sensible
<1> QED
  BY <1>1, <1>2 DEF QP!QueryOk, QP!Selection

\* A step of the stream settles what its stage says, and keeps what is settled.
LEMMA StepInv ==
    ASSUME Inv, [Next]_vars
    PROVE  Inv'
<1>1. UNCHANGED asked
  BY DEF Next, StartStream, NotSupported, RequestFails, svm_query_to_sqd, Respond, LocalQuery,
     RunQuery, Over, vars
<1>2. QueryInv /\ EngineInv
  BY DEF Inv
<1>3. CASE StartStream
  <2>1. /\ query' = svm_query_to_generic
        /\ req' = make_req_fields(svm_query_to_generic, Types)
        /\ stage = "new" /\ stage' = "request"
        /\ UNCHANGED output
    BY <1>3 DEF StartStream
  <2> QED
    BY <1>1, <1>2, <2>1, Stable DEF Inv, QueryInv, EngineInv
<1>4. CASE NotSupported \/ RequestFails
  <2>1. stage = "request" /\ stage' = "rejected" /\ UNCHANGED <<query, req, output>>
    BY <1>4 DEF NotSupported, RequestFails, engine
  <2> QED
    BY <1>1, <1>2, <2>1, Stable DEF Inv, QueryInv, EngineInv
<1>5. CASE svm_query_to_sqd
  <2>1. /\ stage = "request" /\ stage' = "await" /\ UNCHANGED <<query, req, output>>
        /\ \A r \in Requests : r.table = "instructions" => ~BadDiscriminators(r)
    BY <1>5 DEF svm_query_to_sqd, engine
  <2> QED
    BY <1>1, <1>2, <2>1, Stable DEF Inv, QueryInv, EngineInv
<1>6. CASE Respond
  <2>1. stage = "await" /\ stage' = "chunk" /\ data' = Response /\ UNCHANGED <<query, req, output>>
    BY <1>6 DEF Respond
  <2> QED
    BY <1>1, <1>2, <2>1, Stable DEF Inv, QueryInv, EngineInv
<1>7. CASE LocalQuery
  <2>1. /\ stage = "chunk" /\ stage' = "local" /\ last_block' = extract_last_block
        /\ UNCHANGED <<query, req, data>>
    BY <1>7 DEF LocalQuery
  <2>2. QueryInv'
    BY <1>1, <1>2, <2>1, Stable DEF QueryInv
  <2>3. EngineInv'
    BY <1>2, <1>7, <2>1, FitForEngine, HandOver
  <2> QED
    BY <2>2, <2>3 DEF Inv
<1>8. CASE RunQuery \/ Over \/ UNCHANGED vars
  <2>1. UNCHANGED <<stage, req, last_block, data, query>>
    BY <1>8 DEF RunQuery, Over, vars, E!RunQuery, E!RunSelection, E!SelectionError, E!Combine
  <2>2. QueryInv'
    BY <1>1, <1>2, <2>1, Stable DEF QueryInv
  <2>3. RunQuery \/ UNCHANGED <<stage, data, query, masks, output>>
    BY <1>8 DEF Over, vars
  <2> QED
    BY <1>2, <2>2, <2>3, EngineStep DEF Inv
<1> QED
  BY <1>3, <1>4, <1>5, <1>6, <1>7, <1>8 DEF Next

\* What a stage has settled holds as long as the stream goes on, whatever the
\* query and the chain.
THEOREM Inductive == Spec => []Inv
<1>1. Init => Inv
  BY DEF Init, InitWith, Inv, QueryInv, EngineInv
<1>2. Inv /\ [Next]_vars => Inv'
  BY StepInv
<1> QED
  BY <1>1, <1>2, PTL DEF Spec

-----------------------------------------------------------------------------
\* A selection that fails has a filter by three bytes of data.
LEMMA FailsOnly ==
    ASSUME Inv, stage = "local"
    PROVE  /\ DOMAIN query.fields = Tables /\ DOMAIN data = Tables
           /\ ~QP!SelectionFails(AllBlocks)
           /\ \A r \in Requests : QP!SelectionFails(ToGeneric(r)) <=> Listed(r, "d3") # {}
<1>1. /\ QueryInv /\ asked \in SvmQueries /\ query = svm_query_to_generic
      /\ DOMAIN data = Tables /\ \A t \in Tables : data[t].types = Types[t]
  BY ChunkFacts DEF Inv, QueryInv
<1>2. DOMAIN query.fields = Tables
  BY <1>1, QueryFacts, SvmQueriesAssumption
<1>3. ~QP!SelectionFails(AllBlocks)
  <2>1. "blocks" \in Tables
    BY DEF Tables, Types
  <2> QED
    BY <1>1, <2>1 DEF AllBlocks, QP!SelectionFails
<1>4. ASSUME NEW r \in Requests
      PROVE  QP!SelectionFails(ToGeneric(r)) <=> Listed(r, "d3") # {}
  <2>1. IsRequest(r)
    BY <1>1, QueryFacts
  <2>2. r.table \in Tables /\ ToGeneric(r).table = r.table
    BY <2>1, GenericFacts DEF IsRequest, FilterLists, Tables, Types
  <2>3. \A inc \in ToGeneric(r).include : Sensible(r.table, inc)
    BY <2>1, GenericFacts
  <2>4. ASSUME NEW c \in DOMAIN ToGeneric(r).filters
        PROVE  \/ /\ c \in QP!Columns(r.table)
                  /\ QP!Fits(ToGeneric(r).filters[c], data[r.table].types[c])
               \/ c = "d3" /\ Listed(r, "d3") # {}
    BY <1>1, <2>1, <2>2, GenericFacts, FilterColumns DEF QP!Columns
  <2>5. QP!SelectionFails(ToGeneric(r)) =>
           \E c \in DOMAIN ToGeneric(r).filters :
              c \notin QP!Columns(r.table) \/ ~QP!Fits(ToGeneric(r).filters[c], data[r.table].types[c])
    BY <1>1, <2>2, <2>3 DEF QP!SelectionFails, Sensible, QP!Columns
  <2>6. Listed(r, "d3") # {} => "d3" \in DOMAIN ToGeneric(r).filters
    BY <2>1, GenericFacts DEF Listed, ColumnOf
  <2>7. "d3" \notin QP!Columns(r.table)
    BY <1>1, <2>2 DEF QP!Columns, Tables, Types
  <2> QED
    BY <2>2, <2>4, <2>5, <2>6, <2>7 DEF QP!SelectionFails
<1> QED
  BY <1>1, <1>2, <1>3, <1>4

\* The columns that filters and joins look at are in the chunk, of the types the
\* engine filters, other than the three bytes that the schema has no column for:
\* no other local query of a Solana stream fails.
THEOREM FailuresByD3 == Spec => []FailsOnlyByD3
<1>1. ASSUME Inv
      PROVE  FailsOnlyByD3
  <2> SUFFICES ASSUME output.state = "error"
               PROVE  \E r \in Requests : Listed(r, "d3") # {}
    BY DEF FailsOnlyByD3
  <2>1. EngineInv /\ asked \in SvmQueries
    BY <1>1 DEF Inv, QueryInv
  <2>2. stage = "local" /\ query = svm_query_to_generic
    BY <1>1, <2>1, EngineError DEF Inv, QueryInv
  <2>3. PICK sel \in Elems(query.selections) : QP!SelectionFails(sel)
    BY <1>1, <2>1, <2>2, EngineError, FailsOnly
  <2>4. sel # AllBlocks
    BY <1>1, <2>2, <2>3, FailsOnly
  <2>5. PICK r \in Requests : sel = ToGeneric(r)
    BY <2>1, <2>2, <2>4, QueryFacts
  <2> QED
    BY <1>1, <2>2, <2>3, <2>5, FailsOnly
<1> QED
  BY <1>1, Inductive, PTL

\* What the caller asked of a row's columns is what the chain has, the height of a
\* block apart, although slots and hashes are asked for once for all tables.
THEOREM ColumnsAreServed == Spec => []ColumnsServed
<1>1. ASSUME Inv
      PROVE  ColumnsServed
  <2> SUFFICES ASSUME Ok, NEW t \in DOMAIN output.tables, NEW row \in output.tables[t].rows,
                      NEW c \in asked.fields[t] \ {"height"}
               PROVE  \E orig \in Chain[t] : orig.id = row.id /\ row[c] = orig[c]
    BY DEF ColumnsServed
  <2>1. EngineInv /\ QueryInv /\ asked \in SvmQueries
    BY <1>1 DEF Inv, QueryInv
  <2>2. stage = "local" /\ t \in DOMAIN query.fields /\ row \in data[t].rows
    BY <2>1, EngineOk
  <2>3. t \in Tables
    BY <1>1, <2>2, FailsOnly
  <2>4. PICK orig \in SqdRows(t) : row = Received(t, orig)
    BY <2>1, <2>2, <2>3, ChunkFacts
  <2>5. orig \in Chain[t]
    BY <2>1, <2>3, RowsFacts
  <2>6. c \in DOMAIN Types[t] /\ c \in SqdColumns(t)
    BY <2>1, <2>2, <2>3, ReqFacts, ColumnFacts
  <2> QED
    BY <2>3, <2>4, <2>5, <2>6, ReceivedFacts
<1> QED
  BY <1>1, Inductive, PTL

-----------------------------------------------------------------------------
\* SQD sends the block of each row it sends.
LEMMA BlockSent ==
    ASSUME NEW t \in Tables \ {"blocks"}, NEW orig \in SqdRows(t),
           NEW b \in Chain.blocks, b.slot = orig.block_slot
    PROVE  b \in SqdRows("blocks")
<1> DEFINE matched(r) == {row \in Chain[r.table] : SqdMatches(r, row)}
           rows(u)    == {row \in Chain[u] : \E r \in Requests :
                            \/ r.table = u /\ row \in matched(r)
                            \/ /\ u \in SqdIncludes(r)
                               /\ \E src \in matched(r) : Related(r.table, src, u, row)}
           slots      == {row.block_slot : row \in UNION {rows(u) : u \in Tables \ {"blocks"}}}
<1>1. SqdRows(t) = rows(t)
  BY DEF SqdRows
<1>2. SqdRows("blocks") = {row \in Chain.blocks : asked.include_all_blocks \/ row.slot \in slots}
  BY DEF SqdRows
<1> HIDE DEF rows
<1> QED
  BY <1>1, <1>2

\* Of the columns extract_last_block knows, a chunk has the slot of its blocks.
LEMMA NumbersAre ==
    ASSUME QueryInv, stage \in {"chunk", "local"}
    PROVE  LET numbers == {row.slot : row \in data.blocks.rows}
           IN  extract_last_block = IF numbers \subseteq {Null} THEN Null ELSE Max(numbers \ {Null})
<1> DEFINE known(t) == {"block_number", "number", "slot"} \cap DOMAIN data[t].types
           all == UNION {{row[c] : row \in data[t].rows, c \in known(t)} : t \in DOMAIN data}
           numbers == {row.slot : row \in data.blocks.rows}
<1>1. extract_last_block = IF all \subseteq {Null} THEN Null ELSE Max(all \ {Null})
  BY DEF extract_last_block
<1>2. DOMAIN data = Tables /\ \A t \in Tables : known(t) = IF t = "blocks" THEN {"slot"} ELSE {}
  <2>1. \A t \in Tables : {"block_number", "number", "slot"} \cap DOMAIN Types[t] =
                             IF t = "blocks" THEN {"slot"} ELSE {}
    BY DEF Tables, Types
  <2> QED
    BY <2>1, ChunkFacts
<1>3. "blocks" \in Tables
  BY DEF Tables, Types
<1>4. all = numbers
  <2>1. ASSUME NEW v
        PROVE  v \in all <=> \E t \in Tables : \E row \in data[t].rows : \E c \in known(t) : v = row[c]
    BY <1>2
  <2> HIDE DEF all, known
  <2>2. \A v : v \in all <=> \E row \in data["blocks"].rows : v = row["slot"]
    BY <1>2, <1>3, <2>1
  <2> QED
    BY <2>2
<1> HIDE DEF all, numbers
<1>5. extract_last_block = IF numbers \subseteq {Null} THEN Null ELSE Max(numbers \ {Null})
  BY <1>1, <1>4
<1> QED
  BY <1>5 DEF numbers

\* The last block of a chunk is the highest slot of all of its rows: a slot is
\* asked for in all tables or in none, and the block of every row comes along.
THEOREM HighestBlock == Spec => []LastBlockIsHighest
<1>1. ASSUME Inv
      PROVE  LastBlockIsHighest
  <2> DEFINE numbers == {row.slot : row \in data.blocks.rows}
  <2>1. SUFFICES ASSUME output.state \in {"ok", "error"}, last_block # Null
                 PROVE  /\ \A t \in Tables \ {"blocks"} : \A row \in data[t].rows :
                              row.block_slot # Null /\ row.block_slot <= last_block
                        /\ \E row \in data.blocks.rows : row.slot = last_block
    BY DEF LastBlockIsHighest
  <2>2. QueryInv /\ stage = "local" /\ last_block = extract_last_block
    BY <1>1, <2>1 DEF Inv, EngineInv, QueryInv
  <2>3. ~(numbers \subseteq {Null}) /\ last_block = Max(numbers \ {Null})
    BY <2>1, <2>2, NumbersAre
  <2>4. /\ "blocks" \in Tables /\ "slot" \in DOMAIN Types.blocks
        /\ \A t \in Tables \ {"blocks"} : "block_slot" \in DOMAIN Types[t]
    BY DEF Tables, Types
  <2>5. \A t \in Tables : \A row : row \in data[t].rows <=>
           \E orig \in SqdRows(t) : row = Received(t, orig)
    BY <2>2, ChunkFacts
  <2>6. \A t \in Tables : SqdRows(t) \subseteq Chain[t]
    BY <2>2, RowsFacts
  <2>7. \A orig \in SqdRows("blocks") :
           Received("blocks", orig).slot = IF "slot" \in SqdColumns("blocks") THEN orig.slot ELSE Null
    BY <2>4, <2>6, ReceivedFacts
  <2>8. "slot" \in SqdColumns("blocks")
    BY <2>3, <2>4, <2>5, <2>7
  <2>9. numbers = {orig.slot : orig \in SqdRows("blocks")}
    BY <2>4, <2>5, <2>7, <2>8
  <2>10. numbers \in SUBSET Nat /\ IsFiniteSet(numbers) /\ numbers # {}
    <3>1. \A orig \in SqdRows("blocks") : orig.slot \in Nat
      BY <2>4, <2>6, ChainAssumption
    <3>2. IsFiniteSet(SqdRows("blocks"))
      BY <2>4, <2>6, ChainAssumption, FS_Subset
    <3>3. IsFiniteSet({orig.slot : orig \in SqdRows("blocks")})
      <4> DEFINE f == [orig \in SqdRows("blocks") |-> orig.slot]
      <4>1. f \in Surjection(SqdRows("blocks"), {orig.slot : orig \in SqdRows("blocks")})
        BY DEF Surjection
      <4> QED
        BY <3>2, <4>1, FS_Surjection
    <3> QED
      BY <2>3, <2>9, <3>1, <3>3
  <2>11. numbers \ {Null} = numbers
    BY <2>10, NullAssumption
  <2> HIDE DEF numbers
  <2>12. last_block \in numbers /\ \A s \in numbers : s <= last_block
    BY <2>3, <2>10, <2>11, MaxFacts
  <2>13. \E row \in data.blocks.rows : row.slot = last_block
    BY <2>12 DEF numbers
  <2>14. ASSUME NEW t \in Tables \ {"blocks"}, NEW row \in data[t].rows
         PROVE  row.block_slot # Null /\ row.block_slot <= last_block
    <3>1. PICK orig \in SqdRows(t) : row = Received(t, orig)
      BY <2>5
    <3>2. row.block_slot = orig.block_slot
      <4>1. "block_slot" \in SqdColumns(t)
        BY <2>4, <2>8, ColumnFacts
      <4> QED
        BY <2>4, <2>6, <3>1, <4>1, ReceivedFacts
    <3>3. PICK b \in Chain.blocks : b.slot = orig.block_slot
      BY <2>6, ChainAssumption
    <3>4. b.slot \in numbers
      BY <2>9, <3>3, BlockSent
    <3> QED
      BY <2>10, <2>12, <3>2, <3>3, <3>4, NullAssumption
  <2> QED
    BY <2>13, <2>14
<1> QED
  BY <1>1, Inductive, PTL

-----------------------------------------------------------------------------
\* A requested column of a row comes as it is in the chain, but for the height.
LEMMA Seen ==
    ASSUME QueryInv, stage # "new", NEW t \in Tables, NEW orig \in Chain[t], NEW c \in req[t],
           c # "height"
    PROVE  Received(t, orig)[c] = orig[c]
<1>1. c \in DOMAIN Types[t] /\ c \in SqdColumns(t)
  BY ReqFacts, ColumnFacts
<1> QED
  BY <1>1, ReceivedFacts

\* What list d of request r says of a row.
Meets(r, d, orig) == QP!Accepts(FilterOf(r, ColumnOf(d)), orig[ColumnOf(d)])

\* What a filter of each kind accepts.
LEMMA AcceptsIs ==
    ASSUME NEW f, NEW v
    PROVE  /\ f.kind = "contains" => (QP!Accepts(f, v) <=> v # Null /\ v \in f.values)
           /\ f.kind = "bool" => (QP!Accepts(f, v) <=> v # Null /\ v = f.value)
           /\ f.kind = "starts_with" =>
                 (QP!Accepts(f, v) <=> v # Null /\ \E p \in f.values : QP!IsPrefix(p, v))
<1>1. ASSUME f.kind = "contains"
      PROVE  QP!Accepts(f, v) <=> v # Null /\ v \in f.values
  BY <1>1 DEF QP!Accepts
<1>2. ASSUME f.kind = "bool"
      PROVE  QP!Accepts(f, v) <=> v # Null /\ v = f.value
  BY <1>2 DEF QP!Accepts
<1>3. ASSUME f.kind = "starts_with"
      PROVE  QP!Accepts(f, v) <=> v # Null /\ \E p \in f.values : QP!IsPrefix(p, v)
  BY <1>3 DEF QP!Accepts
<1> QED
  BY <1>1, <1>2, <1>3

\* The names of the prefix lists.
LEMMA DIs == D(1) = "d1" /\ D(2) = "d2" /\ D(3) = "d3" /\ D(4) = "d4" /\ D(8) = "d8"
BY DEF D

\* A prefix that the schema has a column for is looked up in that column.
LEMMA MeetsPrefix ==
    ASSUME NEW r, IsRequest(r), r.table = "instructions", NEW orig \in Chain.instructions,
           NEW n \in {1, 2, 4, 8}, D(n) \in DOMAIN r.filters
    PROVE  Meets(r, D(n), orig) <=> HasPrefix(orig, n, Listed(r, D(n)))
<1>1. D(n) \in {"d1", "d2", "d4", "d8"}
  BY DIs
<1>2. Listed(r, D(n)) = r.filters[D(n)] /\ Null \notin r.filters[D(n)]
  BY DEF Listed, IsRequest
<1>3. orig[D(n)] = Cut(orig.data, n)
  BY DIs, ChainAssumption
<1>4. orig.data \in Bytes
  BY ChainAssumption
<1>5. Len(orig.data) \in Nat
  BY <1>4 DEF Bytes
<1>6. FilterOf(r, D(n)).kind = "contains" /\ FilterOf(r, D(n)).values = Listed(r, D(n))
  BY <1>1 DEF FilterOf
<1>7. ColumnOf(D(n)) = D(n)
  BY <1>1 DEF ColumnOf
<1>8. Meets(r, D(n), orig) <=> orig[D(n)] # Null /\ orig[D(n)] \in Listed(r, D(n))
  BY <1>6, <1>7, AcceptsIs DEF Meets
<1>9. CASE Len(orig.data) < n
  <2>1. orig[D(n)] = Null
    BY <1>3, <1>9 DEF Cut
  <2>2. ~HasPrefix(orig, n, Listed(r, D(n)))
    BY <1>5, <1>9 DEF HasPrefix
  <2> QED
    BY <1>8, <2>1, <2>2
<1>10. CASE Len(orig.data) >= n
  <2>1. orig[D(n)] = SubSeq(orig.data, 1, n)
    BY <1>3, <1>5, <1>10 DEF Cut
  <2>2. HasPrefix(orig, n, Listed(r, D(n))) <=> SubSeq(orig.data, 1, n) \in Listed(r, D(n))
    BY <1>10 DEF HasPrefix
  <2> QED
    BY <1>2, <1>8, <2>1, <2>2
<1> QED
  BY <1>5, <1>9, <1>10

\* A discriminator is looked for at the head of the data.
LEMMA MeetsDiscriminator ==
    ASSUME NEW r, NEW orig \in Chain.instructions
    PROVE  Meets(r, "discriminator", orig) <=>
              \E d \in Listed(r, "discriminator") : E!IsPrefix(d, orig.data)
<1>1. /\ FilterOf(r, "data").kind = "starts_with"
      /\ FilterOf(r, "data").values = Listed(r, "discriminator")
  BY DEF FilterOf
<1>2. ColumnOf("discriminator") = "data"
  BY DEF ColumnOf
<1>3. orig.data # Null
  BY ChainAssumption
<1>4. Meets(r, "discriminator", orig) <=>
         \E d \in Listed(r, "discriminator") : QP!IsPrefix(d, orig.data)
  BY <1>1, <1>2, <1>3, AcceptsIs DEF Meets
<1> QED
  BY <1>4 DEF E!IsPrefix, QP!IsPrefix

\* Any other list is looked up in the column of its name, the flag of committed
\* instructions included.
LEMMA MeetsList ==
    ASSUME NEW r, IsRequest(r), NEW orig \in Chain[r.table], NEW d \in DOMAIN r.filters,
           r.filters[d] # {}, d \notin PrefixLists \cup {"discriminator"}
    PROVE  Meets(r, d, orig) <=> orig[d] \in r.filters[d]
<1>1. ColumnOf(d) = d /\ d # "data" /\ Listed(r, d) = r.filters[d] /\ Null \notin r.filters[d]
  <2>1. \A t \in DOMAIN FilterLists : "data" \notin FilterLists[t]
    BY DEF FilterLists
  <2> QED
    BY <2>1 DEF ColumnOf, Listed, IsRequest
<1>2. CASE d = "is_committed"
  <2>1. r.filters[d] = {TRUE}
    BY <1>2 DEF IsRequest
  <2>2. r.table = "instructions"
    BY <1>2 DEF IsRequest, FilterLists
  <2>3. orig[d] # Null
    BY <1>2, <2>2, ChainAssumption, NullAssumption
  <2>4. FilterOf(r, d).kind = "bool" /\ FilterOf(r, d).value = TRUE
    BY <1>2 DEF FilterOf
  <2>5. Meets(r, d, orig) <=> orig[d] # Null /\ orig[d] = TRUE
    BY <1>1, <2>4, AcceptsIs DEF Meets
  <2> QED
    BY <2>1, <2>3, <2>5
<1>3. CASE d # "is_committed"
  <2>1. FilterOf(r, d).kind = "contains" /\ FilterOf(r, d).values = Listed(r, d)
    BY <1>1, <1>3 DEF FilterOf
  <2>2. Meets(r, d, orig) <=> orig[d] # Null /\ orig[d] \in Listed(r, d)
    BY <1>1, <2>1, AcceptsIs DEF Meets
  <2> QED
    BY <1>1, <2>2
<1> QED
  BY <1>2, <1>3

\* The filters run locally on the columns received accept a row iff the caller's
\* documentation says it matches.
LEMMA LocalPasses ==
    ASSUME Inv, stage = "local", NEW r \in Requests, Listed(r, "d3") = {},
           NEW orig \in Chain[r.table]
    PROVE  QP!Passes(ToGeneric(r), Received(r.table, orig)) <=> orig \in MatchingRows(r)
<1> DEFINE row == Received(r.table, orig)
           Used == {d \in DOMAIN r.filters : r.filters[d] # {}}
           Plain == DOMAIN r.filters \ (PrefixLists \cup {"discriminator"})
<1>1. QueryInv /\ IsRequest(r)
  BY QueryFacts DEF Inv, QueryInv
<1>2. r.table \in Tables
  BY <1>1 DEF IsRequest, FilterLists, Tables, Types
<1>3. ASSUME NEW c \in DOMAIN ToGeneric(r).filters
      PROVE  row[c] = orig[c] /\ ToGeneric(r).filters[c] = FilterOf(r, c)
  <2>1. c \in DOMAIN Types[r.table] /\ ToGeneric(r).filters[c] = FilterOf(r, c)
    BY <1>1, GenericFacts, FilterColumns
  <2>2. c \in req[r.table]
    BY <1>1, <2>1, ReqFacts
  <2>3. c # "height"
    <3>1. PICK d \in DOMAIN r.filters : c = ColumnOf(d)
      BY <1>1, GenericFacts
    <3>2. \A t \in DOMAIN FilterLists : "height" \notin FilterLists[t]
      BY DEF FilterLists
    <3> QED
      BY <1>1, <3>1, <3>2 DEF ColumnOf, IsRequest
  <2> QED
    BY <1>1, <1>2, <2>1, <2>2, <2>3, Seen
<1>4. QP!Passes(ToGeneric(r), row) <=> \A d \in Used : Meets(r, d, orig)
  <2>1. \A c : c \in DOMAIN ToGeneric(r).filters <=> \E d \in Used : c = ColumnOf(d)
    BY <1>1, GenericFacts
  <2> HIDE DEF row, Used
  <2>2. QP!Passes(ToGeneric(r), row) <=>
           \A c \in DOMAIN ToGeneric(r).filters : QP!Accepts(FilterOf(r, c), orig[c])
    BY <1>3 DEF QP!Passes
  <2> QED
    BY <2>1, <2>2 DEF Meets
<1>5. orig \in MatchingRows(r) <=>
        /\ \A d \in Plain : r.filters[d] # {} => orig[d] \in r.filters[d]
        /\ r.table = "instructions" =>
              /\ \A n \in Widths : Listed(r, D(n)) # {} => HasPrefix(orig, n, Listed(r, D(n)))
              /\ Listed(r, "discriminator") # {} =>
                    \E d \in Listed(r, "discriminator") : E!IsPrefix(d, orig.data)
  BY DEF MatchingRows, MatchesLists
<1>6. \A d \in Used \ (PrefixLists \cup {"discriminator"}) :
         Meets(r, d, orig) <=> orig[d] \in r.filters[d]
  BY <1>1, MeetsList
<1>7. CASE r.table # "instructions"
  <2>1. \A t \in DOMAIN FilterLists \ {"instructions"} :
           FilterLists[t] \cap (PrefixLists \cup {"discriminator"}) = {}
    BY DEF FilterLists, PrefixLists
  <2>2. Plain = DOMAIN r.filters
    BY <1>1, <1>7, <2>1 DEF IsRequest
  <2> QED
    BY <1>4, <1>5, <1>6, <1>7, <2>2
<1>8. CASE r.table = "instructions"
  <2>1. ASSUME NEW n \in {1, 2, 4, 8}
        PROVE  /\ D(n) \in Used <=> Listed(r, D(n)) # {}
               /\ D(n) \in Used => (Meets(r, D(n), orig) <=> HasPrefix(orig, n, Listed(r, D(n))))
    BY <1>1, <1>8, MeetsPrefix DEF Listed
  <2>2. /\ "discriminator" \in Used <=> Listed(r, "discriminator") # {}
        /\ Meets(r, "discriminator", orig) <=>
              \E d \in Listed(r, "discriminator") : E!IsPrefix(d, orig.data)
    BY <1>8, MeetsDiscriminator DEF Listed
  <2>3. \A d \in Used : \/ d \in Plain
                        \/ d = "discriminator"
                        \/ \E n \in {1, 2, 4, 8} : d = D(n)
    <3>1. "d3" \notin Used
      BY DEF Listed
    <3> QED
      BY <3>1, DIs DEF PrefixLists
  <2>4. \A n \in Widths : n \in {1, 2, 4, 8} \/ Listed(r, D(n)) = {}
    BY DIs DEF Widths
  <2>5. \A n \in {1, 2, 4, 8} : n \in Widths
    BY DEF Widths
  <2>6. \A d : d \in Plain /\ r.filters[d] # {} <=> d \in Used \ (PrefixLists \cup {"discriminator"})
    OBVIOUS
  <2> HIDE DEF Used, Plain
  <2>7. (\A d \in Used : Meets(r, d, orig)) <=>
          /\ \A d \in Plain : r.filters[d] # {} => orig[d] \in r.filters[d]
          /\ \A n \in Widths : Listed(r, D(n)) # {} => HasPrefix(orig, n, Listed(r, D(n)))
          /\ Listed(r, "discriminator") # {} =>
                \E d \in Listed(r, "discriminator") : E!IsPrefix(d, orig.data)
    <3>1. ASSUME \A d \in Used : Meets(r, d, orig)
          PROVE  /\ \A d \in Plain : r.filters[d] # {} => orig[d] \in r.filters[d]
                 /\ \A n \in Widths : Listed(r, D(n)) # {} => HasPrefix(orig, n, Listed(r, D(n)))
                 /\ Listed(r, "discriminator") # {} =>
                       \E d \in Listed(r, "discriminator") : E!IsPrefix(d, orig.data)
      BY <1>6, <2>1, <2>2, <2>4, <2>6, <3>1
    <3>2. ASSUME /\ \A d \in Plain : r.filters[d] # {} => orig[d] \in r.filters[d]
                 /\ \A n \in Widths : Listed(r, D(n)) # {} => HasPrefix(orig, n, Listed(r, D(n)))
                 /\ Listed(r, "discriminator") # {} =>
                       \E d \in Listed(r, "discriminator") : E!IsPrefix(d, orig.data),
                 NEW d \in Used
          PROVE  Meets(r, d, orig)
      <4>1. CASE d \in Plain
        BY <1>6, <2>6, <3>2, <4>1 DEF Used, Plain
      <4>2. CASE d = "discriminator"
        BY <2>2, <3>2, <4>2
      <4>3. CASE \E n \in {1, 2, 4, 8} : d = D(n)
        BY <2>1, <2>5, <3>2, <4>3
      <4> QED
        BY <2>3, <4>1, <4>2, <4>3
    <3> QED
      BY <3>1, <3>2
  <2> QED
    BY <1>4, <1>5, <1>8, <2>7
<1> QED
  BY <1>7, <1>8

-----------------------------------------------------------------------------
\* What SQD filters by.

\* As many bytes of a discriminator are sent as there is a filter for, no more than
\* it has.
LEMMA WidthFacts ==
    ASSUME NEW len \in Nat \ {0}
    PROVE  SentWidth(len) \in Widths /\ SentWidth(len) \in Nat /\ SentWidth(len) <= len
<1>1. len <= 4 \/ len \in 5..7 \/ len >= 8
  OBVIOUS
<1> QED
  BY <1>1 DEF SentWidth, Widths

\* The discriminators that are let through are all of one length, and not empty.
LEMMA LengthFacts ==
    ASSUME NEW r, IsRequest(r), ~BadDiscriminators(r),
           NEW d \in Listed(r, "discriminator"), NEW e \in Listed(r, "discriminator")
    PROVE  d \in Bytes /\ Len(d) \in Nat \ {0} /\ Len(e) = Len(d)
<1> DEFINE lengths == {Len(x) : x \in Listed(r, "discriminator")}
<1>1. "discriminator" \in DOMAIN r.filters /\ Listed(r, "discriminator") = r.filters["discriminator"]
  BY DEF Listed
<1>2. IsFiniteSet(Listed(r, "discriminator")) /\ d \in Bytes /\ e \in Bytes
  BY <1>1 DEF IsRequest
<1>3. Len(d) \in Nat /\ Len(e) \in Nat
  BY <1>2 DEF Bytes
<1>4. ~(Cardinality(lengths) > 1) /\ 0 \notin lengths
  BY DEF BadDiscriminators
<1>5. IsFiniteSet(lengths)
  <2> DEFINE f == [x \in Listed(r, "discriminator") |-> Len(x)]
  <2>1. f \in Surjection(Listed(r, "discriminator"), lengths)
    BY DEF Surjection
  <2> HIDE DEF lengths, f
  <2> QED
    BY <1>2, <2>1, FS_Surjection
<1>6. Len(d) \in lengths /\ Len(e) \in lengths
  OBVIOUS
<1> HIDE DEF lengths
<1>7. Len(e) = Len(d)
  <2> SUFFICES ASSUME Len(e) # Len(d)
               PROVE  FALSE
    OBVIOUS
  <2>1. Cardinality({Len(d)}) = 1 /\ IsFiniteSet({Len(d)})
    BY FS_Singleton
  <2>2. Cardinality({Len(d)} \cup {Len(e)}) = 2
    <3> DEFINE S == {Len(d)}
               x == Len(e)
    <3>1. Cardinality(S) = 1 /\ IsFiniteSet(S) /\ x \notin S
      BY <2>1
    <3> HIDE DEF S, x
    <3>2. Cardinality(S \cup {x}) = Cardinality(S) + 1
      BY <3>1, FS_AddElement
    <3> QED
      BY <3>1, <3>2 DEF S, x
  <2>3. Cardinality({Len(d)} \cup {Len(e)}) <= Cardinality(lengths)
    BY <1>5, <1>6, FS_Subset
  <2>4. Cardinality(lengths) \in Nat
    BY <1>5, FS_CardinalityType
  <2> QED
    BY <1>4, <2>2, <2>3, <2>4
<1> QED
  BY <1>2, <1>3, <1>4, <1>6, <1>7

\* The lesser of two numbers.
LEMMA MinIs ==
    ASSUME NEW n \in Nat, NEW l \in Nat, n <= l
    PROVE  Min({n, l}) = n
BY DEF Min

\* A prefix of a discriminator that is at the head of the data is there too.
LEMMA PrefixCut ==
    ASSUME NEW d \in Bytes, NEW bytes \in Bytes, E!IsPrefix(d, bytes), NEW n \in Nat, n <= Len(d)
    PROVE  Len(bytes) >= n /\ SubSeq(bytes, 1, n) = SubSeq(d, 1, n)
<1>1. /\ Len(d) \in Nat /\ Len(bytes) \in Nat /\ Len(d) <= Len(bytes)
      /\ SubSeq(d, 1, Len(d)) = SubSeq(bytes, 1, Len(d))
  BY DEF Bytes, E!IsPrefix
<1>2. \A i \in 1..Len(d) : d[i] = bytes[i]
  <2>1. \A i \in 1..Len(d) : SubSeq(d, 1, Len(d))[i] = d[i] /\ SubSeq(bytes, 1, Len(d))[i] = bytes[i]
    BY <1>1 DEF Bytes
  <2> QED
    BY <1>1, <2>1
<1>3. /\ SubSeq(d, 1, n) = [i \in 1..n |-> d[i]]
      /\ SubSeq(bytes, 1, n) = [i \in 1..n |-> bytes[i]]
  BY <1>1 DEF Bytes
<1> QED
  BY <1>1, <1>2, <1>3

\* SQD finds every row that matches: cutting a discriminator finds more, not less.
LEMMA SqdFindsAll ==
    ASSUME NEW r, IsRequest(r), r.table = "instructions" => ~BadDiscriminators(r),
           NEW orig \in MatchingRows(r)
    PROVE  SqdMatches(r, orig)
<1>1. MatchesLists(r, SqdLists(r), orig) /\ orig \in Chain[r.table]
  BY DEF MatchingRows, SqdLists
<1>2. ASSUME r.table = "instructions", NEW n \in Widths, SqdPrefixes(r, n) # {}
      PROVE  HasPrefix(orig, n, SqdPrefixes(r, n))
  <2>1. n \in Nat
    BY DEF Widths
  <2>2. CASE Listed(r, D(n)) # {}
    <3>1. HasPrefix(orig, n, Listed(r, D(n)))
      BY <1>2, <2>2 DEF MatchingRows
    <3> QED
      BY <3>1 DEF HasPrefix, SqdPrefixes
  <2>3. CASE Listed(r, D(n)) = {}
    <3>1. PICK e \in Listed(r, "discriminator") : SentWidth(Len(e)) = n
      BY <1>2, <2>3 DEF SqdPrefixes
    <3>2. PICK d \in Listed(r, "discriminator") : E!IsPrefix(d, orig.data)
      BY <1>2, <3>1 DEF MatchingRows
    <3>3. d \in Bytes /\ Len(d) \in Nat \ {0} /\ Len(e) = Len(d)
      BY <1>2, LengthFacts
    <3>4. SentWidth(Len(d)) = n /\ n <= Len(d)
      BY <3>1, <3>3, WidthFacts
    <3>5. orig.data \in Bytes
      BY <1>1, <1>2, ChainAssumption
    <3>6. Len(orig.data) >= n /\ SubSeq(orig.data, 1, n) = SubSeq(d, 1, n)
      BY <2>1, <3>2, <3>3, <3>4, <3>5, PrefixCut
    <3>7. Min({n, Len(d)}) = n
      BY <2>1, <3>3, <3>4, MinIs
    <3>8. SubSeq(d, 1, n) \in SqdPrefixes(r, n)
      BY <3>4, <3>7 DEF SqdPrefixes
    <3> QED
      BY <3>6, <3>8 DEF HasPrefix
  <2> QED
    BY <2>2, <2>3
<1> QED
  BY <1>1, <1>2 DEF SqdMatches

\* Where SQD is sent what the caller listed, it finds no row that does not match.
LEMMA SqdFindsOnly ==
    ASSUME NEW r, IsRequest(r), r.table = "instructions" => ~BadDiscriminators(r), ~Widened(r),
           NEW orig \in Chain[r.table], SqdMatches(r, orig)
    PROVE  orig \in MatchingRows(r)
<1>1. MatchesLists(r, DOMAIN r.filters \ (PrefixLists \cup {"discriminator"}), orig)
  BY DEF SqdMatches, SqdLists
<1>2. ASSUME NEW n \in Widths, NEW d \in Listed(r, "discriminator"), SentWidth(Len(d)) = n
      PROVE  Len(d) = n /\ Listed(r, D(n)) = {}
  BY <1>2 DEF Widened
<1>3. ASSUME r.table = "instructions", NEW n \in Widths, Listed(r, D(n)) # {}
      PROVE  HasPrefix(orig, n, Listed(r, D(n)))
  <2>1. \A d \in Listed(r, "discriminator") : SentWidth(Len(d)) # n
    BY <1>2, <1>3
  <2>2. SqdPrefixes(r, n) = Listed(r, D(n))
    BY <2>1 DEF SqdPrefixes
  <2> QED
    BY <1>3, <2>2 DEF SqdMatches
<1>4. ASSUME r.table = "instructions", Listed(r, "discriminator") # {}
      PROVE  \E d \in Listed(r, "discriminator") : E!IsPrefix(d, orig.data)
  <2>1. PICK d \in Listed(r, "discriminator") : TRUE
    BY <1>4
  <2> DEFINE n == SentWidth(Len(d))
  <2>2. \A e \in Listed(r, "discriminator") : e \in Bytes /\ Len(e) \in Nat \ {0} /\ Len(e) = Len(d)
    BY <1>4, LengthFacts
  <2>3. n \in Widths /\ n \in Nat /\ Len(d) = n /\ Listed(r, D(n)) = {}
    BY <1>2, <2>1, <2>2, WidthFacts
  <2> HIDE DEF n
  <2>4. Min({n, n}) = n
    BY <2>3, MinIs
  <2>5. SqdPrefixes(r, n) = {SubSeq(e, 1, n) : e \in Listed(r, "discriminator")}
    BY <2>2, <2>3, <2>4 DEF SqdPrefixes, n
  <2>6. HasPrefix(orig, n, SqdPrefixes(r, n))
    BY <1>4, <2>1, <2>3, <2>5 DEF SqdMatches
  <2>7. PICK e \in Listed(r, "discriminator") : SubSeq(orig.data, 1, n) = SubSeq(e, 1, n)
    BY <2>5, <2>6 DEF HasPrefix
  <2>8. Len(orig.data) >= n /\ Len(e) = n
    BY <2>2, <2>3, <2>6 DEF HasPrefix
  <2> QED
    BY <2>3, <2>7, <2>8 DEF E!IsPrefix
<1> QED
  BY <1>1, <1>3, <1>4 DEF MatchingRows

-----------------------------------------------------------------------------
\* Rows and joins.

\* What SQD sends of each table.
LEMMA RowsAre ==
    /\ \A t \in Tables \ {"blocks"} : \A row \in Chain[t] :
          row \in SqdRows(t) <=> \E r \in Requests :
             \/ r.table = t /\ SqdMatches(r, row)
             \/ /\ t \in SqdIncludes(r)
                /\ \E src \in Chain[r.table] :
                      SqdMatches(r, src) /\ Related(r.table, src, t, row)
    /\ asked.include_all_blocks => SqdRows("blocks") = Chain.blocks
BY DEF SqdRows

\* Two rows that belong together share the key of the local join.
LEMMA SharedKey ==
    ASSUME NEW from, NEW t, NEW inc, Leads(from, inc, t), Sensible(from, inc),
           NEW src, NEW row, Related(from, src, t, row)
    PROVE  \A i \in DOMAIN inc.fields : src[inc.fields[i]] = row[inc.otherFields[i]]
<1>1. CASE t = "blocks"
  <2>1. inc.fields = <<"block_slot">> /\ inc.otherFields = <<"slot">>
    BY <1>1 DEF Leads, Sensible
  <2>2. row.slot = src.block_slot
    BY <1>1 DEF Related
  <2> QED
    BY <2>1, <2>2
<1>2. CASE t # "blocks"
  <2>1. row.block_slot = src.block_slot /\ row.transaction_index = src.transaction_index
    BY <1>2 DEF Related
  <2>2. from = "instructions" /\ t = "logs" => row.instruction_address = src.instruction_address
    BY <1>2 DEF Related
  <2>3. CASE inc = On(t, <<"block_slot", "transaction_index">>)
    BY <2>1, <2>3 DEF On
  <2>4. CASE /\ from = "instructions" /\ t = "logs"
             /\ inc = On(t, <<"block_slot", "transaction_index", "instruction_address">>)
    BY <2>1, <2>2, <2>4 DEF On
  <2> QED
    BY <1>2, <2>3, <2>4 DEF Leads
<1> QED
  BY <1>1, <1>2

\* The columns of a join are in the chunk as they are in the chain.
LEMMA KeySeen ==
    ASSUME QueryInv, stage # "new", NEW r \in Requests, NEW inc \in ToGeneric(r).include,
           NEW src \in Chain[r.table], NEW row \in Chain[inc.other]
    PROVE  \A i \in DOMAIN inc.fields :
              /\ Received(r.table, src)[inc.fields[i]] = src[inc.fields[i]]
              /\ Received(inc.other, row)[inc.otherFields[i]] = row[inc.otherFields[i]]
<1>1. IsRequest(r) /\ Sensible(r.table, inc)
  BY QueryFacts, GenericFacts DEF QueryInv
<1>2. r.table \in Tables /\ inc.other \in Tables
  BY <1>1 DEF Sensible, IsRequest, FilterLists, Tables, Types
<1>3. QP!Names(inc.fields) \subseteq req[r.table] /\ QP!Names(inc.otherFields) \subseteq req[inc.other]
  BY ReqFacts
<1>4. "height" \notin QP!Names(inc.fields) /\ "height" \notin QP!Names(inc.otherFields)
  <2>1. \A t \in Tables : "height" \in DOMAIN Types[t] => t = "blocks"
    BY DEF Tables, Types
  <2>2. r.table # "blocks"
    BY <1>1 DEF IsRequest, FilterLists
  <2>3. inc.other = "blocks" => QP!Names(inc.otherFields) = {"slot"}
    BY <1>1, NamesOf DEF Sensible
  <2> QED
    BY <1>1, <1>2, <2>1, <2>2, <2>3 DEF Sensible
<1>5. DOMAIN inc.fields = DOMAIN inc.otherFields
  BY <1>1 DEF Sensible, QP!IsList
<1>6. ASSUME NEW i \in DOMAIN inc.fields
      PROVE  inc.fields[i] \in QP!Names(inc.fields) /\ inc.otherFields[i] \in QP!Names(inc.otherFields)
  BY <1>5 DEF QP!Names
<1> QED
  BY <1>2, <1>3, <1>4, <1>6, Seen

\* Hence the local join finds what belongs to a row that passes.
LEMMA JoinAsks ==
    ASSUME Inv, stage = "local", NEW r \in Requests, NEW t \in r.include,
           NEW src \in SqdRows(r.table), NEW row \in Chain[t],
           QP!Passes(ToGeneric(r), Received(r.table, src)), Related(r.table, src, t, row)
    PROVE  Asks(ToGeneric(r), t, Received(t, row))
<1>1. QueryInv /\ IsRequest(r)
  BY QueryFacts DEF Inv, QueryInv
<1>2. r.table \in Tables /\ ToGeneric(r).table = r.table
  BY <1>1, GenericFacts DEF IsRequest, FilterLists, Tables, Types
<1>3. PICK inc \in ToGeneric(r).include : Leads(r.table, inc, t)
  BY <1>1, GenericFacts
<1>4. Sensible(r.table, inc) /\ inc.other = t
  BY <1>1, <1>3, GenericFacts DEF Leads
<1>5. src \in Chain[r.table] /\ Received(r.table, src) \in data[r.table].rows
  BY <1>1, <1>2, RowsFacts, ChunkFacts
<1>6. \A i \in DOMAIN inc.fields :
         Received(r.table, src)[inc.fields[i]] = Received(t, row)[inc.otherFields[i]]
  BY <1>1, <1>3, <1>4, <1>5, KeySeen, SharedKey
<1>7. QP!Joins(ToGeneric(r), inc, Received(t, row))
  BY <1>2, <1>5, <1>6 DEF QP!Joins
<1> QED
  BY <1>4, <1>7 DEF Asks, QP!Asks

\* The flag of committed instructions is never null in the chunk it filters.
LEMMA NoNullMet ==
    ASSUME Inv, stage = "local", NEW t \in Tables, NEW orig \in Chain[t],
           NEW sel \in Elems(query.selections)
    PROVE  ~NullMet(sel, t, Received(t, orig))
<1>1. QueryInv /\ asked \in SvmQueries /\ query = svm_query_to_generic
  BY DEF Inv, QueryInv
<1>2. SUFFICES ASSUME NEW c \in DOMAIN sel.filters, sel.table = t, sel.filters[c].kind = "bool",
                      Received(t, orig)[c] = Null
               PROVE  FALSE
  BY DEF NullMet, QP!NullMet
<1>3. PICK r \in Requests : sel = ToGeneric(r)
  <2>1. sel # AllBlocks
    BY <1>2 DEF AllBlocks
  <2> QED
    BY <1>1, <2>1, QueryFacts
<1>4. IsRequest(r) /\ r.table = t /\ sel.filters[c] = FilterOf(r, c)
  BY <1>1, <1>2, <1>3, QueryFacts, GenericFacts
<1>5. c = "is_committed"
  BY <1>2, <1>4 DEF FilterOf
<1>6. t = "instructions"
  <2>1. PICK d \in DOMAIN r.filters : c = ColumnOf(d)
    BY <1>2, <1>3, <1>4, GenericFacts
  <2>2. d = "is_committed"
    BY <1>5, <2>1 DEF ColumnOf
  <2> QED
    BY <1>4, <2>2 DEF IsRequest, FilterLists
<1>7. Received(t, orig)[c] = orig[c]
  <2>1. c \in DOMAIN Types[t]
    BY <1>5, <1>6 DEF Types
  <2>2. c \in req[t]
    BY <1>1, <1>2, <1>3, <1>4, <2>1, ReqFacts
  <2> QED
    BY <1>1, <1>5, <2>2, Seen
<1>8. orig.is_committed # Null
  BY <1>6, ChainAssumption, NullAssumption
<1> QED
  BY <1>2, <1>5, <1>7, <1>8

-----------------------------------------------------------------------------
\* A successful local query filters by no three bytes, and its request passed the
\* check of the discriminators.
LEMMA OkRequest ==
    ASSUME Inv, Ok, NEW r \in Requests
    PROVE  /\ stage = "local" /\ IsRequest(r) /\ Listed(r, "d3") = {}
           /\ r.table = "instructions" => ~BadDiscriminators(r)
           /\ r.table \in Tables \ {"blocks"}
           /\ ToGeneric(r) \in Elems(query.selections)
<1>1. EngineInv /\ QueryInv /\ asked \in SvmQueries
  BY DEF Inv, QueryInv
<1>2. stage = "local" /\ \A sel \in Elems(query.selections) : ~QP!SelectionFails(sel)
  BY <1>1, EngineOk
<1>3. query = svm_query_to_generic
  BY <1>1, <1>2 DEF QueryInv
<1>4. IsRequest(r) /\ ToGeneric(r) \in Elems(query.selections)
  BY <1>1, <1>3, QueryFacts
<1>5. Listed(r, "d3") = {}
  BY <1>2, <1>4, FailsOnly
<1>6. r.table = "instructions" => ~BadDiscriminators(r)
  BY <1>1, <1>2 DEF QueryInv
<1>7. r.table \in Tables \ {"blocks"}
  BY <1>4 DEF IsRequest, FilterLists, Tables, Types
<1> QED
  BY <1>2, <1>4, <1>5, <1>6, <1>7

\* A row that matches a request is sent, and passes locally.
LEMMA MatchArrives ==
    ASSUME Inv, Ok, NEW r \in Requests, NEW orig \in MatchingRows(r)
    PROVE  /\ orig \in SqdRows(r.table) /\ orig \in Chain[r.table]
           /\ SqdMatches(r, orig)
           /\ QP!Passes(ToGeneric(r), Received(r.table, orig))
<1>1. orig \in Chain[r.table]
  BY DEF MatchingRows
<1>2. SqdMatches(r, orig)
  BY OkRequest, SqdFindsAll
<1>3. orig \in SqdRows(r.table)
  BY <1>1, <1>2, OkRequest, RowsAre
<1>4. QP!Passes(ToGeneric(r), Received(r.table, orig))
  BY <1>1, OkRequest, LocalPasses
<1> QED
  BY <1>1, <1>2, <1>3, <1>4

\* Cutting discriminators, asking for the columns that filters and joins need and
\* filtering again locally loses no row the caller asked for, in any table.
THEOREM Completeness == Spec => []PushdownComplete
<1>1. ASSUME Inv
      PROVE  PushdownComplete
  <2> SUFFICES ASSUME Ok, NEW t \in Tables, NEW orig \in AskedFor(t)
               PROVE  orig.id \in Got(t)
    BY DEF PushdownComplete, Ids
  <2>1. EngineInv /\ QueryInv /\ asked \in SvmQueries
    BY <1>1 DEF Inv, QueryInv
  <2>2. stage = "local"
    BY <2>1, EngineOk
  <2>3. orig \in Chain[t]
    BY DEF AskedFor
  <2>4. /\ orig \in SqdRows(t)
        /\ \E sel \in Elems(query.selections) : Asks(sel, t, Received(t, orig))
    <3>1. CASE t = "blocks" /\ asked.include_all_blocks
      <4>1. orig \in SqdRows(t)
        BY <2>3, <3>1, RowsAre
      <4>2. AllBlocks \in Elems(query.selections)
        BY <2>1, <2>2, <3>1, QueryFacts DEF QueryInv
      <4>3. Asks(AllBlocks, t, Received(t, orig))
        BY <3>1 DEF Asks, QP!Asks, AllBlocks, QP!Passes
      <4> QED
        BY <4>1, <4>2, <4>3
    <3>2. ASSUME NEW r \in Requests, r.table = t, orig \in MatchingRows(r)
          PROVE  /\ orig \in SqdRows(t)
                 /\ \E sel \in Elems(query.selections) : Asks(sel, t, Received(t, orig))
      <4>1. /\ orig \in SqdRows(t) /\ QP!Passes(ToGeneric(r), Received(t, orig))
            /\ ToGeneric(r) \in Elems(query.selections) /\ ToGeneric(r).table = t
        BY <1>1, <3>2, MatchArrives, OkRequest, GenericFacts
      <4> QED
        BY <4>1 DEF Asks, QP!Asks
    <3>3. ASSUME NEW r \in Requests, t \in r.include, NEW src \in MatchingRows(r),
                 Related(r.table, src, t, orig)
          PROVE  /\ orig \in SqdRows(t)
                 /\ \E sel \in Elems(query.selections) : Asks(sel, t, Received(t, orig))
      <4>1. /\ src \in SqdRows(r.table) /\ src \in Chain[r.table] /\ SqdMatches(r, src)
            /\ QP!Passes(ToGeneric(r), Received(r.table, src))
        BY <1>1, MatchArrives
      <4>2. r.table \in Tables \ {"blocks"} /\ ToGeneric(r) \in Elems(query.selections)
        BY <1>1, OkRequest
      <4>3. CASE t = "blocks"
        <5>1. orig.slot = src.block_slot
          BY <3>3, <4>3 DEF Related
        <5> QED
          BY <1>1, <2>2, <2>3, <3>3, <4>1, <4>2, <4>3, <5>1, BlockSent, JoinAsks
      <4>4. CASE t # "blocks"
        <5>1. t \in SqdIncludes(r)
          BY <3>3, <4>4 DEF SqdIncludes
        <5>2. orig \in SqdRows(t)
          BY <2>3, <3>3, <4>1, <4>4, <5>1, RowsAre
        <5> QED
          BY <1>1, <2>2, <2>3, <3>3, <4>1, <4>2, <5>2, JoinAsks
      <4> QED
        BY <4>3, <4>4
    <3> QED
      BY <3>1, <3>2, <3>3 DEF AskedFor
  <2>5. Received(t, orig) \in data[t].rows
    BY <2>1, <2>2, <2>4, ChunkFacts
  <2>6. \A sel \in Elems(query.selections) : ~NullMet(sel, t, Received(t, orig))
    BY <1>1, <2>2, <2>3, NoNullMet
  <2>7. t \in DOMAIN query.fields
    BY <1>1, <2>2, FailsOnly
  <2>8. t \in DOMAIN output.tables /\ Received(t, orig) \in output.tables[t].rows
    BY <2>1, <2>4, <2>5, <2>6, <2>7, EngineOk
  <2>9. Received(t, orig).id = orig.id
    BY <2>3, ReceivedFacts
  <2> QED
    BY <2>8, <2>9 DEF Got, Ids
<1> QED
  BY <1>1, Inductive, PTL

\* As long as SQD filters by what the caller listed, nothing is returned that was
\* not asked for, although the local joins are wider than the documentation's.
THEOREM Soundness == Spec => []PushdownSound
<1>1. ASSUME Inv
      PROVE  PushdownSound
  <2> SUFFICES ASSUME Ok, \A r \in Requests : ~Widened(r), NEW t \in Tables,
                      t \in DOMAIN output.tables, NEW row \in output.tables[t].rows
               PROVE  \E orig \in AskedFor(t) : orig.id = row.id
    BY DEF PushdownSound, Got, Ids
  <2>1. EngineInv /\ QueryInv /\ asked \in SvmQueries
    BY <1>1 DEF Inv, QueryInv
  <2>2. /\ stage = "local" /\ row \in data[t].rows
        /\ \E sel \in Elems(query.selections) : Asks(sel, t, row)
    BY <2>1, EngineOk
  <2>3. PICK sel \in Elems(query.selections) : Asks(sel, t, row)
    BY <2>2
  <2>4. PICK orig \in SqdRows(t) : row = Received(t, orig)
    BY <2>1, <2>2, ChunkFacts
  <2>5. orig \in Chain[t] /\ orig.id = row.id
    BY <2>1, <2>4, RowsFacts, ReceivedFacts
  <2>6. SUFFICES orig \in AskedFor(t)
    BY <2>5
  <2>7. \A r \in Requests : \A src \in Chain[r.table] :
           SqdMatches(r, src) => src \in MatchingRows(r)
    BY <1>1, OkRequest, SqdFindsOnly
  <2>8. CASE t # "blocks"
    <3>1. PICK r \in Requests :
             \/ r.table = t /\ SqdMatches(r, orig)
             \/ /\ t \in SqdIncludes(r)
                /\ \E src \in Chain[r.table] :
                      SqdMatches(r, src) /\ Related(r.table, src, t, orig)
      BY <2>4, <2>5, <2>8, RowsAre
    <3>2. t \in SqdIncludes(r) => t \in r.include
      BY DEF SqdIncludes
    <3> QED
      BY <2>5, <2>7, <3>1, <3>2 DEF AskedFor
  <2>9. CASE t = "blocks"
    <3>1. CASE asked.include_all_blocks
      BY <2>5, <2>9, <3>1 DEF AskedFor
    <3>2. CASE ~asked.include_all_blocks
      <4>1. PICK r \in Requests : sel = ToGeneric(r)
        BY <2>1, <2>2, <2>3, <3>2, QueryFacts DEF QueryInv
      <4>2. IsRequest(r) /\ ToGeneric(r).table = r.table /\ r.table \in Tables \ {"blocks"}
        BY <1>1, OkRequest, GenericFacts
      <4>3. PICK inc \in ToGeneric(r).include : inc.other = t /\ QP!Joins(ToGeneric(r), inc, row)
        BY <2>3, <2>9, <4>1, <4>2 DEF Asks, QP!Asks
      <4>4. PICK drow \in data[r.table].rows :
               /\ QP!Passes(ToGeneric(r), drow)
               /\ \A i \in DOMAIN inc.fields : drow[inc.fields[i]] = row[inc.otherFields[i]]
        BY <4>2, <4>3 DEF QP!Joins
      <4>5. PICK src \in SqdRows(r.table) : drow = Received(r.table, src)
        BY <2>1, <2>2, <4>2, ChunkFacts
      <4>6. src \in Chain[r.table]
        BY <2>1, <4>2, RowsFacts
      <4>7. src \in MatchingRows(r)
        BY <1>1, <2>2, <4>4, <4>5, <4>6, OkRequest, LocalPasses
      <4>8. /\ "blocks" \in r.include
            /\ inc.fields = <<"block_slot">> /\ inc.otherFields = <<"slot">>
        BY <2>9, <4>2, <4>3, GenericFacts DEF Sensible
      <4>9. drow[inc.fields[1]] = src[inc.fields[1]] /\ row[inc.otherFields[1]] = orig[inc.otherFields[1]]
        BY <2>1, <2>2, <2>4, <2>5, <4>3, <4>5, <4>6, <4>8, KeySeen
      <4>10. orig.slot = src.block_slot
        BY <4>4, <4>8, <4>9
      <4>11. Related(r.table, src, t, orig)
        BY <2>9, <4>10 DEF Related
      <4> QED
        BY <2>5, <2>9, <4>7, <4>8, <4>11 DEF AskedFor
    <3> QED
      BY <3>1, <3>2
  <2> QED
    BY <2>8, <2>9
<1> QED
  BY <1>1, Inductive, PTL
=============================================================================
