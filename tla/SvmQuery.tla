------------------------------- MODULE SvmQuery -------------------------------
(***************************************************************************)
(* The way of a Solana query through start_stream: it is made generic      *)
(* (provider/common.rs), sent to SQD (provider/sqd.rs, the only provider   *)
(* that takes it), and what comes back is filtered by the generic query.   *)
(*                                                                         *)
(* Bytes are sequences.  Of the filters and columns that are treated alike *)
(* one or two stand for all: a0 for a0..a9, account for the lists of a     *)
(* balance.  is_committed is listed as {TRUE} when the flag is set.        *)
(***************************************************************************)
EXTENDS StreamQuery

CONSTANT SvmQueries

Types ==
    [blocks         |-> [slot |-> "int", hash |-> "bytes", height |-> "int"],
     rewards        |-> [block_slot |-> "int", pubkey |-> "bytes"],
     token_balances |-> [block_slot |-> "int", transaction_index |-> "int", account |-> "bytes"],
     balances       |-> [block_slot |-> "int", transaction_index |-> "int", account |-> "bytes"],
     logs           |-> [block_slot |-> "int", transaction_index |-> "int",
                         instruction_address |-> "other", program_id |-> "bytes"],
     transactions   |-> [block_slot |-> "int", transaction_index |-> "int",
                         fee_payer |-> "bytes", signature |-> "bytes"],
     instructions   |-> [block_slot |-> "int", block_hash |-> "bytes",
                         transaction_index |-> "int", instruction_address |-> "other",
                         program_id |-> "bytes", a0 |-> "bytes", rest_of_accounts |-> "other",
                         data |-> "bytes", d1 |-> "bytes", d2 |-> "bytes", d4 |-> "bytes",
                         d8 |-> "bytes", is_committed |-> "bool"]]

Tables == DOMAIN Types

\* The lists of each kind of request, and the tables its flags lead to.
FilterLists ==
    [instructions   |-> {"program_id", "discriminator", "d1", "d2", "d3", "d4", "d8", "a0",
                         "is_committed"},
     transactions   |-> {"fee_payer"},
     logs           |-> {"program_id"},
     balances       |-> {"account"},
     token_balances |-> {"account"},
     rewards        |-> {"pubkey"}]
IncludeFlags ==
    [instructions   |-> {"logs", "blocks", "transactions", "instructions", "token_balances"},
     transactions   |-> {"logs", "instructions", "blocks"},
     logs           |-> {"transactions", "instructions", "blocks"},
     balances       |-> {"transactions", "instructions", "blocks"},
     token_balances |-> {"transactions", "instructions", "blocks"},
     rewards        |-> {"blocks"}]

Bytes == Seq(0..255)

IsRequest(r) ==
    /\ r.table \in DOMAIN FilterLists
    /\ DOMAIN r.filters \subseteq FilterLists[r.table]
    /\ r.include \subseteq IncludeFlags[r.table]
    /\ \A c \in DOMAIN r.filters :
          /\ IsFiniteSet(r.filters[c]) /\ Null \notin r.filters[c]
          /\ c = "is_committed" => r.filters[c] \subseteq {TRUE}
          /\ c = "discriminator" => \A d \in r.filters[c] : d \in Bytes

\* A query is a list of requests, the columns wanted of each table and a flag.
ASSUME SvmQueriesAssumption ==
    \A q \in SvmQueries :
        /\ E!IsList(q.requests)
        /\ \A i \in DOMAIN q.requests : IsRequest(q.requests[i])
        /\ DOMAIN q.fields = Tables
        /\ \A t \in Tables : q.fields[t] \subseteq DOMAIN Types[t]
        /\ q.include_all_blocks \in BOOLEAN

\* The first n bytes of an instruction's data; null where the data is too short.
Cut(bytes, n) == IF Len(bytes) < n THEN Null ELSE SubSeq(bytes, 1, n)

\* Every row is in a block; the prefixes of an instruction's data are its own.
ASSUME ChainAssumption ==
    /\ DOMAIN Chain = Tables
    /\ \A t \in Tables : \A row \in Chain[t] : DOMAIN row = DOMAIN Types[t] \cup {"id"}
    /\ IsFiniteSet(Chain.blocks)
    /\ \A b \in Chain.blocks : b.slot \in Nat
    /\ \A t \in Tables \ {"blocks"} : \A row \in Chain[t] :
          \E b \in Chain.blocks : b.slot = row.block_slot
    /\ \A row \in Chain.instructions :
          /\ row.data \in Bytes /\ row.data # Null
          /\ row.is_committed \in BOOLEAN
          /\ row.d1 = Cut(row.data, 1) /\ row.d2 = Cut(row.data, 2)
          /\ row.d4 = Cut(row.data, 4) /\ row.d8 = Cut(row.data, 8)

-----------------------------------------------------------------------------
\* svm_query_to_generic.

On(other, columns) == [fields |-> columns, other |-> other, otherFields |-> columns]
OnTx(other) == {On(other, <<"block_slot", "transaction_index">>)}
OnSlot == {[fields |-> <<"block_slot">>, other |-> "blocks", otherFields |-> <<"slot">>]}

\* The values listed for c by request r.
Listed(r, c) == IF c \in DOMAIN r.filters THEN r.filters[c] ELSE {}

\* Mutant: the discriminators are looked for in a column of their own.
SelectionByName(r, joins) ==
    LET used == {c \in DOMAIN r.filters : Listed(r, c) # {}}
        filter(c) == IF c = "is_committed" THEN [kind |-> "bool", type |-> "bool", value |-> TRUE]
                     ELSE [kind |-> "contains", type |-> "bytes", values |-> Listed(r, c)]
    IN  [table   |-> r.table,
         filters |-> [c \in used |-> filter(c)],
         include |-> UNION {joins[o] : o \in r.include}]

\* A filter for each list that is not empty, and the joins of the flags set.
Selection(r, joins) ==
    LET contains(c) == [kind |-> "contains", type |-> "bytes", values |-> Listed(r, c)]
        used == {c \in DOMAIN r.filters : Listed(r, c) # {}}
        column(c) == IF c = "discriminator" THEN "data" ELSE c
        filter(c) == CASE c = "data" ->
                            [kind |-> "starts_with", type |-> "bytes",
                             values |-> Listed(r, "discriminator")]
                       [] c = "is_committed" -> [kind |-> "bool", type |-> "bool", value |-> TRUE]
                       [] OTHER -> contains(c)
    IN  [table   |-> r.table,
         filters |-> [c \in {column(d) : d \in used} |-> filter(c)],
         include |-> UNION {joins[o] : o \in r.include}]

\* include_logs also leads to the instructions of the block with the same address.
svm_instruction_selection_to_generic(r) ==
    Selection(r,
        [logs |-> {On("logs", <<"block_slot", "transaction_index", "instruction_address">>),
                   On("instructions", <<"block_slot", "instruction_address">>)},
         blocks         |-> OnSlot,
         transactions   |-> OnTx("transactions"),
         instructions   |-> OnTx("instructions"),
         token_balances |-> OnTx("token_balances")])

svm_transaction_selection_to_generic(r) ==
    Selection(r, [logs |-> OnTx("logs"), instructions |-> OnTx("instructions"), blocks |-> OnSlot])

\* svm_log_, svm_balance_ and svm_token_balance_selection_to_generic.
svm_log_selection_to_generic(r) ==
    Selection(r, [transactions |-> OnTx("transactions"), instructions |-> OnTx("instructions"),
                  blocks |-> OnSlot])
svm_balance_selection_to_generic(r) ==
    Selection(r, [transactions |-> OnTx("transactions"), instructions |-> OnTx("instructions"),
                  blocks |-> OnSlot])
svm_token_balance_selection_to_generic(r) ==
    Selection(r, [transactions |-> OnTx("transactions"), instructions |-> OnTx("instructions"),
                  blocks |-> OnSlot])

svm_reward_selection_to_generic(r) == Selection(r, [blocks |-> OnSlot])

ToGeneric(r) ==
    CASE r.table = "instructions"   -> svm_instruction_selection_to_generic(r)
      [] r.table = "transactions"   -> svm_transaction_selection_to_generic(r)
      [] r.table = "logs"           -> svm_log_selection_to_generic(r)
      [] r.table = "balances"       -> svm_balance_selection_to_generic(r)
      [] r.table = "token_balances" -> svm_token_balance_selection_to_generic(r)
      [] r.table = "rewards"        -> svm_reward_selection_to_generic(r)

svm_query_to_generic ==
    [selections |-> [i \in DOMAIN asked.requests |-> ToGeneric(asked.requests[i])]
                    \o (IF asked.include_all_blocks THEN <<AllBlocks>> ELSE <<>>),
     fields |-> asked.fields]

StartStream ==
    /\ stage = "new"
    /\ query' = svm_query_to_generic
    /\ req' = make_req_fields(svm_query_to_generic, Types)
    /\ stage' = "request"
    /\ UNCHANGED <<provider, asked, last_block, data, masks, output>>

\* HyperSync and RPC take no Solana query.
NotSupported ==
    /\ stage = "request"
    /\ provider \in {"hypersync", "rpc"}
    /\ stage' = "rejected"
    /\ UNCHANGED <<provider, asked, req, last_block, engine>>

-----------------------------------------------------------------------------
\* svm_query_to_sqd.

Widths == {1, 2, 3, 4, 8}
PrefixLists == {"d1", "d2", "d3", "d4", "d8"}
D(n) == <<"d1", "d2", "d3", "d4", "", "", "", "d8">>[n]

\* Mutant: five to seven bytes are sent as if they were eight.
SentWidthUp(len) == IF len <= 4 THEN len ELSE 8

\* How many bytes of a discriminator are sent.
SentWidth(len) == CASE len <= 4 -> len [] len \in 5..7 -> 4 [] OTHER -> 8

\* The prefixes of n bytes an instruction request is sent with: those the caller
\* lists, and what is kept of the discriminators.
SqdPrefixes(r, n) ==
    Listed(r, D(n))
    \cup {SubSeq(d, 1, Min({n, Len(d)})) : d \in {e \in Listed(r, "discriminator") : SentWidth(Len(e)) = n}}

\* Mutant: program ids are not sent.
SqdListsNoProgram(r) ==
    DOMAIN r.filters \ (PrefixLists \cup {"discriminator", "program_id"})

\* The lists sent as they are.
SqdLists(r) == DOMAIN r.filters \ (PrefixLists \cup {"discriminator"})

BadDiscriminators(r) ==
    LET lengths == {Len(d) : d \in Listed(r, "discriminator")}
    IN  Cardinality(lengths) > 1 \/ 0 \in lengths

\* Mutant: the slot of a table's rows is sent if that table asks for it.
SqdColumnsOwn(t) ==
    (req[t] \ {"height"})
    \cup (IF {"a0", "rest_of_accounts"} \cap req[t] # {} THEN {"a0", "rest_of_accounts"} ELSE {})

\* Mutant: only the blocks table's hash is looked at.
SqdColumnsOfBlock(t) ==
    LET anywhere(c) == \E u \in Tables : c \in req[u]
    IN  (req[t] \ {"hash", "block_hash", "height"})
        \cup (IF anywhere("slot") \/ anywhere("block_slot") THEN {"slot", "block_slot"} ELSE {})
        \cup (IF anywhere("hash") THEN {"hash", "block_hash"} ELSE {})

\* The columns sent.  A block's slot and hash are sent once, for all tables; the
\* accounts of an instruction come together; the height is never asked for.
SqdColumns(t) ==
    LET anywhere(c) == \E u \in Tables : c \in req[u]
        accounts == {"a0", "rest_of_accounts"}
        once == {"slot", "block_slot", "hash", "block_hash", "height"} \cup accounts
    IN  (req[t] \ once)
        \cup (IF anywhere("slot") \/ anywhere("block_slot") THEN {"slot", "block_slot"} ELSE {})
        \cup (IF anywhere("hash") \/ anywhere("block_hash") THEN {"hash", "block_hash"} ELSE {})
        \cup (IF accounts \cap req[t] # {} THEN accounts ELSE {})

\* Mutant: the flag of an instruction's token balances is not passed on.
SqdIncludesNoBalances(r) == r.include \ {"blocks", "token_balances"}

\* The flags that are passed on: SQD sends blocks in any case.
SqdIncludes(r) == r.include \ {"blocks"}

RequestFails ==
    /\ stage = "request"
    /\ provider = "sqd"
    /\ \E r \in Requests : r.table = "instructions" /\ BadDiscriminators(r)
    /\ stage' = "rejected"
    /\ UNCHANGED <<provider, asked, req, last_block, engine>>

svm_query_to_sqd ==
    /\ stage = "request"
    /\ provider = "sqd"
    /\ \A r \in Requests : r.table = "instructions" => ~BadDiscriminators(r)
    /\ stage' = "await"
    /\ UNCHANGED <<provider, asked, req, last_block, engine>>

-----------------------------------------------------------------------------
\* SQD's server (external).

HasPrefix(row, n, prefixes) == Len(row.data) >= n /\ SubSeq(row.data, 1, n) \in prefixes

MatchesLists(r, lists, row) == \A c \in lists : r.filters[c] # {} => row[c] \in r.filters[c]

SqdMatches(r, row) ==
    /\ MatchesLists(r, SqdLists(r), row)
    /\ r.table = "instructions" =>
          \A n \in Widths : SqdPrefixes(r, n) # {} => HasPrefix(row, n, SqdPrefixes(r, n))

\* What belongs to a row of table from: its block, its transaction, what is in its
\* transaction, an instruction's own logs and inner instructions, a log's own
\* instruction.
Related(from, src, t, row) ==
    IF t = "blocks" THEN row.slot = src.block_slot
    ELSE /\ <<row.block_slot, row.transaction_index>> = <<src.block_slot, src.transaction_index>>
         /\ {from, t} = {"instructions", "logs"} => row.instruction_address = src.instruction_address
         /\ {from, t} = {"instructions"} =>
               E!IsStrictPrefix(src.instruction_address, row.instruction_address)

SqdRows(t) ==
    LET matched(r) == {row \in Chain[r.table] : SqdMatches(r, row)}
        rows(u)    == {row \in Chain[u] : \E r \in Requests :
                         \/ r.table = u /\ row \in matched(r)
                         \/ /\ u \in SqdIncludes(r)
                            /\ \E src \in matched(r) : Related(r.table, src, u, row)}
        slots      == {row.block_slot : row \in UNION {rows(u) : u \in Tables \ {"blocks"}}}
    IN  IF t # "blocks" THEN rows(t)
        ELSE {row \in Chain.blocks : asked.include_all_blocks \/ row.slot \in slots}

\* A column that was not asked for is null.
Received(t, row) ==
    [c \in DOMAIN row |-> IF c = "id" \/ c \in SqdColumns(t) THEN row[c] ELSE Null]

\* The seven batches of a response.
Response ==
    [t \in Tables |-> [types |-> Types[t], rows |-> {Received(t, row) : row \in SqdRows(t)}]]

Respond ==
    /\ stage = "await"
    /\ data' = Response
    /\ stage' = "chunk"
    /\ UNCHANGED <<provider, asked, req, last_block, query, masks, output>>

-----------------------------------------------------------------------------
Init == InitWith(SvmQueries, Tables)

Next == StartStream \/ NotSupported \/ RequestFails \/ svm_query_to_sqd
        \/ Respond \/ LocalQuery \/ RunQuery \/ Over

Spec == Init /\ [][Next]_vars

-----------------------------------------------------------------------------
\* What the caller's documentation (src/python/tiders_core/ingest/svm.py) says a
\* query returns, over the whole chain.

MatchingRows(r) ==
    {row \in Chain[r.table] :
        /\ MatchesLists(r, DOMAIN r.filters \ (PrefixLists \cup {"discriminator"}), row)
        /\ r.table = "instructions" =>
              /\ \A n \in Widths : Listed(r, D(n)) # {} => HasPrefix(row, n, Listed(r, D(n)))
              /\ Listed(r, "discriminator") # {} =>
                    \E d \in Listed(r, "discriminator") : E!IsPrefix(d, row.data)}

AskedFor(t) ==
    {row \in Chain[t] :
        \/ t = "blocks" /\ asked.include_all_blocks
        \/ \E r \in Requests :
              \/ r.table = t /\ row \in MatchingRows(r)
              \/ t \in r.include /\ \E src \in MatchingRows(r) : Related(r.table, src, t, row)}

\* SQD is sent less of the discriminators than the caller listed, or more prefixes.
Widened(r) ==
    \E n \in Widths : \E d \in Listed(r, "discriminator") :
        SentWidth(Len(d)) = n /\ (Len(d) # n \/ Listed(r, D(n)) # {})

\* Cutting discriminators, requesting the columns that filters and joins need and
\* filtering again loses no row, in any of the seven tables.
PushdownComplete ==
    Ok => \A t \in Tables : req[t] # {} => Ids(AskedFor(t)) \subseteq Got(t)

\* The local joins are wider than the documentation's (a log's is on the whole
\* transaction, an instruction's on addresses in the block), but as long as SQD
\* filters by what the caller listed, they find nothing that was not asked for.
PushdownSound ==
    Ok /\ (\A r \in Requests : ~Widened(r)) =>
        \A t \in Tables : Got(t) \subseteq Ids(AskedFor(t))

\* A local query fails only if it filters by three bytes of data.
FailsOnlyByD3 ==
    output.state = "error" => \E r \in Requests : Listed(r, "d3") # {}

\* The last block of a chunk is the highest slot of its rows although only the
\* blocks table has a column extract_last_block knows: the slot is requested for
\* all tables or for none.
LastBlockIsHighest ==
    output.state \in {"ok", "error"} /\ last_block # Null =>
        /\ \A t \in Tables \ {"blocks"} : \A row \in data[t].rows :
               row.block_slot # Null /\ row.block_slot <= last_block
        /\ \E row \in data.blocks.rows : row.slot = last_block

\* A column the caller asked for is null only where the chain has no value, but
\* for the height of a block.
ColumnsServed ==
    Ok => \A t \in DOMAIN output.tables : \A row \in output.tables[t].rows :
             \A c \in asked.fields[t] \ {"height"} :
                 \E orig \in Chain[t] : orig.id = row.id /\ row[c] = orig[c]
=============================================================================
