----------------------------- MODULE QueryEngine -----------------------------
(***************************************************************************)
(* The local query engine (src/query/src/lib.rs): run_query filters the    *)
(* tables of a chunk, adds the rows that joins ask for and projects the    *)
(* requested columns.                                                      *)
(*                                                                         *)
(* A table is [types, rows]: the type of each of its columns, and rows     *)
(* that are functions from columns to values, Null being a null.  A        *)
(* boolean array is a function from rows to TRUE, FALSE or Null.  Bytes    *)
(* are sequences; that a set of 128 values or more is looked up in a hash  *)
(* table and a smaller one scanned is one membership test here.            *)
(***************************************************************************)
EXTENDS SequencesExt

CONSTANTS
    Null,
    Datasets,  \* the chunks a provider may hand over: [tables -> table]
    Queries    \* the queries to run on them

\* A function that is a sequence.
IsList(s) == s \in Seq({s[i] : i \in DOMAIN s})

\* A mask's null is none of its truth values; a column is of a type the engine
\* has a case for or of another; column lists are lists.
ASSUME NullAssumption == Null \notin BOOLEAN
ASSUME DatasetsAssumption ==
    \A d \in Datasets : \A t \in DOMAIN d : \A c \in DOMAIN d[t].types :
        d[t].types[c] \in {"int", "bytes", "bool", "other"}
ASSUME QueriesAssumption ==
    \A q \in Queries : \A i \in DOMAIN q.selections : \A inc \in q.selections[i].include :
        IsList(inc.fields) /\ IsList(inc.otherFields)

VARIABLES
    data,      \* the chunk
    query,     \* [selections : Seq(selection), fields : [tables -> SUBSET columns]]
    masks,     \* masks[i]: [state, mask], what became of selection i
    output     \* [state, tables]

vars == <<data, query, masks, output>>

NoTables == [t \in {} |-> {}]

-----------------------------------------------------------------------------
\* arrow's and / or: null if either side is.  Both are associative and
\* commutative, so a chain of them is an operator on the set of operands.
AndAll(S) == IF Null \in S THEN Null ELSE FALSE \notin S
OrAll(S)  == IF Null \in S THEN Null ELSE TRUE \in S

\* The filters each type of column can be given: a type contains and starts_with
\* have no case for makes them fail.
Supports == [int |-> {"contains"}, bytes |-> {"contains", "starts_with"},
             bool |-> {"bool"}, other |-> {}]

\* The filter's array has the type of the column.
Fits(filter, type) == filter.type = type /\ filter.kind \in Supports[type]

\* Mutant: what lies under a null is taken for a value.
contains_under_null(values, value) == value = Null \/ value \in values

\* Set membership and prefix match; a null is masked to FALSE.
contains(values, value)    == value # Null /\ value \in values
starts_with(values, value) == value # Null /\ \E p \in values : IsPrefix(p, value)

\* Bool leaves a null null: the null mask it ands in does not clear the array's
\* own nulls.
check(filter, value) ==
    CASE filter.kind = "contains"    -> contains(filter.values, value)
      [] filter.kind = "starts_with" -> starts_with(filter.values, value)
      [] filter.kind = "bool"        -> IF value = Null THEN Null ELSE value = filter.value

\* The row format of some columns of a row: equal iff the values are, nulls
\* included.
columns_to_binary_array(row, names) == [i \in DOMAIN names |-> row[names[i]]]

Names(names) == {names[i] : i \in DOMAIN names}
Columns(t) == DOMAIN data[t].types

-----------------------------------------------------------------------------
\* run_table_selection.

\* Everything that makes it return an error.
SelectionFails(sel) ==
    \/ sel.table \notin DOMAIN data
    \/ \E c \in DOMAIN sel.filters :
          c \notin Columns(sel.table) \/ ~Fits(sel.filters[c], data[sel.table].types[c])
    \/ \E inc \in sel.include :
          \/ Len(inc.fields) # Len(inc.otherFields)
          \/ inc.other \notin DOMAIN data
          \/ ~(Names(inc.fields) \subseteq Columns(sel.table))
          \/ ~(Names(inc.otherFields) \subseteq Columns(inc.other))

\* The and of the filters; without filters every row passes.
FilterMask(sel) ==
    [row \in data[sel.table].rows |->
        AndAll({check(sel.filters[c], row[c]) : c \in DOMAIN sel.filters})]

\* Mutant: joins against every row of the table, filtered or not.
IncludeMaskUnfiltered(sel, inc) ==
    LET keys == {columns_to_binary_array(row, inc.fields) : row \in data[sel.table].rows}
    IN  [row \in data[inc.other].rows |->
            columns_to_binary_array(row, inc.otherFields) \in keys]

\* Rows of the other table whose key is that of a row that passed.
IncludeMask(sel, inc) ==
    LET passed == {row \in data[sel.table].rows : FilterMask(sel)[row] = TRUE}
        keys   == {columns_to_binary_array(row, inc.fields) : row \in passed}
    IN  [row \in data[inc.other].rows |->
            columns_to_binary_array(row, inc.otherFields) \in keys]

\* One mask per table the selection speaks of: its own filter or-ed with the
\* includes that lead there.
run_table_selection(sel) ==
    LET own(t)   == IF t = sel.table THEN {FilterMask(sel)} ELSE {}
        incs(t)  == {IncludeMask(sel, inc) : inc \in {i \in sel.include : i.other = t}}
        tables   == {sel.table} \cup {inc.other : inc \in sel.include}
    IN  [t \in tables |->
            [row \in data[t].rows |-> OrAll({m[row] : m \in own(t) \cup incs(t)})]]

-----------------------------------------------------------------------------
\* run_query.

MasksFor(t) == {masks[i].mask[t] : i \in {j \in DOMAIN masks : t \in DOMAIN masks[j].mask}}

\* Mutant: the masks of a table are and-ed.
CombinedMaskAnd(t) ==
    [row \in data[t].rows |-> AndAll({m[row] : m \in MasksFor(t)})]

\* The or of every mask for table t.
CombinedMask(t) ==
    [row \in data[t].rows |-> OrAll({m[row] : m \in MasksFor(t)})]

select_fields(t) == query.fields[t] \cap Columns(t)

\* A selection is run on the pool, in any order.
RunSelection(i) ==
    /\ output.state = "running"
    /\ masks[i].state = "pending"
    /\ masks' = [masks EXCEPT ![i] =
                    IF SelectionFails(query.selections[i])
                    THEN [state |-> "error", mask |-> NoTables]
                    ELSE [state |-> "ok", mask |-> run_table_selection(query.selections[i])]]
    /\ UNCHANGED <<data, query, output>>

\* An error is the result, whatever is still running.
SelectionError ==
    /\ output.state = "running"
    /\ \E i \in DOMAIN masks : masks[i].state = "error"
    /\ output' = [state |-> "error", tables |-> NoTables]
    /\ UNCHANGED <<data, query, masks>>

\* What is returned once the masks are there.  A table without a mask is left out.
Result ==
    IF ~(DOMAIN query.fields \subseteq DOMAIN data)
    THEN [state |-> "error", tables |-> NoTables]
    ELSE [state |-> "ok",
          tables |-> [t \in {u \in DOMAIN query.fields : MasksFor(u) # {}} |->
                        [cols |-> select_fields(t),
                         rows |-> {row \in data[t].rows : CombinedMask(t)[row] = TRUE}]]]

\* Mutant: does not wait for the selections still running.
CombineEarly ==
    /\ output.state = "running"
    /\ \A i \in DOMAIN masks : masks[i].state # "error"
    /\ output' = Result
    /\ UNCHANGED <<data, query, masks>>

Combine ==
    /\ output.state = "running"
    /\ \A i \in DOMAIN masks : masks[i].state = "ok"
    /\ output' = Result
    /\ UNCHANGED <<data, query, masks>>

Pending(selections) == [i \in DOMAIN selections |-> [state |-> "pending", mask |-> NoTables]]
Running == [state |-> "running", tables |-> NoTables]

Init ==
    /\ data \in Datasets
    /\ query \in Queries
    /\ masks = Pending(query.selections)
    /\ output = Running

RunQuery == (\E i \in DOMAIN masks : RunSelection(i)) \/ SelectionError \/ Combine

Returned == output.state \in {"ok", "error"} /\ UNCHANGED vars

Next == RunQuery \/ Returned

Spec == Init /\ [][Next]_vars /\ WF_vars(RunQuery)

-----------------------------------------------------------------------------
\* What a query asks for, said row by row.

Accepts(filter, value) ==
    /\ value # Null
    /\ CASE filter.kind = "contains"    -> value \in filter.values
         [] filter.kind = "starts_with" -> \E p \in filter.values : IsPrefix(p, value)
         [] filter.kind = "bool"        -> value = filter.value

Passes(sel, row) == \A c \in DOMAIN sel.filters : Accepts(sel.filters[c], row[c])

Joins(sel, inc, row) ==
    \E src \in data[sel.table].rows :
        /\ Passes(sel, src)
        /\ \A i \in DOMAIN inc.fields : src[inc.fields[i]] = row[inc.otherFields[i]]

Wanted(t) ==
    {row \in data[t].rows :
        \E sel \in Range(query.selections) :
            \/ sel.table = t /\ Passes(sel, row)
            \/ \E inc \in sel.include : inc.other = t /\ Joins(sel, inc, row)}

\* Rows that a Bool filter on their own table meets with a null.
NullUnderBool(t) ==
    {row \in data[t].rows :
        \E sel \in Range(query.selections) :
            /\ sel.table = t
            /\ \E c \in DOMAIN sel.filters : sel.filters[c].kind = "bool" /\ row[c] = Null}

Ok == output.state = "ok"

\* run_query returns only rows that some selection asks for, by a filter or by a
\* join, in whatever order the pool ran the selections.
Sound ==
    Ok => \A t \in DOMAIN output.tables : output.tables[t].rows \subseteq Wanted(t)

\* It returns every such row, other than rows with a null in a column that a Bool
\* filter looks at; and it returns every requested table in which a row is wanted.
CompleteButNulls ==
    Ok => \A t \in DOMAIN query.fields :
             Wanted(t) \ NullUnderBool(t) \subseteq
                 (IF t \in DOMAIN output.tables THEN output.tables[t].rows ELSE {})

\* Whether run_query fails is a matter of the query and the chunk alone, not of
\* which selection the pool finishes first.
FailsByInput ==
    output.state \in {"ok", "error"} =>
        (output.state = "error" <=>
            \/ \E sel \in Range(query.selections) : SelectionFails(sel)
            \/ ~(DOMAIN query.fields \subseteq DOMAIN data))
=============================================================================
