-------------------------- MODULE QueryEngineProofs --------------------------
(***************************************************************************)
(* Correctness of run_query for every chunk and every query: whatever      *)
(* order the pool runs the selections in, the rows returned are the rows   *)
(* asked for, and whether it fails depends on its input alone.             *)
(***************************************************************************)
EXTENDS QueryEngine, TLAPS

-----------------------------------------------------------------------------
\* The inductive invariant.

Selection(i) == query.selections[i]

\* The result of a selection is a function of the selection and the chunk.
MaskInv ==
    /\ DOMAIN masks = DOMAIN query.selections
    /\ \A i \in DOMAIN masks :
          \/ masks[i].state = "pending"
          \/ masks[i].state = "error" /\ SelectionFails(Selection(i))
          \/ /\ masks[i].state = "ok"
             /\ ~SelectionFails(Selection(i))
             /\ masks[i].mask = run_table_selection(Selection(i))

\* What is returned is the error of a selection, or what all masks give together.
OutputInv ==
    \/ output.state = "running"
    \/ /\ output.state = "error"
       /\ \E i \in DOMAIN masks : masks[i].state = "error"
    \/ /\ output = Result
       /\ \A i \in DOMAIN masks : masks[i].state = "ok"

\* A column is of a type the engine has a case for or of another, and column
\* lists are lists.
ChunkOk ==
    \A t \in DOMAIN data : \A c \in DOMAIN data[t].types :
        data[t].types[c] \in {"int", "bytes", "bool", "other"}
QueryOk ==
    \A i \in DOMAIN query.selections : \A inc \in Selection(i).include :
        IsList(inc.fields) /\ IsList(inc.otherFields)

Inv ==
    /\ ChunkOk
    /\ QueryOk
    /\ MaskInv
    /\ OutputInv

-----------------------------------------------------------------------------
\* A filter that fits its column answers TRUE, FALSE, or, only for Bool over a
\* null, Null; TRUE is what Accepts says.
LEMMA CheckFacts ==
    ASSUME NEW filter, NEW type \in {"int", "bytes", "bool", "other"}, NEW value,
           Fits(filter, type)
    PROVE  /\ check(filter, value) = TRUE <=> Accepts(filter, value)
           /\ check(filter, value) \in BOOLEAN \cup {Null}
           /\ check(filter, value) = Null => filter.kind = "bool" /\ value = Null
<1>1. filter.kind \in {"contains", "starts_with", "bool"}
  BY DEF Fits, Supports
<1>2. CASE filter.kind = "contains"
  <2>1. check(filter, value) = contains(filter.values, value)
    BY <1>2 DEF check
  <2>2. contains(filter.values, value) \in BOOLEAN
    BY DEF contains
  <2>3. Accepts(filter, value) <=> value # Null /\ value \in filter.values
    BY <1>2 DEF Accepts
  <2> QED
    BY <2>1, <2>2, <2>3, NullAssumption DEF contains
<1>3. CASE filter.kind = "starts_with"
  <2>1. check(filter, value) = starts_with(filter.values, value)
    BY <1>3 DEF check
  <2>2. starts_with(filter.values, value) \in BOOLEAN
    BY DEF starts_with
  <2>3. Accepts(filter, value) <=>
            value # Null /\ \E p \in filter.values : IsPrefix(p, value)
    BY <1>3 DEF Accepts
  <2> QED
    BY <2>1, <2>2, <2>3, NullAssumption DEF starts_with
<1>4. CASE filter.kind = "bool"
  <2>1. check(filter, value) = IF value = Null THEN Null ELSE value = filter.value
    BY <1>4 DEF check
  <2>2. Accepts(filter, value) <=> value # Null /\ value = filter.value
    BY <1>4 DEF Accepts
  <2> QED
    BY <1>4, <2>1, <2>2, NullAssumption
<1> QED
  BY <1>1, <1>2, <1>3, <1>4

\* or is TRUE if an operand is and none is Null, and Null if one is.
LEMMA OrAllFacts ==
    ASSUME NEW S
    PROVE  /\ OrAll(S) = TRUE <=> Null \notin S /\ TRUE \in S
           /\ OrAll(S) = Null <=> Null \in S
<1>1. CASE Null \in S
  <2>1. OrAll(S) = Null /\ Null # TRUE
    BY <1>1, NullAssumption DEF OrAll
  <2> QED
    BY <1>1, <2>1
<1>2. CASE Null \notin S
  <2>1. OrAll(S) = (TRUE \in S)
    BY <1>2 DEF OrAll
  <2>2. (TRUE \in S) \in BOOLEAN
    OBVIOUS
  <2> QED
    BY <1>2, <2>1, <2>2, NullAssumption
<1> QED
  BY <1>1, <1>2

\* The and of a selection's filters is TRUE on the rows that pass, and Null only
\* where a Bool filter meets a null.
LEMMA FilterFacts ==
    ASSUME ChunkOk, NEW sel, ~SelectionFails(sel),
           NEW row \in data[sel.table].rows
    PROVE  /\ FilterMask(sel)[row] = TRUE <=> Passes(sel, row)
           /\ FilterMask(sel)[row] \in BOOLEAN \cup {Null}
           /\ FilterMask(sel)[row] = Null =>
                 \E c \in DOMAIN sel.filters : sel.filters[c].kind = "bool" /\ row[c] = Null
<1> DEFINE S == {check(sel.filters[c], row[c]) : c \in DOMAIN sel.filters}
<1>1. FilterMask(sel)[row] = AndAll(S)
  BY DEF FilterMask
<1>2. ASSUME NEW c \in DOMAIN sel.filters
      PROVE  /\ check(sel.filters[c], row[c]) = TRUE <=> Accepts(sel.filters[c], row[c])
             /\ check(sel.filters[c], row[c]) \in BOOLEAN \cup {Null}
             /\ check(sel.filters[c], row[c]) = Null =>
                   sel.filters[c].kind = "bool" /\ row[c] = Null
  <2>1. /\ sel.table \in DOMAIN data
        /\ c \in DOMAIN data[sel.table].types
        /\ Fits(sel.filters[c], data[sel.table].types[c])
    BY DEF SelectionFails, Columns
  <2>2. data[sel.table].types[c] \in {"int", "bytes", "bool", "other"}
    BY <2>1 DEF ChunkOk
  <2> QED
    BY <2>1, <2>2, CheckFacts
<1>3. AndAll(S) = Null => Null \in S
  BY NullAssumption DEF AndAll
<1>4. AndAll(S) \in BOOLEAN \cup {Null}
  BY DEF AndAll
<1>5. AndAll(S) = TRUE <=> Null \notin S /\ FALSE \notin S
  BY NullAssumption DEF AndAll
<1>6. Null \notin S /\ FALSE \notin S <=> \A c \in DOMAIN sel.filters : check(sel.filters[c], row[c]) = TRUE
  BY <1>2, NullAssumption
<1>7. AndAll(S) = TRUE <=> Passes(sel, row)
  BY <1>2, <1>5, <1>6 DEF Passes
<1> QED
  BY <1>1, <1>2, <1>3, <1>4, <1>7

\* A join is TRUE on the rows that share the key of a row that passes, else FALSE.
LEMMA IncludeFacts ==
    ASSUME ChunkOk, NEW sel, ~SelectionFails(sel), NEW inc \in sel.include,
           IsList(inc.fields), IsList(inc.otherFields),
           NEW row \in data[inc.other].rows
    PROVE  /\ IncludeMask(sel, inc)[row] \in BOOLEAN
           /\ IncludeMask(sel, inc)[row] = TRUE <=> Joins(sel, inc, row)
<1> DEFINE passed == {src \in data[sel.table].rows : FilterMask(sel)[src] = TRUE}
           keys   == {columns_to_binary_array(src, inc.fields) : src \in passed}
           key    == columns_to_binary_array(row, inc.otherFields)
<1>1. IncludeMask(sel, inc)[row] = (key \in keys)
  BY DEF IncludeMask
<1>2. DOMAIN inc.fields = DOMAIN inc.otherFields
  <2>1. Len(inc.fields) = Len(inc.otherFields)
    BY DEF SelectionFails
  <2> QED
    BY <2>1 DEF IsList
<1>3. ASSUME NEW src
      PROVE  key = columns_to_binary_array(src, inc.fields) <=>
                \A i \in DOMAIN inc.fields : src[inc.fields[i]] = row[inc.otherFields[i]]
  BY <1>2 DEF columns_to_binary_array
<1>4. \A src : src \in passed <=> src \in data[sel.table].rows /\ Passes(sel, src)
  BY FilterFacts
<1>5. key \in keys <=> \E src \in passed : key = columns_to_binary_array(src, inc.fields)
  OBVIOUS
<1>6. key \in keys <=> Joins(sel, inc, row)
  BY <1>3, <1>4, <1>5 DEF Joins
<1>7. (key \in keys) = TRUE <=> key \in keys
  OBVIOUS
<1> HIDE DEF key, keys
<1>8. IncludeMask(sel, inc)[row] \in BOOLEAN
  BY <1>1
<1>9. IncludeMask(sel, inc)[row] = TRUE <=> key \in keys
  BY <1>1
<1> QED
  BY <1>6, <1>8, <1>9

\* What selection sel asks for of table t.
Asks(sel, t, row) ==
    \/ sel.table = t /\ Passes(sel, row)
    \/ \E inc \in sel.include : inc.other = t /\ Joins(sel, inc, row)

\* A Bool filter of sel on table t meets a null.
NullMet(sel, t, row) ==
    sel.table = t /\ \E c \in DOMAIN sel.filters : sel.filters[c].kind = "bool" /\ row[c] = Null

\* run_table_selection gives masks for the tables the selection speaks of, TRUE
\* only for rows it asks for, and for all of those that meet no null.
LEMMA SelectionFacts ==
    ASSUME ChunkOk, NEW sel, ~SelectionFails(sel),
           \A inc \in sel.include : IsList(inc.fields) /\ IsList(inc.otherFields),
           NEW t, NEW row \in data[t].rows
    PROVE  /\ Asks(sel, t, row) => t \in DOMAIN run_table_selection(sel)
           /\ t \in DOMAIN run_table_selection(sel) =>
                 LET m == run_table_selection(sel)[t][row]
                 IN  /\ m = TRUE => Asks(sel, t, row)
                     /\ m = Null => NullMet(sel, t, row)
                     /\ Asks(sel, t, row) /\ ~NullMet(sel, t, row) => m = TRUE
<1> DEFINE own  == IF t = sel.table THEN {FilterMask(sel)} ELSE {}
           incs == {IncludeMask(sel, inc) : inc \in {i \in sel.include : i.other = t}}
           S    == {m[row] : m \in own \cup incs}
           tables == {sel.table} \cup {inc.other : inc \in sel.include}
<1>1. DOMAIN run_table_selection(sel) = tables
  BY DEF run_table_selection
<1>2. t \in tables => run_table_selection(sel)[t][row] = OrAll(S)
  BY DEF run_table_selection
<1>3. \A v : v \in S <=> \/ t = sel.table /\ v = FilterMask(sel)[row]
                         \/ \E inc \in sel.include : inc.other = t /\ v = IncludeMask(sel, inc)[row]
  OBVIOUS
<1>4. t = sel.table =>
        /\ FilterMask(sel)[row] = TRUE <=> Passes(sel, row)
        /\ FilterMask(sel)[row] = Null => NullMet(sel, t, row)
  BY FilterFacts DEF NullMet
<1>5. ASSUME NEW inc \in sel.include, inc.other = t
      PROVE  /\ IncludeMask(sel, inc)[row] # Null
             /\ IncludeMask(sel, inc)[row] = TRUE <=> Joins(sel, inc, row)
  BY <1>5, IncludeFacts, NullAssumption
<1>6. TRUE \in S <=> Asks(sel, t, row)
  BY <1>3, <1>4, <1>5 DEF Asks
<1>7. Null \in S => NullMet(sel, t, row)
  BY <1>3, <1>4, <1>5
<1> HIDE DEF S
<1>8. /\ OrAll(S) = TRUE <=> Null \notin S /\ TRUE \in S
      /\ OrAll(S) = Null <=> Null \in S
  BY OrAllFacts
<1>9. Asks(sel, t, row) => t \in tables
  BY DEF Asks
<1> QED
  BY <1>1, <1>2, <1>6, <1>7, <1>8, <1>9

-----------------------------------------------------------------------------
\* Preservation of the invariant.

\* run_query starts with no selection run.
LEMMA InitInv == Init => Inv
<1> SUFFICES ASSUME Init
             PROVE  Inv
  OBVIOUS
<1>1. masks = [i \in DOMAIN query.selections |-> [state |-> "pending", mask |-> NoTables]]
  BY DEF Init, Pending
<1>2. DOMAIN masks = DOMAIN query.selections /\ \A i \in DOMAIN masks : masks[i].state = "pending"
  BY <1>1
<1>3. output.state = "running"
  BY DEF Init, Running
<1>4. ChunkOk /\ QueryOk
  BY DatasetsAssumption, QueriesAssumption DEF Init, ChunkOk, QueryOk, Selection
<1> QED
  BY <1>2, <1>3, <1>4 DEF Init, Inv, MaskInv, OutputInv

\* Every step of the pool, and the return, keep the invariant.
LEMMA StepInv ==
    ASSUME Inv, [Next]_vars
    PROVE  Inv'
<1>0. ChunkOk' /\ QueryOk'
  <2>1. UNCHANGED <<data, query>>
    BY DEF Next, RunQuery, RunSelection, SelectionError, Combine, Returned, vars
  <2> QED
    BY <2>1 DEF Inv, ChunkOk, QueryOk, Selection
<1>1. CASE UNCHANGED vars \/ Returned
  <2>1. UNCHANGED <<data, query, masks, output>>
    BY <1>1 DEF vars, Returned
  <2>2. MaskInv' <=> MaskInv
    BY <2>1 DEF MaskInv, Selection, SelectionFails, Columns, run_table_selection, FilterMask,
       IncludeMask
  <2>3. Result' = Result
    BY <2>1 DEF Result, MasksFor, CombinedMask, select_fields, Columns
  <2>4. OutputInv' <=> OutputInv
    BY <2>1, <2>3 DEF OutputInv
  <2> QED
    BY <1>0, <2>2, <2>4 DEF Inv
<1>2. ASSUME NEW i \in DOMAIN masks, RunSelection(i)
      PROVE  Inv'
  <2>1. UNCHANGED <<data, query, output>> /\ output.state = "running"
    BY <1>2 DEF RunSelection
  <2>2. DOMAIN masks' = DOMAIN masks /\ \A j \in DOMAIN masks : j # i => masks'[j] = masks[j]
    BY <1>2 DEF RunSelection
  <2>3. masks'[i] = IF SelectionFails(Selection(i))
                    THEN [state |-> "error", mask |-> NoTables]
                    ELSE [state |-> "ok", mask |-> run_table_selection(Selection(i))]
    BY <1>2 DEF RunSelection, Selection
  <2>4. \/ masks'[i].state = "error" /\ SelectionFails(Selection(i))
        \/ /\ masks'[i].state = "ok"
           /\ ~SelectionFails(Selection(i))
           /\ masks'[i].mask = run_table_selection(Selection(i))
    BY <2>3
  <2>5. \A j \in DOMAIN masks :
          \/ masks'[j].state = "pending"
          \/ masks'[j].state = "error" /\ SelectionFails(Selection(j))
          \/ /\ masks'[j].state = "ok"
             /\ ~SelectionFails(Selection(j))
             /\ masks'[j].mask = run_table_selection(Selection(j))
    BY <2>2, <2>4 DEF Inv, MaskInv
  <2>6. \A j : /\ Selection(j)' = Selection(j)
               /\ SelectionFails(Selection(j))' <=> SelectionFails(Selection(j))
               /\ run_table_selection(Selection(j))' = run_table_selection(Selection(j))
    BY <2>1 DEF Selection, SelectionFails, Columns, run_table_selection, FilterMask, IncludeMask
  <2>7. MaskInv'
    BY <2>1, <2>2, <2>5, <2>6 DEF Inv, MaskInv
  <2>8. OutputInv'
    BY <2>1 DEF OutputInv
  <2> QED
    BY <1>0, <2>7, <2>8 DEF Inv
<1>3. ASSUME SelectionError \/ Combine
      PROVE  Inv'
  <2>1. UNCHANGED <<data, query, masks>>
    BY <1>3 DEF SelectionError, Combine
  <2>2. MaskInv' <=> MaskInv
    BY <2>1 DEF MaskInv, Selection, SelectionFails, Columns, run_table_selection, FilterMask,
       IncludeMask
  <2>3. Result' = Result
    BY <2>1 DEF Result, MasksFor, CombinedMask, select_fields, Columns
  <2>4. OutputInv'
    <3>1. CASE SelectionError
      <4>1. output'.state = "error"
        BY <3>1 DEF SelectionError
      <4> QED
        BY <2>1, <3>1, <4>1 DEF SelectionError, OutputInv
    <3>2. CASE Combine
      BY <2>1, <2>3, <3>2 DEF Combine, OutputInv
    <3> QED
      BY <1>3, <3>1, <3>2
  <2> QED
    BY <1>0, <2>2, <2>4 DEF Inv
<1> QED
  BY <1>1, <1>2, <1>3 DEF Next, RunQuery

\* The invariant holds in every state of run_query, for every chunk and query.
THEOREM Inductive == Spec => []Inv
<1>1. Inv /\ [Next]_vars => Inv'
  BY StepInv
<1> QED
  BY InitInv, <1>1, PTL DEF Spec

-----------------------------------------------------------------------------
\* What a successful call returned, in terms of the selections: the tables some
\* selection has a mask for, and the rows whose combined mask is TRUE.
LEMMA OkFacts ==
    ASSUME Inv, Ok
    PROVE  /\ DOMAIN query.fields \subseteq DOMAIN data
           /\ \A i \in DOMAIN query.selections :
                 /\ ~SelectionFails(Selection(i))
                 /\ \A inc \in Selection(i).include :
                       IsList(inc.fields) /\ IsList(inc.otherFields)
           /\ DOMAIN output.tables = {t \in DOMAIN query.fields : MasksFor(t) # {}}
           /\ \A t \in DOMAIN output.tables :
                 output.tables[t].rows = {row \in data[t].rows : CombinedMask(t)[row] = TRUE}
           /\ \A t, m : m \in MasksFor(t) <=>
                 \E i \in DOMAIN query.selections :
                    /\ t \in DOMAIN run_table_selection(Selection(i))
                    /\ m = run_table_selection(Selection(i))[t]
<1>1. output = Result /\ \A i \in DOMAIN masks : masks[i].state = "ok"
  BY DEF Ok, Inv, OutputInv
<1>2. DOMAIN query.fields \subseteq DOMAIN data
  BY <1>1 DEF Ok, Result
<1>3. output.tables = [t \in {u \in DOMAIN query.fields : MasksFor(u) # {}} |->
                          [cols |-> select_fields(t),
                           rows |-> {row \in data[t].rows : CombinedMask(t)[row] = TRUE}]]
  BY <1>1, <1>2 DEF Result
<1>4. /\ DOMAIN masks = DOMAIN query.selections
      /\ \A i \in DOMAIN masks : /\ ~SelectionFails(Selection(i))
                                 /\ masks[i].mask = run_table_selection(Selection(i))
  BY <1>1 DEF Inv, MaskInv
<1>5. \A i \in DOMAIN query.selections : \A inc \in Selection(i).include :
         IsList(inc.fields) /\ IsList(inc.otherFields)
  BY DEF Inv, QueryOk
<1>6. \A t, m : m \in MasksFor(t) <=>
         \E i \in DOMAIN query.selections :
            /\ t \in DOMAIN run_table_selection(Selection(i))
            /\ m = run_table_selection(Selection(i))[t]
  BY <1>4 DEF MasksFor
<1> QED
  BY <1>2, <1>3, <1>4, <1>5, <1>6

\* A row of a table: its combined mask is the or of the selections' masks.
LEMMA CombinedFacts ==
    ASSUME NEW t, NEW row \in data[t].rows
    PROVE  /\ CombinedMask(t)[row] = TRUE => \E m \in MasksFor(t) : m[row] = TRUE
           /\ (\E m \in MasksFor(t) : m[row] = TRUE) /\ (\A m \in MasksFor(t) : m[row] # Null)
                 => CombinedMask(t)[row] = TRUE
<1> DEFINE S == {m[row] : m \in MasksFor(t)}
<1>1. CombinedMask(t)[row] = OrAll(S)
  BY DEF CombinedMask
<1>2. OrAll(S) = TRUE <=> Null \notin S /\ TRUE \in S
  BY OrAllFacts
<1> QED
  BY <1>1, <1>2

\* In a state of run_query, a row returned is a row some selection asks for.
LEMMA InvSound ==
    ASSUME Inv
    PROVE  Sound
<1>1. SUFFICES ASSUME Ok, NEW t \in DOMAIN output.tables, NEW row \in output.tables[t].rows
               PROVE  row \in Wanted(t)
  BY DEF Sound
<1>2. row \in data[t].rows /\ CombinedMask(t)[row] = TRUE
  BY <1>1, OkFacts
<1>3. PICK m \in MasksFor(t) : m[row] = TRUE
  BY <1>2, CombinedFacts
<1>4. PICK i \in DOMAIN query.selections :
         t \in DOMAIN run_table_selection(Selection(i)) /\ m = run_table_selection(Selection(i))[t]
  BY <1>1, OkFacts
<1>5. Asks(Selection(i), t, row)
  BY <1>1, <1>2, <1>3, <1>4, OkFacts, SelectionFacts DEF Inv
<1>6. Selection(i) \in Range(query.selections)
  BY DEF Selection, Range
<1> QED
  BY <1>2, <1>5, <1>6 DEF Wanted, Asks

\* Whatever order the pool runs the selections in, run_query returns only rows
\* that a selection asks for, by its filters or by a join.
THEOREM Soundness == Spec => []Sound
BY InvSound, Inductive, PTL

\* In a state of run_query, a row asked for that meets no null is returned.
LEMMA InvComplete ==
    ASSUME Inv
    PROVE  CompleteButNulls
<1>1. SUFFICES ASSUME Ok, NEW t \in DOMAIN query.fields,
                      NEW row \in Wanted(t) \ NullUnderBool(t)
               PROVE  t \in DOMAIN output.tables /\ row \in output.tables[t].rows
  BY DEF CompleteButNulls
<1>2. row \in data[t].rows
  BY DEF Wanted
<1>3. PICK i \in DOMAIN query.selections : Asks(Selection(i), t, row)
  BY DEF Wanted, Asks, Range, Selection
<1>4. \A j \in DOMAIN query.selections : ~NullMet(Selection(j), t, row)
  BY <1>2 DEF NullUnderBool, NullMet, Range, Selection
<1>5. /\ t \in DOMAIN run_table_selection(Selection(i))
      /\ run_table_selection(Selection(i))[t] \in MasksFor(t)
      /\ run_table_selection(Selection(i))[t][row] = TRUE
  BY <1>1, <1>2, <1>3, <1>4, OkFacts, SelectionFacts DEF Inv
<1>6. ASSUME NEW m \in MasksFor(t)
      PROVE  m[row] # Null
  <2>1. PICK j \in DOMAIN query.selections :
           t \in DOMAIN run_table_selection(Selection(j)) /\ m = run_table_selection(Selection(j))[t]
    BY <1>1, OkFacts
  <2> QED
    BY <1>1, <1>2, <1>4, <2>1, OkFacts, SelectionFacts DEF Inv
<1>7. CombinedMask(t)[row] = TRUE
  BY <1>2, <1>5, <1>6, CombinedFacts
<1> QED
  BY <1>1, <1>2, <1>5, <1>7, OkFacts

\* run_query returns every row asked for, other than rows with a null under a
\* Bool filter on their table.
THEOREM Completeness == Spec => []CompleteButNulls
BY InvComplete, Inductive, PTL

\* In a state of run_query, an error goes back to the query and the chunk.
LEMMA InvFails ==
    ASSUME Inv
    PROVE  FailsByInput
<1>1. \A sel : sel \in Range(query.selections) <=>
                  \E i \in DOMAIN query.selections : sel = Selection(i)
  BY DEF Range, Selection
<1>2. CASE Ok
  BY <1>1, <1>2, OkFacts DEF FailsByInput, Ok
<1>3. CASE output.state = "error"
  <2>1. CASE \E i \in DOMAIN masks : masks[i].state = "error"
    <3>1. PICK i \in DOMAIN query.selections : SelectionFails(Selection(i))
      BY <2>1 DEF Inv, MaskInv
    <3> QED
      BY <1>1, <1>3, <3>1 DEF FailsByInput
  <2>2. CASE output = Result
    <3>1. ~(DOMAIN query.fields \subseteq DOMAIN data)
      BY <1>3, <2>2 DEF Result
    <3> QED
      BY <1>3, <3>1 DEF FailsByInput
  <2> QED
    BY <1>3, <2>1, <2>2 DEF Inv, OutputInv
<1> QED
  BY <1>2, <1>3 DEF FailsByInput, Ok

\* Whether run_query fails depends on query and chunk, not on which selection the
\* pool finishes first.
THEOREM FailureByInput == Spec => []FailsByInput
BY InvFails, Inductive, PTL
=============================================================================
