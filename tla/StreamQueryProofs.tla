--------------------------- MODULE StreamQueryProofs ---------------------------
(***************************************************************************)
(* The local query inside a stream is the query engine: what is proved of  *)
(* run_query for every chunk and query holds of the chunk and the generic  *)
(* query that start_stream hands it.                                       *)
(***************************************************************************)
EXTENDS StreamQuery, TLAPS

QP == INSTANCE QueryEngineProofs WITH Datasets <- {}, Queries <- {}

\* The engine is run on the chunk once the stage is local, and not before.
EngineInv ==
    /\ stage # "local" => output.state = "idle"
    /\ stage = "local" => QP!Inv

\* The elements of a list.
Elems(s) == {s[i] : i \in DOMAIN s}

-----------------------------------------------------------------------------
\* A step of the local query is a step of run_query.
LEMMA RunsEngine == E!RunQuery => QP!RunQuery
BY DEF E!RunQuery, QP!RunQuery, E!RunSelection, QP!RunSelection, E!SelectionError,
   QP!SelectionError, E!Combine, QP!Combine, E!SelectionFails, QP!SelectionFails,
   E!NoTables, QP!NoTables, E!run_table_selection, QP!run_table_selection, E!Result,
   QP!Result, E!FilterMask, QP!FilterMask, E!IncludeMask, QP!IncludeMask, E!Columns,
   QP!Columns, E!Names, QP!Names, E!Fits, QP!Fits, E!check, QP!check, E!Supports,
   QP!Supports, E!AndAll, QP!AndAll, E!OrAll, QP!OrAll, E!contains, QP!contains,
   E!starts_with, QP!starts_with, E!columns_to_binary_array,
   QP!columns_to_binary_array, E!MasksFor, QP!MasksFor, E!CombinedMask,
   QP!CombinedMask, E!select_fields, QP!select_fields, E!IsPrefix, QP!IsPrefix

\* The chunk and the query are handed over with no selection run.
LEMMA HandOver ==
    ASSUME LocalQuery, QP!ChunkOk, QP!QueryOk
    PROVE  EngineInv'
<1>1. UNCHANGED <<data, query>> /\ stage' = "local"
  BY DEF LocalQuery
<1>2. QP!ChunkOk' /\ QP!QueryOk'
  BY <1>1 DEF QP!ChunkOk, QP!QueryOk, QP!Selection
<1>3. masks' = [i \in DOMAIN query.selections |-> [state |-> "pending", mask |-> E!NoTables]]
  BY DEF LocalQuery, E!Pending
<1>4. DOMAIN masks' = DOMAIN query'.selections /\ \A i \in DOMAIN masks' : masks'[i].state = "pending"
  BY <1>1, <1>3
<1>5. output'.state = "running"
  BY DEF LocalQuery, E!Running
<1>6. QP!MaskInv'
  BY <1>4 DEF QP!MaskInv
<1>7. QP!OutputInv'
  BY <1>5 DEF QP!OutputInv
<1> QED
  BY <1>1, <1>2, <1>6, <1>7 DEF EngineInv, QP!Inv

\* The engine's invariant is kept by its own steps and by those that leave it alone.
LEMMA EngineStep ==
    ASSUME EngineInv, RunQuery \/ UNCHANGED <<stage, data, query, masks, output>>
    PROVE  EngineInv'
<1>1. UNCHANGED stage
  BY DEF RunQuery
<1>2. CASE stage = "local"
  <2>1. QP!Inv
    BY <1>2 DEF EngineInv
  <2>2. [QP!Next]_(QP!vars)
    BY RunsEngine DEF RunQuery, QP!Next, QP!vars
  <2>3. QP!Inv'
    BY <2>1, <2>2, NullAssumption, QP!StepInv
  <2> QED
    BY <1>1, <1>2, <2>3 DEF EngineInv
<1>3. CASE stage # "local"
  BY <1>1, <1>3 DEF EngineInv, RunQuery
<1> QED
  BY <1>2, <1>3

-----------------------------------------------------------------------------
\* What a selection asks for, and the nulls that a Bool filter of it meets.
Asks(sel, t, row) == QP!Asks(sel, t, row)
NullMet(sel, t, row) == QP!NullMet(sel, t, row)

\* A local query that succeeded: no selection failed; what it returns of a table
\* are rows of the chunk that a selection asks for, and all of those that no Bool
\* filter meets with a null.
LEMMA EngineOk ==
    ASSUME EngineInv, Ok
    PROVE  /\ stage = "local"
           /\ \A sel \in Elems(query.selections) : ~QP!SelectionFails(sel)
           /\ \A t \in DOMAIN output.tables :
                 /\ t \in DOMAIN query.fields
                 /\ \A row \in output.tables[t].rows :
                       /\ row \in data[t].rows
                       /\ \E sel \in Elems(query.selections) : Asks(sel, t, row)
           /\ \A t \in DOMAIN query.fields : \A row \in data[t].rows :
                 /\ \E sel \in Elems(query.selections) : Asks(sel, t, row)
                 /\ \A sel \in Elems(query.selections) : ~NullMet(sel, t, row)
                 => t \in DOMAIN output.tables /\ row \in output.tables[t].rows
<1>1. stage = "local" /\ QP!Inv /\ QP!Ok
  BY DEF EngineInv, Ok, QP!Ok
<1>2. /\ \A sel \in Elems(query.selections) : ~QP!SelectionFails(sel)
      /\ DOMAIN output.tables \subseteq DOMAIN query.fields
      /\ \A t \in DOMAIN output.tables : output.tables[t].rows \subseteq data[t].rows
  BY <1>1, NullAssumption, QP!OkFacts DEF QP!Selection, Elems
<1>3. ASSUME NEW t \in DOMAIN output.tables, NEW row \in output.tables[t].rows
      PROVE  \E sel \in Elems(query.selections) : Asks(sel, t, row)
  <2>1. QP!Sound
    BY <1>1, NullAssumption, QP!InvSound
  <2>2. row \in QP!Wanted(t)
    BY <1>1, <2>1 DEF QP!Sound
  <2> QED
    BY <2>2 DEF QP!Wanted, QP!Range, Elems, Asks, QP!Asks
<1>4. ASSUME NEW t \in DOMAIN query.fields, NEW row \in data[t].rows,
             NEW sel \in Elems(query.selections), Asks(sel, t, row),
             \A other \in Elems(query.selections) : ~NullMet(other, t, row)
      PROVE  t \in DOMAIN output.tables /\ row \in output.tables[t].rows
  <2>1. QP!CompleteButNulls
    BY <1>1, NullAssumption, QP!InvComplete
  <2>2. row \in QP!Wanted(t)
    BY <1>4 DEF QP!Wanted, QP!Range, Elems, Asks, QP!Asks
  <2>3. row \notin QP!NullUnderBool(t)
    BY <1>4 DEF QP!NullUnderBool, QP!Range, Elems, NullMet, QP!NullMet
  <2>4. row \in (IF t \in DOMAIN output.tables THEN output.tables[t].rows ELSE {})
    BY <1>1, <2>1, <2>2, <2>3 DEF QP!CompleteButNulls
  <2> QED
    BY <2>4
<1> QED
  BY <1>1, <1>2, <1>3, <1>4

\* A local query that failed: a selection fails, or a table is not in the chunk.
LEMMA EngineError ==
    ASSUME EngineInv, output.state = "error"
    PROVE  /\ stage = "local"
           /\ \/ \E sel \in Elems(query.selections) : QP!SelectionFails(sel)
              \/ ~(DOMAIN query.fields \subseteq DOMAIN data)
<1>1. stage = "local" /\ QP!Inv
  BY DEF EngineInv
<1>2. QP!FailsByInput
  BY <1>1, NullAssumption, QP!InvFails
<1> QED
  BY <1>1, <1>2 DEF QP!FailsByInput, QP!Range, Elems

-----------------------------------------------------------------------------
\* The elements of a list put together from two, as the selections of a generic
\* query are: one per request, and one for all blocks.
LEMMA Elements ==
    ASSUME NEW S, NEW s \in Seq(S), NEW u \in Seq(S)
    PROVE  Elems(s \o u) = Elems(s) \cup Elems(u)
<1>1. DOMAIN (s \o u) = 1..(Len(s) + Len(u)) /\ DOMAIN s = 1..Len(s) /\ DOMAIN u = 1..Len(u)
  OBVIOUS
<1>2. \A i \in 1..Len(s) : i \in DOMAIN (s \o u) /\ (s \o u)[i] = s[i]
  OBVIOUS
<1>3. \A i \in 1..Len(u) : Len(s) + i \in DOMAIN (s \o u) /\ (s \o u)[Len(s) + i] = u[i]
  OBVIOUS
<1>4. ASSUME NEW i \in 1..(Len(s) + Len(u)), i \notin 1..Len(s)
      PROVE  i - Len(s) \in 1..Len(u) /\ (s \o u)[i] = u[i - Len(s)]
  BY <1>4
<1>5. \A v : (\E i \in DOMAIN (s \o u) : v = (s \o u)[i]) <=>
                ((\E i \in DOMAIN s : v = s[i]) \/ (\E i \in DOMAIN u : v = u[i]))
  BY <1>1, <1>2, <1>3, <1>4
<1> QED
  BY <1>5, Zenon DEF Elems
=============================================================================
