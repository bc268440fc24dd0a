------------------------------ MODULE CastFlatten ------------------------------
(***************************************************************************)
(* The crate tiders-cast with flatten_record_batch among the calls: casts  *)
(* before it, after it, and in between.                                    *)
(***************************************************************************)
EXTENDS Cast, Flatten

Flat ==
    LET out == flatten_record_batch(batch)
    IN  Call(Named("flatten"), Schema(out), [i \in DOMAIN out |-> out[i].array])

CallSpec == Init /\ [][Next \/ Flat]_vars

-----------------------------------------------------------------------------
\* The properties.

Flattened == call'.name = "flatten" /\ outcome' = "ok"

\* flatten_record_batch keeps every value, in its row: a column it makes shows what
\* the struct or the fixed size list had at that place, null where a parent is.
ValuesFlattened ==
    [][Flattened =>
        LET cells == FlattenSeq([i \in DOMAIN batch |->
                LET a == batch[i].array  places == Places(a.type)
                IN  [j \in DOMAIN places |->
                        [r \in 1..a.len |-> Shown(places[j].type, At(Row(a, r), places[j].at))]]])
        IN  cells = [j \in DOMAIN batch' |->
                        [r \in 1..batch'[j].array.len |-> Row(batch'[j].array, r)]]]_vars

\* flatten_schema is the "schema-only mirror" of flatten_record_batch.
FlattenedSchema == [][Flattened => Schema(batch') = flatten_schema(Schema(batch))]_vars

\* "rows null in the parent are also null in the child" (propagate_nulls).
NullsFollowParent ==
    [][Flattened => \A j \in DOMAIN batch', i \in DOMAIN batch : \A r \in 1..batch[i].array.len :
          Row(batch[i].array, r) = Null /\ IsPrefix(batch[i].name, batch'[j].name)
              => Row(batch'[j].array, r) = Null]_vars
=============================================================================
