-------------------------------- MODULE Flatten --------------------------------
(***************************************************************************)
(* flatten_record_batch and flatten_schema of src/cast/src/lib.rs, which   *)
(* turn the struct columns of a batch into top-level columns, all of which *)
(* may hold nulls.  The EVM decoder ends with them.                        *)
(***************************************************************************)
EXTENDS NestedArrow, SequencesExt, FiniteSets, TLC

NameDot(name, piece) == name \o <<".">> \o piece

HoldsStructs(t) == t.fields[1].type.k = "struct"

-----------------------------------------------------------------------------
\* A slip: the children keep their own nulls.
propagate_nulls_dropped(nulls, a) == a

\* Rows that are null in the parent become null in the child.  The union of two
\* null buffers is a new one; that of one and none shares the bitmap, of which
\* into_inner().into_inner() forgets the position.
propagate_nulls(nulls, a) ==
    IF nulls = NoNulls THEN a
    ELSE IF a.nulls = NoNulls THEN [a EXCEPT !.nulls = [buf |-> nulls.buf, off |-> 0]]
    ELSE [a EXCEPT !.nulls =
             [buf |-> [r \in 1..a.len |-> nulls.buf[nulls.off + r] /\ @.buf[@.off + r]],
              off |-> 0]]

\* Element i of each row of a fixed size list, as a column.
Element(a, i) ==
    propagate_nulls(a.nulls, Take(a.kids[1], [r \in 1..a.len |-> (r - 1) * a.type.n + i + 1]))

\* The list as text: injective, and null where the list is.
Text(a) == Leaf(Type("utf8"), [r \in 1..a.len |-> IF Row(a, r) = Null THEN Null
                                                  ELSE [enc |-> "list", body |-> Row(a, r)]])

RECURSIVE expand_column(_, _)
expand_column(name, a) ==
    CASE a.type.k = "struct" ->
            FlattenSeq([i \in DOMAIN a.kids |->
                expand_column(NameDot(name, a.type.fields[i].name),
                              propagate_nulls(a.nulls, a.kids[i]))])
      [] a.type.k = "fixed" /\ HoldsStructs(a.type) ->
            FlattenSeq([i \in 1..a.type.n |->
                expand_column(NameDot(name, <<ToString(i - 1)>>), Element(a, i - 1))])
      [] a.type.k = "list" /\ HoldsStructs(a.type) -> <<Column(name, Text(a), TRUE)>>
      [] OTHER -> <<Column(name, a, TRUE)>>

RECURSIVE expand_field(_, _)
expand_field(name, t) ==
    CASE t.k = "struct" ->
            FlattenSeq([i \in DOMAIN t.fields |->
                expand_field(NameDot(name, t.fields[i].name), t.fields[i].type)])
      [] t.k = "fixed" /\ HoldsStructs(t) ->
            FlattenSeq([i \in 1..t.n |->
                expand_field(NameDot(name, <<ToString(i - 1)>>), t.fields[1].type)])
      [] t.k = "list" /\ HoldsStructs(t) -> <<NullableField(name, Type("utf8"))>>
      [] OTHER -> <<NullableField(name, t)>>

\* The later fields of a name get _1, _2, ... after it.
resolve_name_collisions(fields) ==
    [i \in DOMAIN fields |->
        LET seen == Cardinality({j \in 1..(i - 1) : fields[j].name = fields[i].name})
        IN  IF seen = 0 THEN fields[i]
            ELSE [fields[i] EXCEPT !.name = Append(@, "_" \o ToString(seen))]]

flatten_record_batch(batch) ==
    resolve_name_collisions(
        FlattenSeq([i \in DOMAIN batch |-> expand_column(batch[i].name, batch[i].array)]))

\* A slip: the schema keeps the names that clash.
flatten_schema_clashing(schema) ==
    FlattenSeq([i \in DOMAIN schema |-> expand_field(schema[i].name, schema[i].type)])

flatten_schema(schema) ==
    resolve_name_collisions(
        FlattenSeq([i \in DOMAIN schema |-> expand_field(schema[i].name, schema[i].type)]))

-----------------------------------------------------------------------------
\* The columns that a type expands to: where each lies in a value, and its type.
Under(i, places) == [j \in DOMAIN places |-> [places[j] EXCEPT !.at = <<i>> \o @]]

RECURSIVE Places(_)
Places(t) ==
    CASE t.k = "struct" ->
            FlattenSeq([i \in DOMAIN t.fields |-> Under(i, Places(t.fields[i].type))])
      [] t.k = "fixed" /\ HoldsStructs(t) ->
            FlattenSeq([i \in 1..t.n |-> Under(i, Places(t.fields[1].type))])
      [] OTHER -> <<[at |-> <<>>, type |-> t]>>

\* The value at a path: null as soon as one on the way to it is.
RECURSIVE At(_, _)
At(v, path) == IF v = Null \/ path = <<>> THEN v ELSE At(v[Head(path)], Tail(path))

\* What a flattened column shows of a value of type t at its place.
Shown(t, v) ==
    IF v # Null /\ t.k = "list" /\ HoldsStructs(t) THEN [enc |-> "list", body |-> v] ELSE v
=============================================================================
