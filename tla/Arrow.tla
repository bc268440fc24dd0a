--------------------------------- MODULE Arrow ---------------------------------
(***************************************************************************)
(* The Arrow arrays that the decoders build and that the casts rewrite, as *)
(* the crates under src/ use them (external: the arrow crate).             *)
(*                                                                         *)
(* A type is [k, n, fields]: its kind, the size of a fixed size list, and  *)
(* the child fields [name, type].  A name is the sequence of its pieces,   *)
(* so that joining two names is concatenation.                             *)
(*                                                                         *)
(* An array is [type, len, nulls, vals, kids].  Its null buffer, if it has *)
(* one, is a bitmap and the position of row 1 in it: slicing moves the     *)
(* position and shares the bitmap.  The children of a null row hold        *)
(* whatever they hold.  A list holds the range <<low, high>> of each row   *)
(* in its child.                                                           *)
(***************************************************************************)
EXTENDS Integers, Sequences

CONSTANTS
    Null,
    Fail        \* what a call makes of a value it cannot convert

Type(k) == [k |-> k, n |-> 0, fields |-> <<>>]
StructType(fields) == [k |-> "struct", n |-> 0, fields |-> fields]
ListType(t) == [k |-> "list", n |-> 0, fields |-> <<[name |-> <<>>, type |-> t]>>]
FixedType(t, n) == [k |-> "fixed", n |-> n, fields |-> <<[name |-> <<>>, type |-> t]>>]

NoNulls == [buf |-> <<>>, off |-> 0]

Validity(bits) ==
    IF \A r \in DOMAIN bits : bits[r] THEN NoNulls ELSE [buf |-> bits, off |-> 0]

IsNull(a, r) == a.nulls # NoNulls /\ ~a.nulls.buf[a.nulls.off + r]

\* What the builders make of a value or Null for every row.
Leaf(t, vals) ==
    [type |-> t, len |-> Len(vals), vals |-> vals, kids |-> <<>>,
     nulls |-> Validity([r \in DOMAIN vals |-> vals[r] # Null])]

\* StructArray::from(RecordBatch): no null buffer.
Struct(names, kids, len) ==
    [type |-> StructType([i \in DOMAIN kids |-> [name |-> names[i], type |-> kids[i].type]]),
     len |-> len, nulls |-> NoNulls, vals |-> <<>>, kids |-> kids]

Fixed(t, n, kid, bits) ==
    [type |-> FixedType(t, n), len |-> Len(bits), nulls |-> Validity(bits),
     vals |-> <<>>, kids |-> <<kid>>]

List(t, ranges, kid, bits) ==
    [type |-> ListType(t), len |-> Len(bits), nulls |-> Validity(bits),
     vals |-> ranges, kids |-> <<kid>>]

\* What a reader finds in row r of an array without children, and whether one
\* of its values could not be converted.
Cell(a, r) == IF IsNull(a, r) THEN Null ELSE a.vals[r]

Failed(a) == \E r \in DOMAIN a.vals : a.vals[r] = Fail

\* A record batch: its fields and their arrays.
Column(name, array, nullable) == [name |-> name, array |-> array, nullable |-> nullable]

Schema(batch) ==
    [i \in DOMAIN batch |->
        [name |-> batch[i].name, type |-> batch[i].array.type, nullable |-> batch[i].nullable]]

NullableField(name, t) == [name |-> name, type |-> t, nullable |-> TRUE]

\* RecordBatch::try_new refuses a batch without columns, arrays that the schema
\* does not describe, and nulls where the schema has none.
Describes(schema, arrays) ==
    /\ arrays # <<>>
    /\ Len(schema) = Len(arrays)
    /\ \A i \in DOMAIN arrays : arrays[i].type = schema[i].type /\ arrays[i].len = arrays[1].len

NullsAllowed(schema, arrays) ==
    \A i \in DOMAIN arrays : \A r \in 1..arrays[i].len : IsNull(arrays[i], r) => schema[i].nullable

TryNew(schema, arrays) == Describes(schema, arrays) /\ NullsAllowed(schema, arrays)

Batch(schema, arrays) ==
    [i \in DOMAIN arrays |-> Column(schema[i].name, arrays[i], schema[i].nullable)]
=============================================================================
