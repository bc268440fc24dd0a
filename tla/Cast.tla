---------------------------------- MODULE Cast ----------------------------------
(***************************************************************************)
(* The crate tiders-cast (src/cast/src/lib.rs): a caller who holds a batch *)
(* takes it through a series of casts, encodings and decodings.  A call    *)
(* that fails leaves the caller with the batch it had.  The calls here     *)
(* look at no array's children; CastFlatten adds the one that does.        *)
(***************************************************************************)
EXTENDS Columns

CONSTANTS
    Batches,    \* the batches a caller may start with, by some index
    Maps,       \* the (name, type) lists passed to cast
    Retypes,    \* the (from, to) pairs passed to cast_by_type
    MaxCalls

\* What a caller starts with: arrays of one length and, where there are only
\* numbers and bytes, cells of their column's type, none of them missing where
\* the field has no nulls.
Byte == 0..(Base - 1)
InWidth(v, size) == v \in Int /\ -Pow(size) <= 2 * v /\ 2 * v < Pow(size)

IsBatch(b) ==
    /\ Len(b) \in Nat \ {0} /\ DOMAIN b = 1..Len(b)
    /\ \A i \in DOMAIN b : b[i].array.len \in Nat /\ b[i].array.len = b[1].array.len

Plain(b) == \A i \in DOMAIN b : b[i].array.kids = <<>>

TypedCell(t, v) ==
    \/ t.k \in Decimals /\ InWidth(v, Size(t))
    \/ t.k = "float64" /\ v \in Int /\ v = Rounded(v)
    \/ t.k \in ByteKinds /\ v \in Seq(Byte)

TypedCells(a) == \A r \in 1..a.len : IsNull(a, r) \/ TypedCell(a.type, a.vals[r])

NullsInPlace(c) == \A r \in 1..c.array.len : Cell(c.array, r) = Null => c.nullable

ASSUME BatchesAssumption ==
    \A j \in DOMAIN Batches :
        /\ IsBatch(Batches[j])
        /\ Plain(Batches[j]) => \A i \in DOMAIN Batches[j] :
              TypedCells(Batches[j][i].array) /\ NullsInPlace(Batches[j][i])

\* Neither a null nor a failure is a value of a column.
Encodings == {"58", "hex", "0x", "dec", "flt"}

ASSUME NullAssumption ==
    /\ Null # Fail
    /\ \A x \in {Null, Fail} :
          x \notin Int /\ x \notin Seq(Int) /\ x \notin [enc : Encodings, body : Int \cup Seq(Int)]

VARIABLES
    batch,      \* the batch the caller holds
    meant,      \* a history: what its columns stand for.  This is the batch the
                \* caller started with but, for a column that was made a float
                \* and then something else, the float
    call,       \* the last call: its name and its allow_cast_fail
    outcome,    \* and how it ended: "ok", "error" or, in RecordBatch::try_new,
                \* "mismatch" when the arrays do not fit the schema computed
                \* beside them and "nulls" when they have nulls and it has none
    calls

vars == <<batch, meant, call, outcome, calls>>

-----------------------------------------------------------------------------
\* The calls.

\* Where the calls keep columns apart.
Simple == Plain(meant)

\* The columns that leave a float behind stand for the float.
Meant(arrays) ==
    [i \in DOMAIN meant |->
        IF Simple /\ batch[i].array.type.k = "float64" /\ arrays[i].type.k # "float64"
        THEN batch[i] ELSE meant[i]]

\* A call ends with RecordBatch::try_new, unless a value stopped it.
Call(c, schema, arrays) ==
    /\ calls < MaxCalls
    /\ call' = c
    /\ calls' = calls + 1
    /\ IF \E i \in DOMAIN arrays : Failed(arrays[i])
       THEN outcome' = "error" /\ UNCHANGED <<batch, meant>>
       ELSE IF ~Describes(schema, arrays)
       THEN outcome' = "mismatch" /\ UNCHANGED <<batch, meant>>
       ELSE IF ~NullsAllowed(schema, arrays)
       THEN outcome' = "nulls" /\ UNCHANGED <<batch, meant>>
       ELSE outcome' = "ok" /\ batch' = Batch(schema, arrays) /\ meant' = Meant(arrays)

Named(name) == [name |-> name, allow |-> FALSE]

Arrays(f(_)) == [i \in DOMAIN batch |-> f(batch[i].array)]

\* The encodings of the text in a column.
Encoding(a) == {Cell(a, r).enc : r \in {q \in 1..a.len : Cell(a, q) # Null}}

\* What callers ask of a cast: no text for bytes or bytes for text, and a number
\* only of the text of one, written for that purpose.
Asked(a, to) ==
    /\ a.type.k \in TextKinds => to.k \notin ByteKinds
    /\ a.type.k \in ByteKinds => to.k \notin TextKinds
    /\ a.type.k \in TextKinds /\ to.k \in Decimals => Encoding(a) \subseteq {"dec"}
    /\ a.type.k \in TextKinds /\ to.k = "float64" => Encoding(a) \subseteq {"dec", "flt"}

cast(map, allow) ==
    /\ \A i \in DOMAIN batch : Targets(map, batch[i].name) # <<>> =>
          Asked(batch[i].array, Targets(map, batch[i].name)[1][2])
    /\ Call([name |-> "cast", allow |-> allow], cast_schema(map, Schema(batch)),
            [i \in DOMAIN batch |->
                IF Targets(map, batch[i].name) = <<>> THEN batch[i].array
                ELSE CastColumn(batch[i].array, Targets(map, batch[i].name)[1][2], allow)])

cast_by_type(from, to, allow) ==
    /\ \A i \in DOMAIN batch : batch[i].array.type = from => Asked(batch[i].array, to)
    /\ Call([name |-> "cast_by_type", allow |-> allow], cast_schema_by_type(Schema(batch), from, to),
            Arrays(LAMBDA a : IF a.type = from THEN CastColumn(a, to, allow) ELSE a))

Encoded(name, f(_, _)) ==
    Call(Named(name), schema_binary_to_string(Schema(batch)),
         Arrays(LAMBDA a : CASE a.type.k = "binary" -> f(a, Type("utf8"))
                             [] a.type.k = "large_binary" -> f(a, Type("large_utf8"))
                             [] OTHER -> a))

base58_encode == Encoded("base58_encode", base58_encode_column)
hex_encode(prefixed) == Encoded("hex_encode", LAMBDA a, t : hex_encode_column(prefixed, a, t))

u256_to_binary ==
    Call(Named("u256_to_binary"), schema_decimal256_to_binary(Schema(batch)),
         Arrays(LAMBDA a : IF a.type = Decimal256 THEN u256_column_to_binary(a) ELSE a))

large_ints_to_binary ==
    Call(Named("large_ints_to_binary"), schema_large_int_to_binary(Schema(batch)),
         Arrays(LAMBDA a : CASE a.type.k = "decimal256" -> decimal256_to_be32(a)
                             [] a.type.k = "decimal128" -> decimal128_to_be16(a)
                             [] OTHER -> a))

\* A column of the batch that the caller converts, knowing what is in it.
Replace(name, i, new) ==
    Call(Named(name), [Schema(batch) EXCEPT ![i].type = new.type],
         [Arrays(LAMBDA a : a) EXCEPT ![i] = new])

DecodeText(i) ==
    LET a == batch[i].array
        t == IF a.type.k = "utf8" THEN Type("binary") ELSE Type("large_binary")
    IN  /\ a.type.k \in TextKinds
        /\ \/ /\ Encoding(a) \subseteq {"58"}
              /\ Replace("base58_decode", i, base58_decode_column(a, t))
           \/ /\ Encoding(a) \subseteq {"0x"}
              /\ Replace("hex_decode_prefixed", i, hex_decode_column(TRUE, a, t))
           \/ /\ Encoding(a) \subseteq {"hex", "0x"}
              /\ Replace("hex_decode", i, hex_decode_column(FALSE, a, t))

NumberColumn(i) ==
    /\ batch[i].array.type.k \in ByteKinds
    /\ Replace("u256_from_binary", i, u256_column_from_binary(batch[i].array))

Enough == calls = MaxCalls /\ UNCHANGED vars

Init ==
    /\ \E i \in DOMAIN Batches : batch = Batches[i]
    /\ meant = batch
    /\ call = Named("none")
    /\ outcome = "ok"
    /\ calls = 0

Next ==
    \/ \E map \in Maps, allow \in BOOLEAN : cast(map, allow)
    \/ \E pair \in Retypes, allow \in BOOLEAN : cast_by_type(pair[1], pair[2], allow)
    \/ base58_encode
    \/ \E prefixed \in BOOLEAN : hex_encode(prefixed)
    \/ u256_to_binary
    \/ large_ints_to_binary
    \/ \E i \in DOMAIN batch : DecodeText(i) \/ NumberColumn(i)
    \/ Enough

Spec == Init /\ [][Next]_vars

-----------------------------------------------------------------------------
\* The properties.

\* The bytes of a text cell or of a binary one.
Bytes(v, t) ==
    IF t.k \in ByteKinds THEN v ELSE IF v.enc = "58" THEN v.body ELSE Unhex(v.body)

IsNumber(t) == t.k \in NumberKinds
IsText(v, t) == t.k \in TextKinds /\ v.enc \in {"dec", "flt"}

\* v, in a column of type t, stands for the value w of type s.
StandsFor(v, t, w, s) ==
    LET number == IF IsNumber(s) THEN w ELSE Unsigned(w)
    IN  IF t.k = "float64" THEN v = Rounded(number)
        ELSE IF t.k \in Decimals THEN v = number
        ELSE IF IsText(v, t) THEN v.body = number
        ELSE IF IsNumber(s) THEN w \in {Unsigned(Bytes(v, t)), Signed(Bytes(v, t))}
        ELSE \/ Bytes(v, t) = w
             \/ /\ Trimmed(Bytes(v, t)) = Trimmed(w)
                /\ Len(Bytes(v, t)) \in {Len(Trimmed(w)), Half, Word}

\* u256_column_from_binary reads bytes as unsigned: the Half bytes of a negative
\* Decimal128 it cannot tell from those of a positive number.
SignLost(v, t, w, s) == IsNumber(s) /\ w < 0 /\ StandsFor(v, t, w + Pow(Half), s)

\* Whatever casts, encodings and decodings a batch goes through, a cell that is
\* there stands for the value the caller put in, or for the float the caller made
\* of it: no call of cast, cast_by_type, of the hex, base58 and u256 conversions
\* wraps, truncates or moves a value silently.
ValuesPreserved ==
    Simple => \A i \in DOMAIN meant : \A r \in 1..meant[i].array.len :
        LET v == Cell(batch[i].array, r)  t == batch[i].array.type
            w == Cell(meant[i].array, r)  s == meant[i].array.type
        IN  v = Null \/ (w # Null /\ (StandsFor(v, t, w, s) \/ SignLost(v, t, w, s)))

Forgiving(c) == c.name \in {"cast", "cast_by_type"} /\ c.allow

\* A number, or the text of one, that an integer of `size` bytes has no room for.
TooWide(v, t, size) == (IsNumber(t) \/ IsText(v, t)) /\ ~InWidth(NumberIn(v, t), size)

\* Every call computes a schema beside its arrays (cast_schema, the schema_*
\* functions), and the two agree.  A call fails in RecordBatch::try_new only where
\* allow_cast_fail put a null, for a number too wide, in a field that has no nulls:
\* cast_schema keeps is_nullable.
SchemasAgree ==
    /\ outcome # "mismatch"
    /\ Simple /\ outcome = "nulls" =>
          /\ Forgiving(call)
          /\ \E i \in DOMAIN batch : ~batch[i].nullable /\
                \E r \in 1..batch[i].array.len, size \in {Half, Word} :
                    TooWide(Cell(batch[i].array, r), batch[i].array.type, size)

\* A value becomes null only in a cast or cast_by_type with allow_cast_fail, only in
\* a decimal, and only if it is a number too wide for that decimal itself: a bad row
\* takes no other row with it, and decimals lose none on their way through text to
\* a float.
NullsOnlyWhereCastFails ==
    [][Simple => \A i \in DOMAIN batch : \A r \in 1..batch[i].array.len :
          LET v == Cell(batch[i].array, r)  t == batch[i].array.type  to == batch'[i].array.type
          IN  v # Null /\ Cell(batch'[i].array, r) = Null
                  => Forgiving(call') /\ to.k \in Decimals /\ TooWide(v, t, Size(to))]_vars
=============================================================================
