-------------------------------- MODULE Columns --------------------------------
(***************************************************************************)
(* What the functions of src/cast/src/lib.rs make of a column, and of a    *)
(* schema.                                                                 *)
(*                                                                         *)
(* Numbers and bytes are scaled down: a byte has Base values, a 256-bit    *)
(* integer has Word bytes and a 128-bit one Half.  Text is a record of the *)
(* encoding it is in and of what it encodes, digit by digit for hex.       *)
(***************************************************************************)
EXTENDS Arrow

CONSTANTS
    Base,       \* the values of a byte: a square, two hex digits to a byte
    Word, Half  \* bytes of a 256-bit and of a 128-bit integer

ASSUME BaseAssumption == Base \in Nat /\ \E d \in 2..Base : d * d = Base
ASSUME SizesAssumption == Word \in Nat /\ Half \in 1..Word

Decimal256 == [Type("decimal256") EXCEPT !.n = 76]
Decimal128 == [Type("decimal128") EXCEPT !.n = 38]
Digit == CHOOSE d \in 1..Base : d * d = Base

-----------------------------------------------------------------------------
\* Big-endian bytes.

\* The values of n bytes.
Pow(n) == LET p[i \in 0..n] == IF i = 0 THEN 1 ELSE p[i - 1] * Base IN p[n]

Unsigned(bytes) ==
    LET u[i \in 0..Len(bytes)] == IF i = 0 THEN 0 ELSE u[i - 1] * Base + bytes[i]
    IN  u[Len(bytes)]

Signed(bytes) ==
    LET u == Unsigned(bytes)  m == Pow(Len(bytes))
    IN  IF 2 * u < m THEN u ELSE u - m

\* to_be_bytes of an integer of `size` bytes, in two's complement.
BeBytes(v, size) == [i \in 1..size |-> ((v % Pow(size)) \div Pow(size - i)) % Base]

\* The bytes after the leading zeros.
LeadingZeros(bytes) ==
    CHOOSE k \in 0..Len(bytes) :
        /\ \A j \in 1..k : bytes[j] = 0
        /\ k = Len(bytes) \/ bytes[k + 1] # 0

Trimmed(bytes) ==
    LET k == LeadingZeros(bytes) IN [i \in 1..(Len(bytes) - k) |-> bytes[k + i]]

\* Two digits to a byte, and back.
Hex(bytes) ==
    [i \in 1..(2 * Len(bytes)) |->
        IF i % 2 = 1 THEN bytes[(i + 1) \div 2] \div Digit ELSE bytes[i \div 2] % Digit]

Unhex(digits) ==
    [i \in 1..(Len(digits) \div 2) |-> digits[2 * i - 1] * Digit + digits[2 * i]]

\* What a call makes of a column, value by value.
Cells(a, t, f(_)) == Leaf(t, [r \in 1..a.len |-> IF Cell(a, r) = Null THEN Null ELSE f(Cell(a, r))])

-----------------------------------------------------------------------------
\* The columns.

base58_encode_column(a, t) == Cells(a, t, LAMBDA v : [enc |-> "58", body |-> v])

hex_encode_column(prefixed, a, t) ==
    Cells(a, t, LAMBDA v : [enc |-> IF prefixed THEN "0x" ELSE "hex", body |-> Hex(v)])

\* Text in another encoding than base58 is taken for one only by mistake.
base58_decode_column(a, t) ==
    Cells(a, t, LAMBDA v : IF v.enc = "58" THEN v.body ELSE Fail)

\* With PREFIXED the first two characters go, whatever they are.  An x, or an
\* odd number of digits, is no hex.
hex_decode_column(prefixed, a, t) ==
    LET digits(v) == IF prefixed /\ v.enc = "hex" THEN SubSeq(v.body, 3, Len(v.body)) ELSE v.body
        wrong(v) == \/ v.enc \notin {"hex", "0x"}
                    \/ ~prefixed /\ v.enc = "0x"
                    \/ prefixed /\ v.enc = "hex" /\ Len(v.body) < 2
                    \/ Len(digits(v)) % 2 = 1
    IN  Cells(a, t, LAMBDA v : IF wrong(v) THEN Fail ELSE Unhex(digits(v)))

\* A slip: the bits of a large value are taken for a signed one.
u256_column_wrapping(a) ==
    Cells(a, Decimal256, LAMBDA v : IF Len(v) > Word THEN Fail ELSE Signed(BeBytes(Unsigned(v), Word)))

\* At most Word bytes, and below the sign bit of the signed integer.
u256_column_from_binary(a) ==
    Cells(a, Decimal256, LAMBDA v :
        IF Len(v) > Word \/ 2 * Unsigned(v) >= Pow(Word) THEN Fail ELSE Unsigned(v))

u256_column_to_binary(a) ==
    Cells(a, Type("binary"), LAMBDA v : IF v < 0 THEN Fail ELSE Trimmed(BeBytes(v, Word)))

decimal256_to_be32(a) == Cells(a, Type("binary"), LAMBDA v : BeBytes(v, Word))
decimal128_to_be16(a) == Cells(a, Type("binary"), LAMBDA v : BeBytes(v, Half))

\* arrow::compute::can_cast_types, for these types: numbers and text, and text
\* and bytes, into each other.
Decimals == {"decimal256", "decimal128"}
NumberKinds == Decimals \cup {"float64"}
TextKinds == {"utf8", "large_utf8"}
ByteKinds == {"binary", "large_binary"}

CanCast(from, to) ==
    \/ from.k \in NumberKinds \cup TextKinds /\ to.k \in NumberKinds \cup TextKinds
    \/ from.k \in TextKinds \cup ByteKinds /\ to.k \in TextKinds \cup ByteKinds

\* The nearest float, and whether a decimal has room for a number.
Rounded(v) == ((v + 2) \div 4) * 4
Size(t) == IF t.k = "decimal256" THEN Word ELSE Half
Fits(v, t) == Signed(BeBytes(v, Size(t))) = v

\* arrow::compute::cast_with_options on one value: a number, the text of one, or
\* what only changes the size of its offsets.  The text of a float is marked.
NumberIn(v, t) == IF t.k \in TextKinds THEN v.body ELSE v

ArrowCast(from, to, v) ==
    IF to.k \in Decimals THEN IF Fits(NumberIn(v, from), to) THEN NumberIn(v, from) ELSE Fail
    ELSE IF to.k = "float64" THEN Rounded(NumberIn(v, from))
    ELSE IF from.k \in NumberKinds
         THEN [enc |-> IF from.k = "float64" THEN "flt" ELSE "dec", body |-> v]
    ELSE v

\* A slip: one value that does not cast takes its column with it.
SafeCastColumn(a, to, allow) ==
    LET out == Cells(a, to, LAMBDA v : ArrowCast(a.type, to, v))
    IN  IF ~CanCast(a.type, to) THEN Leaf(to, <<Fail>>)
        ELSE IF allow /\ Failed(out) THEN Cells(a, to, LAMBDA v : Null) ELSE out

\* allow_cast_fail is the `safe` option: a value that does not cast is null.  It
\* does not help where no value casts.
SafeCast(a, to, allow) ==
    IF ~CanCast(a.type, to) THEN Leaf(to, <<Fail>>)
    ELSE Cells(a, to, LAMBDA v : LET w == ArrowCast(a.type, to, v)
                                 IN  IF allow /\ w = Fail THEN Null ELSE w)

\* Decimals reach floats by way of text.
CastColumn(a, to, allow) ==
    IF a.type.k \in Decimals /\ to.k = "float64"
    THEN SafeCast(SafeCast(a, Type("utf8"), allow), to, allow)
    ELSE SafeCast(a, to, allow)

-----------------------------------------------------------------------------
\* The schemas.

FieldMap(schema, f(_)) == [i \in DOMAIN schema |-> [schema[i] EXCEPT !.type = f(schema[i])]]

\* The first entry of the map for a name.
Targets(map, name) == SelectSeq(map, LAMBDA e : e[1] = name)

cast_schema(map, schema) ==
    FieldMap(schema, LAMBDA f : IF Targets(map, f.name) = <<>> THEN f.type
                                ELSE Targets(map, f.name)[1][2])

cast_schema_by_type(schema, from, to) ==
    FieldMap(schema, LAMBDA f : IF f.type = from THEN to ELSE f.type)

schema_binary_to_string(schema) ==
    FieldMap(schema, LAMBDA f : CASE f.type.k = "binary" -> Type("utf8")
                                  [] f.type.k = "large_binary" -> Type("large_utf8")
                                  [] OTHER -> f.type)

schema_decimal256_to_binary(schema) ==
    FieldMap(schema, LAMBDA f : IF f.type = Decimal256 THEN Type("binary") ELSE f.type)

\* A slip: the schema forgets the smaller decimals.
schema_large_int_256_to_binary(schema) ==
    FieldMap(schema, LAMBDA f : IF f.type.k = "decimal256" THEN Type("binary") ELSE f.type)

schema_large_int_to_binary(schema) ==
    FieldMap(schema, LAMBDA f : IF f.type.k \in Decimals
                                THEN Type("binary") ELSE f.type)

=============================================================================
