--------------------------------- MODULE Borsh ---------------------------------
(***************************************************************************)
(* src/svm-decode/src/deserialize.rs: values read off the front of a byte  *)
(* string by their types, and the grammar that the bytes are meant to      *)
(* follow.                                                                 *)
(*                                                                         *)
(* A type is [k, size, n, inner]: inner holds the fields [name, unit, type]*)
(* of a struct or the variants of an enum (a unit variant has no type), or *)
(* the one type that an option or an array is made of.  Integers of Half   *)
(* bytes are the 128-bit ones.  A value is an integer, a truth value, the  *)
(* sequence of its parts, <<>> or <<v>> for an option, and [name, val] with*)
(* such a val for an enum.                                                 *)
(***************************************************************************)
EXTENDS Columns, Flatten

CONSTANT LenSize    \* bytes of the length of an array: 4 in the code

Of(t) == t.inner[1].type
IsInt(t) == t.k \in {"u", "i"}

\* from_le_bytes
LeNumber(t, bytes) == IF t.k = "u" THEN Unsigned(Reverse(bytes)) ELSE Signed(Reverse(bytes))
Count(bytes) == Unsigned(Reverse(SubSeq(bytes, 1, LenSize)))

Rest(bytes, n) == SubSeq(bytes, n + 1, Len(bytes))

-----------------------------------------------------------------------------
\* The deserializer: what it read and what is left, or that it failed.

Read(val, rest) == [ok |-> TRUE, val |-> val, rest |-> rest]
NoRead == [ok |-> FALSE, val |-> <<>>, rest |-> <<>>]

\* Only integers and booleans can be the elements of a fixed array.
check_type_size(t) == CASE IsInt(t) -> t.size [] t.k = "bool" -> 1 [] OTHER -> 0

RECURSIVE deserialize_value(_, _), deserialize_each(_, _)

deserialize_value(t, data) ==
    CASE IsInt(t) ->
            IF Len(data) < t.size THEN NoRead
            ELSE Read(LeNumber(t, SubSeq(data, 1, t.size)), Rest(data, t.size))
      [] t.k = "bool" -> IF data = <<>> THEN NoRead ELSE Read(data[1] # 0, Tail(data))
      [] t.k = "option" ->
            IF data = <<>> \/ data[1] > 1 THEN NoRead
            ELSE IF data[1] = 0 THEN Read(<<>>, Tail(data))
            ELSE LET d == deserialize_value(Of(t), Tail(data))
                 IN  IF d.ok THEN Read(<<d.val>>, d.rest) ELSE NoRead
      [] t.k = "fixed" ->
            LET size == check_type_size(Of(t))
                chunk(i) == SubSeq(data, (i - 1) * size + 1, i * size)
            IN  IF size = 0 \/ Len(data) < size * t.n THEN NoRead
                ELSE Read([i \in 1..t.n |-> deserialize_value(Of(t), chunk(i)).val],
                          Rest(data, size * t.n))
      [] t.k = "array" ->
            IF Len(data) < LenSize THEN NoRead
            ELSE deserialize_each([i \in 1..Count(data) |-> Of(t)], Rest(data, LenSize))
      [] t.k = "struct" -> deserialize_each([i \in DOMAIN t.inner |-> t.inner[i].type], data)
      [] t.k = "enum" ->
            IF data = <<>> \/ data[1] >= Len(t.inner) THEN NoRead
            ELSE LET variant == t.inner[data[1] + 1]
                     d == deserialize_value(variant.type, Tail(data))
                 IN  IF variant.unit THEN Read([name |-> variant.name, val |-> <<>>], Tail(data))
                     ELSE IF d.ok THEN Read([name |-> variant.name, val |-> <<d.val>>], d.rest)
                     ELSE NoRead

\* One value after the other.
deserialize_each(types, data) ==
    IF types = <<>> THEN Read(<<>>, data)
    ELSE LET d == deserialize_value(Head(types), data)
             e == deserialize_each(Tail(types), d.rest)
         IN  IF d.ok /\ e.ok THEN Read(<<d.val>> \o e.val, e.rest) ELSE NoRead

\* A slip: bytes that are left over are an error.
deserialize_data_strict(data, params) ==
    LET d == deserialize_each([i \in DOMAIN params |-> params[i].type], data)
    IN  IF d.rest = <<>> THEN d ELSE NoRead

\* With error_on_remaining unset, as both decoders call it.
deserialize_data(data, params) ==
    deserialize_each([i \in DOMAIN params |-> params[i].type], data)

-----------------------------------------------------------------------------
\* The grammar: the values of which these bytes, all of them, are an encoding.

RECURSIVE Encoded(_, _), EachEncoded(_, _)

Encoded(t, bytes) ==
    CASE IsInt(t) -> IF Len(bytes) = t.size THEN {LeNumber(t, bytes)} ELSE {}
      [] t.k = "bool" -> IF Len(bytes) = 1 THEN {bytes # <<0>>} ELSE {}
      [] t.k = "option" ->
            IF bytes = <<0>> THEN {<<>>}
            ELSE IF bytes # <<>> /\ bytes[1] = 1 THEN {<<v>> : v \in Encoded(Of(t), Tail(bytes))}
            ELSE {}
      [] t.k = "fixed" -> EachEncoded([i \in 1..t.n |-> Of(t)], bytes)
      [] t.k = "array" ->
            IF Len(bytes) < LenSize THEN {}
            ELSE EachEncoded([i \in 1..Count(bytes) |-> Of(t)], Rest(bytes, LenSize))
      [] t.k = "struct" -> EachEncoded([i \in DOMAIN t.inner |-> t.inner[i].type], bytes)
      [] t.k = "enum" ->
            UNION {LET variant == t.inner[i] IN
                   IF bytes = <<>> \/ bytes[1] # i - 1 THEN {}
                   ELSE IF variant.unit
                   THEN IF Len(bytes) = 1 THEN {[name |-> variant.name, val |-> <<>>]} ELSE {}
                   ELSE {[name |-> variant.name, val |-> <<v>>] : v \in Encoded(variant.type, Tail(bytes))}
                   : i \in DOMAIN t.inner}

EachEncoded(types, bytes) ==
    IF types = <<>> THEN (IF bytes = <<>> THEN {<<>>} ELSE {})
    ELSE UNION {{<<v>> \o rest : v \in Encoded(Head(types), SubSeq(bytes, 1, n)),
                                 rest \in EachEncoded(Tail(types), Rest(bytes, n))}
                : n \in 0..Len(bytes)}

\* The values that the bytes begin with an encoding of.
Values(params, bytes) ==
    UNION {EachEncoded([i \in DOMAIN params |-> params[i].type], SubSeq(bytes, 1, n))
           : n \in 0..Len(bytes)}
=============================================================================
