-------------------------------- MODULE MCCast --------------------------------
EXTENDS CastFlatten

\* The second of two columns may have nulls only if it has some.
Two(a, b) == <<Column(<<"a">>, a, TRUE), Column(<<"b">>, b, b.nulls # NoNulls)>>

Columns ==
    <<Leaf(Decimal256, <<127, Null>>), Leaf(Decimal256, <<-1, 9>>), Leaf(Decimal256, <<0, 100>>),
      Leaf([Decimal256 EXCEPT !.n = 40], <<5, -3>>),
      Leaf(Decimal128, <<7, Null>>), Leaf(Decimal128, <<-8, 1>>), Leaf(Type("float64"), <<128, -4>>),
      Leaf(Type("binary"), <<<<0, 3>>, Null>>), Leaf(Type("binary"), <<<<>>, <<0, 0, 1>>>>),
      Leaf(Type("large_binary"), <<<<2, 0, 0, 0>>, <<1, 2>>>>)>>

CastBatches == [p \in (DOMAIN Columns) \X (DOMAIN Columns) |-> Two(Columns[p[1]], Columns[p[2]])]

CastMaps ==
    {<<<<<<"a">>, Decimal128>>>>,
     <<<<<<"b">>, Type("float64")>>, <<<<"b">>, Decimal128>>>>}
CastRetypes ==
    {<<Decimal256, Decimal128>>, <<Decimal256, Type("utf8")>>, <<Decimal128, Decimal256>>,
     <<Type("float64"), Decimal256>>, <<Type("float64"), Type("large_utf8")>>,
     <<Type("utf8"), Decimal128>>, <<Type("large_utf8"), Type("float64")>>,
     <<Type("large_binary"), Type("binary")>>}

-----------------------------------------------------------------------------
\* Struct columns, lists and fixed size lists of them, and clashing names.

Int64 == Type("int64")
Ints(n) == {Leaf(Int64, [r \in 1..n |-> r]), Leaf(Int64, [r \in 1..n |-> IF r = 2 THEN Null ELSE r])}
Bits(n) == [1..n -> BOOLEAN]
WithNulls(a, bits) == [a EXCEPT !.nulls = Validity(bits)]

Structs(n, names) ==
    {WithNulls(Struct(names, <<x, y>>, n), bits) : x, y \in Ints(n), bits \in Bits(n)}
Nested(n) ==
    {WithNulls(Struct(<<<<"p">>>>, <<s>>, n), bits) :
        s \in Structs(n, <<<<"x">>, <<"y">>>>), bits \in Bits(n)}
FixedStructs ==
    {Fixed(s.type, 2, s, bits) : s \in Structs(4, <<<<"x">>, <<"y">>>>), bits \in Bits(2)}
ListStructs ==
    {List(s.type, <<<<0, 2>>, <<2, 3>>>>, s, bits) :
        s \in Structs(3, <<<<"x">>, <<"y">>>>), bits \in Bits(2)}
FixedInts == {Fixed(Int64, 2, x, bits) : x \in Ints(4), bits \in Bits(2)}

One(a) == <<Column(<<"f">>, a, a.nulls # NoNulls)>>

\* A column of the name that a struct's child gets.
Clashing(last) ==
    {<<Column(<<"f">>, s, TRUE), Column(<<"f", ".", "x">>, x, TRUE)>> \o last :
        s \in Structs(2, <<<<"x">>, <<"y">>>>), x \in Ints(2)}

FlatSet ==
    {One(a) : a \in Structs(3, <<<<"x">>, <<"x">>>>) \cup Nested(2) \cup FixedStructs
                    \cup ListStructs \cup FixedInts}
    \cup Clashing(<<>>)

SlicedSet == {One(Slice(s, 1)) : s \in Structs(3, <<<<"x">>, <<"y">>>>)}

SlicedBatches == [b \in SlicedSet |-> b]

\* Indexed by a tag and an index of the kind, so that TLC compares only likes.
AllBatches ==
    [i \in {"cast"} \X DOMAIN CastBatches |-> CastBatches[i[2]]]
    @@ [i \in {"flat"} \X FlatSet |-> i[2]]
=============================================================================
