---------------------------- MODULE MCQueryEngine ----------------------------
(* Instances of QueryEngine for TLC: table "A" with a key, a bytes and a      *)
(* boolean column, table "B" with a key; chunks with up to three rows of "A", *)
(* and queries of one or two selections, ill-formed ones among them.          *)
EXTENDS QueryEngine, Integers

A(k, v, b) == [k |-> k, v |-> v, b |-> b]
PoolA == {A(1, <<1>>, TRUE), A(1, <<1, 2>>, Null), A(2, Null, FALSE),
          A(Null, <<2>>, TRUE), A(2, <<1, 2>>, TRUE)}
PoolB == {[k |-> 1], [k |-> 2], [k |-> Null]}

TypesA == [k |-> "int", v |-> "bytes", b |-> "bool"]
TypesB == [k |-> "int"]

MCDatasets ==
    {[A |-> [types |-> TypesA, rows |-> ra], B |-> [types |-> TypesB, rows |-> rb]] :
        ra \in {S \in SUBSET PoolA : Cardinality(S) \in 1..3}, rb \in SUBSET PoolB}

OneOf(type, S)  == [kind |-> "contains", type |-> type, values |-> S]
StartsWith(S) == [kind |-> "starts_with", type |-> "bytes", values |-> S]
Bool(b)       == [kind |-> "bool", type |-> "bool", value |-> b]
Include(fields, other, otherFields) ==
    [fields |-> fields, other |-> other, otherFields |-> otherFields]
Sel(table, filters, include) ==
    [table |-> table, filters |-> filters, include |-> include]

NoFilters == [c \in {} |-> {}]
KeyInclude(other) == Include(<<"k">>, other, <<"k">>)

SelsA ==
    {Sel("A", f, inc) :
        f \in {NoFilters, [v |-> OneOf("bytes", {<<1>>, <<2>>})], [v |-> StartsWith({<<1>>})],
               [b |-> Bool(TRUE)], [v |-> StartsWith({<<1>>}), b |-> Bool(FALSE)]},
        inc \in {{}, {KeyInclude("B")}, {KeyInclude("A"), KeyInclude("B")}}}
SelsB ==
    {Sel("B", f, inc) : f \in {[k |-> OneOf("int", {1})]}, inc \in {{}, {KeyInclude("A")}}}
IllFormed ==
    {Sel("C", NoFilters, {}),
     Sel("A", [d3 |-> OneOf("bytes", {<<1>>})], {}),
     Sel("A", [b |-> OneOf("bool", {TRUE})], {}),
     Sel("A", [k |-> OneOf("bytes", {<<1>>})], {}),
     Sel("A", NoFilters, {Include(<<"k", "v">>, "B", <<"k">>)}),
     Sel("A", NoFilters, {KeyInclude("C")})}

MCFields == {[A |-> {"k", "v"}, B |-> {"k", "absent"}]}
Ask(selections, fields) == [selections |-> selections, fields |-> fields]

MCQueries ==
    {Ask(<<s>>, f) : s \in SelsA \cup SelsB \cup IllFormed, f \in MCFields}
    \cup {Ask(<<s, u>>, f) : s \in SelsA, u \in SelsA \cup SelsB, f \in MCFields}
    \cup {Ask(<<s, u>>, f) : s \in {Sel("A", NoFilters, {})}, u \in IllFormed, f \in MCFields}
    \cup {Ask(<<Sel("A", NoFilters, {})>>, [A |-> {"k"}, C |-> {"k"}])}
=============================================================================
