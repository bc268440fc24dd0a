-------------------------------- MODULE EvmJobs --------------------------------
(* What callers ask of the EVM decoder in the run: see MCDecode.             *)
EXTENDS Columns, Flatten

CONSTANT Bad

\* Types, with 2- and 3-bit native integers, "128" in 6 bits and "256" in 8.
Sol(k) == [k |-> k, bits |-> 0, n |-> 0, inner |-> <<>>]
UInt(bits) == [Sol("uint") EXCEPT !.bits = bits]
SInt(bits) == [Sol("int") EXCEPT !.bits = bits]
Tuple(types) == [Sol("tuple") EXCEPT !.inner = types]
Array(t) == [Sol("array") EXCEPT !.inner = <<t>>]
FixedArray(t, n) == [Sol("fixed") EXCEPT !.inner = <<t>>, !.n = n]

Param(name, t) == [name |-> name, type |-> t, indexed |-> FALSE, comps |-> <<>>]
Topic(name, t) == [Param(name, t) EXCEPT !.indexed = TRUE]
Named(name, comps) ==
    [Param(name, Tuple([i \in DOMAIN comps |-> comps[i].type])) EXCEPT !.comps = comps]

Pair == Tuple(<<UInt(2), Sol("address")>>)

Point == Named(<<"p">>, <<Param(<<"x">>, SInt(6)), Param(<<>>, UInt(3)),
                          Named(<<"q">>, <<Param(<<"y">>, UInt(8))>>)>>)

Blobs(name, vals) == Column(<<name>>, Leaf(Type("binary"), vals), TRUE)
Large(name, vals) == Column(<<name>>, Leaf(Type("large_binary"), vals), TRUE)
Text8(name) == Column(<<name>>, Leaf(Type("utf8"), <<"t", "t", "t">>), FALSE)

Call3(params, vals) == [call |-> "call", sig |-> params, data |-> <<Blobs("input", vals)>>]

\* Rows of a call: some of three blobs, in any order.
Calls(params, blobs) == [f \in [1..3 -> 1..Len(blobs)] |-> Call3(params, [r \in 1..3 |-> blobs[f[r]]])]

PointBlobs == <<Null, Bad, <<<<-32, 7, <<255>>>>>>, <<<<31, 9, <<127>>>>>>>>
ArrayBlobs ==
    <<Null, Bad, <<<<<<1, "a">>, <<2, "b">>>>, <<>>>>,
      <<<<<<3, "c">>, <<5, "d">>>>, <<<<1, "e">>, <<2, "f">>>>>>>>
ArrayParams == <<Param(<<"f">>, FixedArray(Pair, 2)), Param(<<>>, Array(Pair))>>
NestedBlobs == <<Null, <<<<<<1>>, <<2, 3>>>>>>, <<<<<<>>, <<7>>>>>>, <<<<<<0, 9>>, <<>>>>>>>>
NestedParams == <<Param(<<"g">>, FixedArray(Array(UInt(3)), 2))>>
PlainBlobs == <<Bad, Null, <<63, -128, "s">>, <<32, 127, "u">>, <<100, 0, "t">>>>
PlainParams == <<Param(<<"a">>, UInt(6)), Param(<<"a">>, SInt(8)), Param(<<>>, Sol("string"))>>

\* Events of three rows.
Selectors == <<<<"selector", "selector", "other">>, <<"other", Null, "selector">>>>

Event(sig, columns) == [call |-> "events", sig |-> sig, data |-> columns]

Transfer == <<Param(<<"amount">>, UInt(8)), Topic(<<"from">>, Sol("address")), Topic(<<>>, UInt(2))>>
TransferColumns(t) ==
    <<Blobs("topic0", t), Large("topic1", <<"a", "b", Null>>), Blobs("topic2", <<4, 3, 1>>),
      Blobs("data", <<<<5>>, <<200>>, <<7>>>>)>>

Events ==
    <<Event(Transfer, TransferColumns(Selectors[1])),
      Event(Transfer, TransferColumns(Selectors[2])),
      Event(Transfer, Tail(TransferColumns(Selectors[1]))),
      Event(Transfer, SubSeq(TransferColumns(Selectors[1]), 1, 3)),
      Event(Transfer, [TransferColumns(Selectors[1]) EXCEPT ![3] = Text8("topic2")]),
      Event(Transfer, [TransferColumns(Selectors[1]) EXCEPT ![3] = Text8("topic3")]),
      Event(Transfer, [TransferColumns(Selectors[1]) EXCEPT ![1] = Text8("topic0")]),
      Event(Transfer, [TransferColumns(Selectors[2]) EXCEPT ![4] = Blobs("data", <<<<1>>, <<2>>, Bad>>)]),
      Event(<<Point>>, <<Blobs("topic0", Selectors[1]),
                         Blobs("data", <<PointBlobs[3], Bad, PointBlobs[4]>>)>>),
      Event(<<Topic(<<"topic0">>, SInt(8))>>,
            <<Blobs("topic0", Selectors[1]), Blobs("topic1", <<-1, Bad, 3>>), Text8("data")>>),
      Event(<<>>, <<Blobs("topic0", Selectors[1]), Blobs("data", <<<<>>, <<>>, <<>>>>)>>),
      Event(<<Param(<<"f">>, Sol("function"))>>,
            <<Blobs("topic0", Selectors[1]), Blobs("data", <<Bad, Bad, Bad>>)>>),
      Event([i \in 1..4 |-> Topic(<<>>, Sol("address"))],
            <<Blobs("topic1", <<"a", "a", "a">>), Blobs("topic2", <<"a", "a", "a">>),
              Blobs("topic3", <<"a", "a", "a">>), Blobs("data", <<<<>>, <<>>, <<>>>>)>>),
      Event(<<[Point EXCEPT !.indexed = TRUE]>>,
            <<Blobs("topic1", <<Bad, Bad, Bad>>), Blobs("data", <<<<>>, <<>>, <<>>>>)>>)>>

CallJobs == Calls(<<Point>>, PointBlobs)
ArrayJobs == Calls(ArrayParams, ArrayBlobs)
NestedJobs == Calls(NestedParams, NestedBlobs)
PlainJobs == Calls(PlainParams, PlainBlobs)

\* One function of all of them, as their values cannot be compared in a set.
AllJobs ==
    [i \in (1..Len(Events)) \X {[r \in 1..3 |-> 1]} |-> Events[i[1]]]
    @@ [i \in {0} \X DOMAIN CallJobs |-> CallJobs[i[2]]]
    @@ [i \in {-1} \X DOMAIN ArrayJobs |-> ArrayJobs[i[2]]]
    @@ [i \in {-2} \X DOMAIN NestedJobs |-> NestedJobs[i[2]]]
    @@ [i \in {-3} \X DOMAIN PlainJobs |-> PlainJobs[i[2]]]
=============================================================================
