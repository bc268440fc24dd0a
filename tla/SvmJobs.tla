-------------------------------- MODULE SvmJobs --------------------------------
(* What callers ask of the Solana decoder in the run: see MCDecode.          *)
EXTENDS Borsh

\* Types: bytes have four values, 128-bit integers three bytes.
Dyn(k) == [k |-> k, size |-> 0, n |-> 0, inner |-> <<>>]
U(size) == [Dyn("u") EXCEPT !.size = size]
I(size) == [Dyn("i") EXCEPT !.size = size]
Boolean == Dyn("bool")
Inner(t) == <<[name |-> <<>>, unit |-> FALSE, type |-> t]>>
Option(t) == [Dyn("option") EXCEPT !.inner = Inner(t)]
Array(t) == [Dyn("array") EXCEPT !.inner = Inner(t)]
FixedArray(t, n) == [Dyn("fixed") EXCEPT !.inner = Inner(t), !.n = n]
Member(name, t) == [name |-> <<name>>, unit |-> FALSE, type |-> t]
Unit(name) == [name |-> <<name>>, unit |-> TRUE, type |-> Boolean]
StructOf(members) == [Dyn("struct") EXCEPT !.inner = members]
EnumOf(variants) == [Dyn("enum") EXCEPT !.inner = variants]

Input(name, t) == [name |-> <<name>>, type |-> t]
Signature(params, accounts) == [disc |-> <<1, 2>>, params |-> params, accounts |-> accounts]

Side == EnumOf(<<Member("bid", U(1)), Unit("none"), Member("ask", StructOf(<<Member("x", Boolean)>>))>>)

\* Byte strings as one log message, for each of these types: all of up to three
\* bytes, and of the longer ones those that start with a 1, the tag of a present
\* option and the length of an array of one.
Types ==
    <<U(1), I(2), U(3), Boolean, Option(Option(I(1))), Array(U(1)), Array(Option(U(1))),
      StructOf(<<Member("n", U(2)), Member("b", Boolean)>>), Side, FixedArray(U(1), 2),
      Option(Side), Array(Side)>>

Strings ==
    UNION {[1..n -> 0..(Base - 1)] : n \in 0..3} \cup {<<1>> \o s : s \in [1..3 -> 0..(Base - 1)]}

Message(rows) == <<Column(<<"message">>, Leaf(Type("utf8"), rows), TRUE)>>
Log(params, rows) == [call |-> "logs", sig |-> Signature(params, <<>>), data |-> Message(rows)]
Text64(body) == [b64 |-> TRUE, body |-> body]

LogJobs == [i \in (1..Len(Types)) \X Strings |-> Log(<<Input("p", Types[i[1]])>>, <<Text64(i[2])>>)]

\* Instructions of three rows, of some of these data in any order.
Data ==
    <<Null, <<1, 2, 1, 0, 3, 1, 1, 0, 2>>, <<1, 2, 0, 2, 0, 1, 0>>, <<1, 2, 1, 1>>, <<1, 3, 0, 0, 0, 1>>, <<1>>>>
Order == <<Input("o", Option(U(1))), Input("l", Array(Option(Boolean))), Input("s", Side)>>

Binary(name, rows) == Column(<<name>>, Leaf(Type("binary"), rows), TRUE)
LargeBinary(name, rows) == Column(<<name>>, Leaf(Type("large_binary"), rows), TRUE)
Utf8(name) == Column(<<name>>, Leaf(Type("utf8"), <<"t", "t", "t">>), FALSE)
RestOf(accounts) ==
    LET before(r) == Len(FlattenSeq(SubSeq(accounts, 1, r)))
    IN  Column(<<"rest_of_accounts">>,
               List(Type("binary"), [r \in DOMAIN accounts |-> <<before(r - 1), before(r)>>],
                    Leaf(Type("binary"), FlattenSeq(accounts)), [r \in DOMAIN accounts |-> accounts[r] # <<>>]), TRUE)

Columns(rows) ==
    <<Binary("data", rows), Binary("a0", <<"p", "q", "r">>), LargeBinary("a1", <<"s", Null, "t">>),
      RestOf(<<<<"u", "v">>, <<>>, <<Null, "w">>>>)>>
Accounts == <<<<"payer">>, <<>>, <<"mint">>>>

Instruction(params, accounts, columns) ==
    [call |-> "instructions", sig |-> Signature(params, accounts), data |-> columns]

OrderJobs == [f \in [1..3 -> DOMAIN Data] |-> Instruction(Order, Accounts, Columns([r \in 1..3 |-> Data[f[r]]]))]

Orders == Columns(<<Data[2], Data[3], Data[2]>>)
Without(i) == SubSeq(Orders, 1, i - 1) \o SubSeq(Orders, i + 1, Len(Orders))

Wide == StructOf(<<Member("w", Option(U(3)))>>)

Others ==
    <<Instruction(Order, Accounts, Without(1)),
      Instruction(Order, Accounts, Without(2)),
      Instruction(Order, Accounts, Without(4)),
      Instruction(Order, <<>>, Without(4)),
      Instruction(Order, <<<<"payer">>>>, Without(4)),
      Instruction(Order, Accounts, [Orders EXCEPT ![1] = Utf8("data")]),
      Instruction(Order, Accounts, [Orders EXCEPT ![3] = Utf8("a1")]),
      Instruction(Order, Accounts, [Orders EXCEPT ![4] = Utf8("rest_of_accounts")]),
      Instruction(Order, Accounts, [Orders EXCEPT ![4].array.type.fields[1].name = <<"account">>]),
      Instruction(Order, Accounts \o <<<<"owner">>>>, Orders),
      Instruction(Order, Accounts \o <<<<"owner">>, <<"signer">>>>, Orders),
      Instruction(<<>>, Accounts, Orders),
      Instruction(<<>>, <<>>, Orders),
      Instruction(<<Input("e", StructOf(<<>>))>>, <<>>, Orders),
      Instruction(<<Input("f", FixedArray(U(2), 1))>>, <<>>, Orders),
      Instruction(<<Input("w", Wide)>>, <<>>,
                  <<LargeBinary("data", <<<<1, 2, 1, 3, 3, 1>>, <<1, 2, 1, 0, 0, 2>>, <<1, 2, 0>>>>)>>),
      Log(Order, <<Null, Text64(<<0, 1, 0, 0, 1>>), [b64 |-> FALSE, body |-> <<>>]>>),
      Log(<<>>, <<Null>>),
      [call |-> "logs", sig |-> Signature(Order, <<>>), data |-> <<Binary("message", <<<<0>>>>)>>],
      [call |-> "logs", sig |-> Signature(Order, <<>>), data |-> Orders]>>

NoRow == [r \in 1..3 |-> 1]
AllJobs ==
    [i \in {-k : k \in 1..Len(Others)} \X {NoRow} |-> Others[-i[1]]]
    @@ [i \in {0} \X DOMAIN OrderJobs |-> OrderJobs[i[2]]]
    @@ [i \in DOMAIN LogJobs |-> LogJobs[i]]
=============================================================================
