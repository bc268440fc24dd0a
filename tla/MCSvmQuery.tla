------------------------------ MODULE MCSvmQuery ------------------------------
(* Instances of SvmQuery for TLC: two slots with three transactions, inner      *)
(* instructions, data that differs in the first, the third, the fifth or the    *)
(* ninth byte, and logs, balances and rewards; every single request with every  *)
(* combination of flags, and pairs of requests with at most one flag each.      *)
EXTENDS SvmQuery

Slot(n) == [id |-> n, slot |-> n, hash |-> "h", height |-> n - 1]
Tx(id, s, i, payer) ==
    [id |-> id, block_slot |-> s, transaction_index |-> i, fee_payer |-> payer, signature |-> "s"]
Ix(id, s, i, at, program, a0, bytes, committed) ==
    [id |-> id, block_slot |-> s, block_hash |-> "h", transaction_index |-> i,
     instruction_address |-> at, program_id |-> program, a0 |-> a0, rest_of_accounts |-> <<>>,
     data |-> bytes, d1 |-> Cut(bytes, 1), d2 |-> Cut(bytes, 2), d4 |-> Cut(bytes, 4),
     d8 |-> Cut(bytes, 8), is_committed |-> committed]
Log(id, s, i, at, program) ==
    [id |-> id, block_slot |-> s, transaction_index |-> i, instruction_address |-> at,
     program_id |-> program]
Balance(id, s, i, account) ==
    [id |-> id, block_slot |-> s, transaction_index |-> i, account |-> account]
Reward(id, s, key) == [id |-> id, block_slot |-> s, pubkey |-> key]

Bytes9(b3, b5, b9) == <<1, 1, b3, 1, b5, 1, 1, 1, b9>>

MCChain ==
    [blocks |-> {Slot(1), Slot(2)},
     transactions |-> {Tx(1, 1, 0, "a"), Tx(2, 1, 1, "b"), Tx(3, 2, 0, "a")},
     instructions |-> {Ix(1, 1, 0, <<0>>, "p", "a", Bytes9(1, 1, 1), TRUE),
                       Ix(2, 1, 0, <<0, 0>>, "q", "b", <<2>>, TRUE),
                       Ix(3, 1, 0, <<1>>, "q", Null, Bytes9(1, 1, 2), TRUE),
                       Ix(4, 1, 1, <<0>>, "p", "b", Bytes9(1, 2, 1), FALSE),
                       Ix(5, 2, 0, <<0>>, "p", "a", Bytes9(2, 1, 1), TRUE)},
     logs |-> {Log(1, 1, 0, <<0>>, "p"), Log(2, 1, 0, <<0, 0>>, "q"), Log(3, 1, 1, <<0>>, "p")},
     balances |-> {Balance(1, 1, 0, "a"), Balance(2, 1, 1, "b")},
     token_balances |-> {Balance(1, 1, 0, "a"), Balance(2, 2, 0, "b")},
     rewards |-> {Reward(1, 1, "a"), Reward(2, 2, "b")}]

\* The first n bytes of the first instruction's data.
Disc(n) == SubSeq(Bytes9(1, 1, 1), 1, n)

Filters ==
    [instructions |->
        {[program_id |-> {}], [program_id |-> {"q"}], [a0 |-> {"a"}],
         [is_committed |-> {TRUE}, program_id |-> {"p"}],
         [d1 |-> {<<1>>}], [d3 |-> {Disc(3)}], [d4 |-> {Disc(4)}],
         [d1 |-> {<<2>>}, discriminator |-> {<<1>>}],
         [discriminator |-> {<<>>}], [discriminator |-> {Disc(1), Disc(2)}]}
        \cup {[discriminator |-> {Disc(n)}] : n \in {2, 3, 5, 8, 9}},
     transactions   |-> {[fee_payer |-> {}], [fee_payer |-> {"a"}]},
     logs           |-> {[program_id |-> {}], [program_id |-> {"q"}]},
     balances       |-> {[account |-> {"b"}]},
     token_balances |-> {[account |-> {"b"}]},
     rewards        |-> {[pubkey |-> {}], [pubkey |-> {"b"}]}]
RequestsWith(n) ==
    UNION {{[table |-> t, filters |-> f, include |-> inc] :
                f \in Filters[t], inc \in {S \in SUBSET IncludeFlags[t] : Cardinality(S) <= n}} :
             t \in DOMAIN IncludeFlags}

NoFields == [t \in Tables |-> {}]
MCFields ==
    {NoFields,
     [NoFields EXCEPT !.instructions = {"data", "a0"}, !.blocks = {"hash"}],
     [NoFields EXCEPT !.instructions = {"block_hash"}, !.blocks = {"slot", "height"},
                      !.logs = {"program_id", "block_slot"}]}
Ask(requests, fields, all) ==
    [requests |-> requests, fields |-> fields, include_all_blocks |-> all]

MCSvmQueries ==
    {Ask(<<r>>, f, all) : r \in RequestsWith(5), f \in MCFields, all \in BOOLEAN}
    \cup {Ask(<<r, s>>, f, FALSE) :
            r \in RequestsWith(1), s \in RequestsWith(1), f \in {NoFields}}
=============================================================================
