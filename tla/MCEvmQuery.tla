------------------------------ MODULE MCEvmQuery ------------------------------
(* Instances of EvmQuery for TLC: two blocks with three transactions, their    *)
(* logs and traces (a call, its inner call and a self-destruct among them) and *)
(* two block rewards; every single request with every combination of flags,    *)
(* and pairs of requests with at most one flag each, with each provider.       *)
EXTENDS EvmQuery

Block(n) == [id |-> n, number |-> n, hash |-> "h"]
Tx(id, b, i, from, status, contract) ==
    [id |-> id, block_number |-> b, transaction_index |-> i, from |-> from,
     status |-> status, contract_address |-> contract]
Log(id, b, i, address) ==
    [id |-> id, block_number |-> b, transaction_index |-> i, address |-> address]
Trace(id, b, i, at, type, from, address, refund, author, reward) ==
    [id |-> id, block_number |-> b, transaction_position |-> i, trace_address |-> at,
     type |-> type, from |-> from, address |-> address, refund_address |-> refund,
     author |-> author, reward_type |-> reward]
Call(id, b, i, at, from)    == Trace(id, b, i, at, "call", from, Null, Null, Null, Null)
Suicide(id, b, i, at, address, refund) ==
    Trace(id, b, i, at, "suicide", Null, address, refund, Null, Null)
Reward(id, b, author, reward) == Trace(id, b, Null, <<>>, "reward", Null, Null, Null, author, reward)

MCChain ==
    [blocks |-> {Block(1), Block(2)},
     transactions |-> {Tx(1, 1, 0, "a", 1, Null), Tx(2, 1, 1, "b", 1, "a"), Tx(3, 2, 0, "a", 0, Null)},
     logs |-> {Log(1, 1, 0, "a"), Log(2, 1, 0, "b"), Log(3, 1, 1, "b"), Log(4, 2, 0, "b")},
     traces |-> {Call(1, 1, 0, <<>>, "a"), Call(2, 1, 0, <<0>>, "b"),
                 Suicide(3, 1, 0, <<1>>, "a", "b"), Call(8, 1, 0, <<2>>, "a"), Call(4, 1, 1, <<>>, "b"),
                 Call(5, 2, 0, <<>>, "b"), Reward(6, 1, "a", "block"), Reward(7, 1, "b", "uncle")}]

Filters ==
    [transactions |-> {[from |-> {}], [from |-> {"a"}], [status |-> {1}], [status |-> {0, 1}],
                       [from |-> {"a"}, status |-> {0}], [contract_deployment_address |-> {"a"}]},
     logs   |-> {[address |-> {}], [address |-> {"a"}]},
     traces |-> {[from |-> {}], [from |-> {"a"}], [from |-> {"b"}], [author |-> {"a"}],
                 [address |-> {"a"}], [reward_type |-> {"uncle"}]}]
RequestsWith(n) ==
    UNION {{[table |-> t, filters |-> f, include |-> inc] :
                f \in Filters[t], inc \in {S \in SUBSET IncludeFlags[t] : Cardinality(S) <= n}} :
             t \in DOMAIN IncludeFlags}

DataColumn == [blocks |-> "hash", transactions |-> "from", logs |-> "address", traces |-> "from"]
FieldsOf(S) == [t \in DOMAIN DataColumn |-> IF t \in S THEN {DataColumn[t]} ELSE {}]
Ask(requests, S, all) ==
    [requests |-> requests, fields |-> FieldsOf(S), include_all_blocks |-> all]

MCEvmQueries ==
    {Ask(<<r>>, S, all) : r \in RequestsWith(4), S \in SUBSET DOMAIN DataColumn, all \in BOOLEAN}
    \cup {Ask(<<r, s>>, S, FALSE) :
            r \in RequestsWith(1), s \in RequestsWith(1), S \in {{}, {"blocks", "traces"}}}
=============================================================================
