------------------------------- MODULE SvmDecode -------------------------------
(***************************************************************************)
(* The crate tiders-svm-decode (src/svm-decode/src): instructions and      *)
(* program logs, decoded by a signature into Arrow columns.                *)
(*                                                                         *)
(* A signature is [disc, params, accounts]: the discriminator bytes, the   *)
(* parameters [name, type], and the names of the accounts.  A cell of the  *)
(* message column is [b64, body]: whether it is base64, and of what.       *)
(***************************************************************************)
EXTENDS Borsh

CONSTANTS
    Direct,     \* accounts with a column of their own: 10 in the code
    Jobs        \* what callers ask for: [call, sig, data], by some index

VARIABLES
    job,
    opts,       \* allow_decode_fail, filter_by_discriminator, hstack
    result      \* [state, batch]

vars == <<job, opts, result>>

-----------------------------------------------------------------------------
\* Arrow types and arrays (arrow_converter.rs).

IsByte(t) == t.k = "u" /\ t.size = 1
Bool == Type("boolean")
U8 == [Type("u") EXCEPT !.n = 1]

RECURSIVE to_arrow_dtype(_)
to_arrow_dtype(t) ==
    CASE IsInt(t) -> IF t.size = Half THEN Decimal128 ELSE [Type(t.k) EXCEPT !.n = t.size]
      [] t.k = "bool" -> Bool
      [] t.k = "option" -> to_arrow_dtype(Of(t))
      [] t.k = "fixed" ->
            IF IsByte(Of(t)) THEN Type("binary") ELSE FixedType(to_arrow_dtype(Of(t)), t.n)
      [] t.k = "array" -> ListType(to_arrow_dtype(Of(t)))
      [] t.k = "struct" ->
            StructType([i \in DOMAIN t.inner |->
                [name |-> t.inner[i].name, type |-> to_arrow_dtype(t.inner[i].type)]])
      [] t.k = "enum" ->
            StructType(<<[name |-> <<"variant_index">>, type |-> U8],
                         [name |-> <<"variant_data">>,
                          type |-> StructType([i \in DOMAIN t.inner |->
                              [name |-> t.inner[i].name,
                               type |-> IF t.inner[i].unit THEN Bool
                                        ELSE to_arrow_dtype(t.inner[i].type)]])]>>)

\* What to_arrow refuses even without a row: to_fixed_array knows bytes only, and
\* to_struct makes no batch without columns.
RECURSIVE Inconvertible(_)
Inconvertible(t) ==
    \/ t.k = "fixed" /\ ~IsByte(Of(t))
    \/ t.k \in {"struct", "enum"} /\ t.inner = <<>>
    \/ t.k # "fixed" /\ \E i \in DOMAIN t.inner : ~t.inner[i].unit /\ Inconvertible(t.inner[i].type)

\* to_option: nothing, and an option of nothing, are both null.
Unwrapped(vals) == [r \in DOMAIN vals |-> IF vals[r] \in {Null, <<>>} THEN Null ELSE vals[r][1]]

Part(vals, i) == [r \in DOMAIN vals |-> IF vals[r] = Null THEN Null ELSE vals[r][i]]
ListParts(vals) == [r \in DOMAIN vals |-> IF vals[r] = Null THEN <<>> ELSE vals[r]]

\* A slip: a missing array is given the place of one element.
ListRangesPadded(vals) ==
    LET before(r) == Len(FlattenSeq(SubSeq(ListParts(vals), 1, r)))
    IN  [r \in DOMAIN vals |-> IF r > 1 /\ vals[r - 1] = Null THEN <<before(r - 1), before(r - 1)>>
                               ELSE <<before(r - 1), before(r)>>]

ListRanges(vals) ==
    LET before(r) == Len(FlattenSeq(SubSeq(ListParts(vals), 1, r)))
    IN  [r \in DOMAIN vals |-> <<before(r - 1), before(r)>>]

\* to_decimal128: a u128 above i128::MAX has no place.
IntCell(t, v) ==
    IF t.size = Half /\ 2 * v >= Base ^ Half THEN Fail ELSE v

\* The position of the first variant of the name, and the value under it alone.
VariantIndex(t, v) ==
    (CHOOSE i \in DOMAIN t.inner : t.inner[i].name = v.name
        /\ \A j \in 1..(i - 1) : t.inner[j].name # v.name) - 1
VariantData(t, i, vals) ==
    [r \in DOMAIN vals |->
        IF vals[r] = Null \/ t.inner[i].unit THEN Null
        ELSE IF vals[r].name = t.inner[i].name /\ vals[r].val # <<>> THEN vals[r].val[1]
        ELSE Null]

RECURSIVE to_arrow(_, _)
to_arrow(t, vals) ==
    CASE IsInt(t) ->
            Leaf(to_arrow_dtype(t), [r \in DOMAIN vals |-> IF vals[r] = Null THEN Null
                                                          ELSE IntCell(t, vals[r])])
      [] t.k = "option" -> to_arrow(Of(t), Unwrapped(vals))
      [] t.k = "array" ->
            List(to_arrow_dtype(Of(t)), ListRanges(vals),
                 to_arrow(Of(t), FlattenSeq(ListParts(vals))),
                 [r \in DOMAIN vals |-> vals[r] # Null])
      [] t.k = "struct" ->
            Struct([i \in DOMAIN t.inner |-> t.inner[i].name],
                   [i \in DOMAIN t.inner |-> to_arrow(t.inner[i].type, Part(vals, i))],
                   Len(vals))
      [] t.k = "enum" ->
            Struct(<<<<"variant_index">>, <<"variant_data">>>>,
                   <<Leaf(U8, [r \in DOMAIN vals |-> IF vals[r] = Null THEN Null
                                                     ELSE VariantIndex(t, vals[r])]),
                     Struct([i \in DOMAIN t.inner |-> t.inner[i].name],
                            [i \in DOMAIN t.inner |->
                                IF t.inner[i].unit THEN Leaf(Bool, VariantData(t, i, vals))
                                ELSE to_arrow(t.inner[i].type, VariantData(t, i, vals))],
                            Len(vals))>>,
                   Len(vals))
      [] OTHER -> Leaf(to_arrow_dtype(t), vals)

-----------------------------------------------------------------------------
\* Rows.

StartsWith(data, disc) == Len(data) >= Len(disc) /\ SubSeq(data, 1, Len(disc)) = disc

\* The values of a row of instruction data, or of a log message; Fail without.
InstructionRow(sig, data) ==
    IF data = Null \/ ~StartsWith(data, sig.disc) THEN Fail
    ELSE LET d == deserialize_data(Rest(data, Len(sig.disc)), sig.params)
         IN  IF d.ok THEN d.val ELSE Fail

LogRow(sig, message) ==
    IF message = Null \/ ~message.b64 THEN Fail
    ELSE LET d == deserialize_data(message.body, sig.params)
         IN  IF d.ok THEN d.val ELSE Fail

-----------------------------------------------------------------------------
\* The calls.

ByName(batch, name) == SelectSeq(batch, LAMBDA c : c.name = <<name>>)
IsBinary(t) == t.k \in {"binary", "large_binary"}
IsText(t) == t.k \in {"utf8", "large_utf8"}
AccountName(i) == "a" \o ToString(i - 1)

Error == [state |-> "error", batch |-> <<>>]
Made(schema, arrays) ==
    IF (\E i \in DOMAIN arrays : AnyFailed(arrays[i])) \/ ~TryNew(schema, arrays) THEN Error
    ELSE [state |-> "ok", batch |-> Batch(schema, arrays)]

\* A column of the type refuses a failed row, or has a null for it.
ParamArrays(sig, rows) ==
    [i \in DOMAIN sig.params |->
        to_arrow(sig.params[i].type, [r \in DOMAIN rows |-> IF rows[r] = Fail THEN Null ELSE rows[r][i]])]
ParamFields(sig) ==
    [i \in DOMAIN sig.params |-> NullableField(sig.params[i].name, to_arrow_dtype(sig.params[i].type))]

Refused(sig, rows, o) ==
    \/ ~o.allow /\ \E r \in DOMAIN rows : rows[r] = Fail
    \/ \E i \in DOMAIN sig.params : Inconvertible(sig.params[i].type)

\* The columns of the decoded batch are followed by those of the input.
hstack_impl(made, data, o) ==
    IF made.state = "ok" /\ o.hstack THEN [made EXCEPT !.batch = @ \o data] ELSE made

decode_logs_batch(sig, data, o) ==
    LET message == ByName(data, "message")
        a == message[1].array
        rows == [r \in 1..a.len |-> LogRow(sig, Row(a, r))]
    IN  IF message = <<>> \/ ~IsText(a.type) THEN Error
        ELSE IF Refused(sig, rows, o) THEN Error
        ELSE hstack_impl(Made(ParamFields(sig), ParamArrays(sig, rows)), data, o)

\* The rows whose data start with the discriminator.
filter_by_discriminator_impl(sig, batch) ==
    LET data == ByName(batch, "data")
        rows == SelectSeq([r \in 1..batch[1].array.len |-> r],
                          LAMBDA r : Row(data[1].array, r) # Null
                                     /\ StartsWith(Row(data[1].array, r), sig.disc))
    IN  IF data = <<>> THEN batch
        ELSE [i \in DOMAIN batch |-> [batch[i] EXCEPT !.array = Take(@, rows)]]

\* The accounts in the list column, each row's in its place; a row with too few
\* fails the batch.
TooFew(a, n) == \E r \in 1..a.len : Row(a, r) # Null /\ Len(Row(a, r)) < n

unpack_rest_of_accounts(a, n) ==
    [i \in 1..n |-> Leaf(Type("binary"),
                         [r \in 1..a.len |-> IF Row(a, r) = Null THEN Null ELSE Row(a, r)[i]])]

AsBinary(a) == [a EXCEPT !.type = Type("binary")]

\* A column of another type is passed over, and missed later.  The type of the
\* list column is compared as a whole, with the name of its child field.
AccountLists == {ListType(Type("binary")), ListType(Type("large_binary"))}

DirectArrays(sig, data) ==
    LET n == IF Len(sig.accounts) < Direct THEN Len(sig.accounts) ELSE Direct
        cols == [i \in 1..n |-> ByName(data, AccountName(i))[1].array]
        kept == SelectSeq(cols, LAMBDA a : IsBinary(a.type))
    IN  [i \in DOMAIN kept |-> AsBinary(kept[i])]

RestArrays(sig, data) ==
    LET a == ByName(data, "rest_of_accounts")[1].array
    IN  IF Len(sig.accounts) > Direct /\ a.type \in AccountLists
        THEN unpack_rest_of_accounts(a, Len(sig.accounts) - Direct) ELSE <<>>

NoRest(sig, data) ==
    LET rest == ByName(data, "rest_of_accounts")
    IN  /\ Len(sig.accounts) > Direct
        /\ \/ rest = <<>>
           \/ /\ rest[1].array.type \in AccountLists
              /\ TooFew(rest[1].array, Len(sig.accounts) - Direct)

\* A slip: the rest of the accounts come first.
AccountArraysSwapped(sig, data) == RestArrays(sig, data) \o DirectArrays(sig, data)

AccountArrays(sig, data) == DirectArrays(sig, data) \o RestArrays(sig, data)

AccountFields(sig) ==
    [i \in DOMAIN sig.accounts |->
        NullableField(IF sig.accounts[i] = <<>> THEN <<AccountName(i)>> ELSE sig.accounts[i],
                      Type("binary"))]

decode_instructions(sig, accounts, a, o) ==
    LET rows == [r \in 1..a.len |-> InstructionRow(sig, Row(a, r))]
    IN  IF Refused(sig, rows, o) \/ Len(accounts) < Len(sig.accounts) THEN Error
        ELSE Made(ParamFields(sig) \o AccountFields(sig),
                  ParamArrays(sig, rows) \o SubSeq(accounts, 1, Len(sig.accounts)))

decode_instructions_batch(sig, batch, o) ==
    LET mistyped == ByName(batch, "data") # <<>> /\ ~IsBinary(ByName(batch, "data")[1].array.type)
        data == IF o.filter THEN filter_by_discriminator_impl(sig, batch) ELSE batch
    IN  IF \/ mistyped \/ ByName(batch, "data") = <<>>
           \/ \E i \in DOMAIN sig.accounts : i <= Direct /\ ByName(batch, AccountName(i)) = <<>>
        THEN Error
        ELSE IF NoRest(sig, data) THEN Error
        ELSE hstack_impl(decode_instructions(sig, AccountArrays(sig, data),
                                             ByName(data, "data")[1].array, o), data, o)

\* A slip: an unnamed account is left out.
instruction_signature_to_short_schema(sig) ==
    ParamFields(sig) \o [i \in DOMAIN SelectSeq(sig.accounts, LAMBDA n : n # <<>>) |->
        NullableField(SelectSeq(sig.accounts, LAMBDA n : n # <<>>)[i], Type("binary"))]

instruction_signature_to_arrow_schema(sig) ==
    ParamFields(sig)
        \o [i \in DOMAIN sig.accounts |-> NullableField(sig.accounts[i], Type("binary"))]

DecodeInstructions ==
    /\ job.call = "instructions" /\ result.state = "none"
    /\ result' = decode_instructions_batch(job.sig, job.data, opts)
    /\ UNCHANGED <<job, opts>>

DecodeLogs ==
    /\ job.call = "logs" /\ result.state = "none"
    /\ result' = decode_logs_batch(job.sig, job.data, opts)
    /\ UNCHANGED <<job, opts>>

Done == result.state # "none" /\ UNCHANGED vars

Init ==
    /\ \E i \in DOMAIN Jobs : job = Jobs[i]
    /\ opts \in [allow : BOOLEAN, filter : BOOLEAN, hstack : BOOLEAN]
    /\ job.call = "logs" => ~opts.filter
    /\ result = [state |-> "none", batch |-> <<>>]

Next == DecodeInstructions \/ DecodeLogs \/ Done

Spec == Init /\ [][Next]_vars

-----------------------------------------------------------------------------
\* The properties.  First, what the grammar says of a row, without the arrays.

Ok == result.state = "ok"
Instructions == job.call = "instructions"

\* What a reader finds where a value is missing: structs have no nulls of their own.
RECURSIVE Missing(_)
Missing(t) ==
    CASE t.k = "option" -> Missing(Of(t))
      [] t.k = "struct" -> [i \in DOMAIN t.inner |-> Missing(t.inner[i].type)]
      [] t.k = "enum" ->
            <<Null, [i \in DOMAIN t.inner |-> IF t.inner[i].unit THEN Null ELSE Missing(t.inner[i].type)]>>
      [] OTHER -> Null

RECURSIVE Shows(_, _)
Shows(t, v) ==
    CASE t.k = "option" -> IF v = <<>> THEN Missing(Of(t)) ELSE Shows(Of(t), v[1])
      [] t.k = "array" -> [i \in DOMAIN v |-> Shows(Of(t), v[i])]
      [] t.k = "struct" -> [i \in DOMAIN v |-> Shows(t.inner[i].type, v[i])]
      [] t.k = "enum" ->
            <<(CHOOSE i \in DOMAIN t.inner : t.inner[i].name = v.name) - 1,
              [i \in DOMAIN t.inner |->
                  IF t.inner[i].unit THEN Null
                  ELSE IF t.inner[i].name = v.name THEN Shows(t.inner[i].type, v.val[1])
                  ELSE Missing(t.inner[i].type)]>>
      [] OTHER -> v

\* A u128 that a Decimal128 cannot hold.
RECURSIVE Oversized(_, _)
Oversized(t, v) ==
    CASE IsInt(t) -> t.k = "u" /\ t.size = Half /\ 2 * v >= Base ^ Half
      [] t.k = "option" -> v # <<>> /\ Oversized(Of(t), v[1])
      [] t.k = "array" -> \E i \in DOMAIN v : Oversized(Of(t), v[i])
      [] t.k = "struct" -> \E i \in DOMAIN v : Oversized(t.inner[i].type, v[i])
      [] t.k = "enum" ->
            \E i \in DOMAIN t.inner :
                t.inner[i].name = v.name /\ v.val # <<>> /\ Oversized(t.inner[i].type, v.val[1])
      [] OTHER -> FALSE

Source == ByName(job.data, IF Instructions THEN "data" ELSE "message")
Matches(r) == LET d == Row(Source[1].array, r) IN d # Null /\ StartsWith(d, job.sig.disc)
Selected ==
    SelectSeq([r \in 1..Source[1].array.len |-> r],
              LAMBDA r : Instructions /\ opts.filter => Matches(r))

\* The values that row r encodes: one, or none.
RowValues(r) ==
    LET d == Row(Source[1].array, r)
    IN  IF Instructions
        THEN IF Matches(r) THEN Values(job.sig.params, Rest(d, Len(job.sig.disc))) ELSE {}
        ELSE IF d # Null /\ d.b64 THEN Values(job.sig.params, d.body) ELSE {}

Param(r, k) ==
    LET t == job.sig.params[k].type
    IN  IF RowValues(r) = {} THEN Missing(t) ELSE Shows(t, (CHOOSE v \in RowValues(r) : TRUE)[k])

Account(r, i) ==
    LET rest == Row(ByName(job.data, "rest_of_accounts")[1].array, r)
    IN  IF i <= Direct THEN Row(ByName(job.data, AccountName(i))[1].array, r)
        ELSE IF rest = Null THEN Null ELSE rest[i - Direct]

\* Every cell shows what the grammar reads in the bytes of its row, at any depth of
\* structs, enums, options and arrays; a row that does not decode shows nothing and
\* shifts no other row; and with filter_by_discriminator and hstack the accounts and
\* the input columns of a row stay beside its values.
RowsFaithful ==
    Ok =>
        LET params == [k \in DOMAIN job.sig.params |->
                          [s \in DOMAIN Selected |-> Param(Selected[s], k)]]
            accounts == IF ~Instructions THEN <<>>
                        ELSE [i \in DOMAIN job.sig.accounts |->
                                 [s \in DOMAIN Selected |-> Account(Selected[s], i)]]
            inputs == IF ~opts.hstack THEN <<>>
                      ELSE [i \in DOMAIN job.data |->
                               [s \in DOMAIN Selected |-> Row(job.data[i].array, Selected[s])]]
        IN  [j \in DOMAIN result.batch |->
                [r \in 1..result.batch[j].array.len |-> Row(result.batch[j].array, r)]]
            = params \o accounts \o inputs

\* The batch has the columns that instruction_signature_to_arrow_schema announces,
\* except for the names of the accounts that the signature does not name.
SchemaPredicted ==
    Ok /\ Instructions /\ ~opts.hstack =>
        LET announced == instruction_signature_to_arrow_schema(job.sig)
            found == Schema(result.batch)
        IN  /\ Len(found) = Len(announced)
            /\ \A i \in DOMAIN found :
                  /\ found[i].type = announced[i].type
                  /\ announced[i].name # <<>> => found[i].name = announced[i].name

\* A column that the call needs is not there, or not of a type it reads.
Columnless ==
    LET unlike(name, P(_)) == ByName(job.data, name) = <<>> \/ ~P(ByName(job.data, name)[1].array.type)
        binaries(t) == t \in AccountLists
    IN  IF Instructions
        THEN \/ unlike("data", IsBinary)
             \/ \E i \in DOMAIN job.sig.accounts :
                    IF i <= Direct THEN unlike(AccountName(i), IsBinary)
                    ELSE unlike("rest_of_accounts", binaries)
        ELSE unlike("message", IsText)

Unreadable ==
    \/ \E k \in DOMAIN job.sig.params : Inconvertible(job.sig.params[k].type)
    \/ job.sig.params = <<>> /\ (Instructions => job.sig.accounts = <<>>)

FailsRow == \E r \in Range(Selected) : RowValues(r) = {}

\* Two exceptions: what a row may hold that fails the batch although the row can be
\* read, with allow_decode_fail as without.
TooFewAccounts(r) ==
    /\ Instructions /\ Len(job.sig.accounts) > Direct
    /\ LET rest == Row(ByName(job.data, "rest_of_accounts")[1].array, r)
       IN  rest # Null /\ Len(rest) < Len(job.sig.accounts) - Direct

WideInteger(r) ==
    \E v \in RowValues(r), k \in DOMAIN job.sig.params : Oversized(job.sig.params[k].type, v[k])

\* A call fails by its columns or its signature, or, without allow_decode_fail, by a
\* row that the grammar does not read.  With allow_decode_fail no row fails it, save
\* one of too few accounts or with a u128 above i128::MAX.
FailsByRowOrShape ==
    result.state # "none" =>
        LET shape == Columnless \/ Unreadable
            row == ~opts.allow /\ FailsRow
        IN  /\ shape \/ row => result.state = "error"
            /\ result.state = "error" =>
                  shape \/ row \/ \E r \in Range(Selected) : TooFewAccounts(r) \/ WideInteger(r)
=============================================================================
