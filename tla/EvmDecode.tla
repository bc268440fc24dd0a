------------------------------- MODULE EvmDecode -------------------------------
(***************************************************************************)
(* The crate tiders-evm-decode (src/evm-decode/src): event logs and call   *)
(* data, decoded by a signature into Arrow columns.                        *)
(*                                                                         *)
(* A Solidity type is [k, bits, n, inner].  A parameter is [name, type,    *)
(* indexed, comps]; comps are the parameters of a tuple that a JSON ABI    *)
(* names, empty otherwise.  A blob is what the ABI decoder (external) gets *)
(* out of it: Bad, or a value: an integer, a tuple or an array as the      *)
(* sequence of its parts, anything else itself.                            *)
(***************************************************************************)
EXTENDS Columns, Flatten

CONSTANTS
    Bad,
    Natives,        \* widths of Arrow's integers, in bits (8, 16, 32, 64)
    HalfBits,       \* bits of a 128-bit integer, scaled like Half
    MaxTopics,      \* of the columns topic1, topic2, topic3
    Jobs            \* what callers ask for: [call, sig, data], by some index

ASSUME WidthsAssumption == 2 ^ HalfBits = Base ^ Half

VARIABLES
    job,
    opts,           \* allow_decode_fail, filter_by_topic0, hstack, large_int_as_binary
    result          \* [state, batch]

vars == <<job, opts, result>>

-----------------------------------------------------------------------------
\* Types.

NameOr(name, i) == IF name = <<>> THEN <<"param" \o ToString(i - 1)>> ELSE name

LargeInt(bits) == \A w \in Natives : bits > w

\* num_bits_to_int_type, num_bits_to_uint_type: the smallest type that fits.
IntType(t) ==
    IF LargeInt(t.bits) THEN (IF t.bits <= HalfBits THEN Decimal128 ELSE Decimal256)
    ELSE [Type(t.k) EXCEPT !.n = CHOOSE w \in Natives :
             t.bits <= w /\ \A x \in Natives : t.bits <= x => w <= x]

RECURSIVE to_arrow_dtype(_, _)
to_arrow_dtype(t, binary) ==
    CASE t.k \in {"bytes", "address"} -> Type("binary")
      [] t.k = "string" -> Type("utf8")
      [] t.k \in {"int", "uint"} ->
            IF binary /\ LargeInt(t.bits) THEN Type("binary") ELSE IntType(t)
      [] t.k = "array" -> ListType(to_arrow_dtype(t.inner[1], binary))
      [] t.k = "fixed" -> FixedType(to_arrow_dtype(t.inner[1], binary), t.n)
      [] t.k = "tuple" ->
            StructType([i \in DOMAIN t.inner |->
                [name |-> NameOr(<<>>, i), type |-> to_arrow_dtype(t.inner[i], binary)]])
      [] OTHER -> Type(t.k)

\* The names of a tuple are known; those of the tuples in an array are dropped.
RECURSIVE param_to_arrow_dtype(_, _)
param_to_arrow_dtype(p, binary) ==
    IF p.type.k = "tuple" /\ p.comps # <<>>
    THEN StructType([i \in DOMAIN p.comps |->
            [name |-> NameOr(p.comps[i].name, i),
             type |-> param_to_arrow_dtype(p.comps[i], binary)]])
    ELSE to_arrow_dtype(p.type, binary)

\* No Arrow type for a Solidity function.
RECURSIVE Unsupported(_)
Unsupported(t) == t.k = "function" \/ \E i \in DOMAIN t.inner : Unsupported(t.inner[i])

Field(p, i, binary) == NullableField(NameOr(p.name, i), param_to_arrow_dtype(p, binary))

Indexed(sig) == SelectSeq(sig, LAMBDA p : p.indexed)
Body(sig) == SelectSeq(sig, LAMBDA p : ~p.indexed)

\* Indexed parameters first, each under its number in the signature.
event_signature_to_arrow_schema_impl(sig, binary) ==
    LET fields(flag) ==
            LET named == [i \in DOMAIN sig |-> [flag |-> sig[i].indexed,
                                                field |-> Field(sig[i], i, binary)]]
                some == SelectSeq(named, LAMBDA e : e.flag = flag)
            IN  [i \in DOMAIN some |-> some[i].field]
    IN  fields(TRUE) \o fields(FALSE)

\* A slip: the schema keeps the tuples.
event_signature_to_nested_schema(sig, binary) == event_signature_to_arrow_schema_impl(sig, binary)

event_signature_to_arrow_schema(sig, binary) ==
    flatten_schema(event_signature_to_arrow_schema_impl(sig, binary))

\* One half of function_signature_to_arrow_schemas: the inputs or the outputs.
function_signature_to_arrow_schemas_impl(params, binary) ==
    [i \in DOMAIN params |-> Field(params[i], i, binary)]

function_signature_to_arrow_schemas(params, binary) ==
    flatten_schema(function_signature_to_arrow_schemas_impl(params, binary))

-----------------------------------------------------------------------------
\* Values: Null for a row without one.

InNative(v, t) ==
    LET w == IntType(t).n
    IN  IF t.k = "uint" THEN v < 2 ^ w ELSE -(2 ^ (w - 1)) <= v /\ v < 2 ^ (w - 1)

\* A slip: the words of signed integers are taken for unsigned ones.
IntCellUnsigned(t, v, allow, binary) ==
    IF LargeInt(t.bits)
    THEN IF binary THEN BeBytes(v, Word)
         ELSE Unsigned(BeBytes(v, IF t.bits <= HalfBits THEN Half ELSE Word))
    ELSE IF InNative(v, t) THEN v ELSE IF allow THEN Null ELSE Fail

\* to_int, to_uint, to_decimal128, to_decimal256 and to_binary_from_int_word.
IntCell(t, v, allow, binary) ==
    IF LargeInt(t.bits)
    THEN IF binary THEN BeBytes(v, Word)
         ELSE Signed(BeBytes(v, IF t.bits <= HalfBits THEN Half ELSE Word))
    ELSE IF InNative(v, t) THEN v ELSE IF allow THEN Null ELSE Fail

\* The values of part i of each row.
Part(vals, i) == [r \in DOMAIN vals |-> IF vals[r] = Null THEN Null ELSE vals[r][i]]
Present(vals) == [r \in DOMAIN vals |-> vals[r] # Null]

\* to_fixed_list: a missing array still takes n places.
FixedParts(vals, n) ==
    FlattenSeq([r \in DOMAIN vals |-> IF vals[r] = Null THEN [i \in 1..n |-> Null] ELSE vals[r]])

\* to_list: a missing array takes none.
ListParts(vals) == [r \in DOMAIN vals |-> IF vals[r] = Null THEN <<>> ELSE vals[r]]
ListRanges(vals) ==
    LET parts == ListParts(vals)
        before(r) == Len(FlattenSeq(SubSeq(parts, 1, r)))
    IN  [r \in DOMAIN vals |-> <<before(r - 1), before(r)>>]

RECURSIVE to_arrow(_, _, _, _)
to_arrow(t, vals, allow, binary) ==
    CASE t.k \in {"int", "uint"} ->
            Leaf(to_arrow_dtype(t, binary),
                 [r \in DOMAIN vals |-> IF vals[r] = Null THEN Null
                                        ELSE IntCell(t, vals[r], allow, binary)])
      [] t.k = "array" ->
            List(to_arrow_dtype(t.inner[1], binary), ListRanges(vals),
                 to_arrow(t.inner[1], FlattenSeq(ListParts(vals)), allow, binary), Present(vals))
      [] t.k = "fixed" ->
            Fixed(to_arrow_dtype(t.inner[1], binary), t.n,
                  to_arrow(t.inner[1], FixedParts(vals, t.n), allow, binary), Present(vals))
      [] t.k = "tuple" ->
            Struct([i \in DOMAIN t.inner |-> NameOr(<<>>, i)],
                   [i \in DOMAIN t.inner |-> to_arrow(t.inner[i], Part(vals, i), allow, binary)],
                   Len(vals))
      [] OTHER -> Leaf(to_arrow_dtype(t, binary), vals)

RECURSIVE to_struct_named(_, _, _, _)
to_struct_named(params, vals, allow, binary) ==
    Struct([i \in DOMAIN params |-> NameOr(params[i].name, i)],
           [i \in DOMAIN params |->
                IF params[i].type.k = "tuple" /\ params[i].comps # <<>>
                THEN to_struct_named(params[i].comps, Part(vals, i), allow, binary)
                ELSE to_arrow(params[i].type, Part(vals, i), allow, binary)],
           Len(vals))

\* A slip: a row without a blob counts as one that does not decode.
DecodedNoNulls(a, allow) ==
    [r \in 1..a.len |->
        LET blob == Row(a, r)
        IN  IF blob \notin {Bad, Null} THEN blob ELSE IF allow THEN Null ELSE Fail]

\* A blob that does not decode is null, or stops the call.
Decoded(a, allow) ==
    [r \in 1..a.len |->
        LET blob == Row(a, r)
        IN  IF blob # Bad THEN blob ELSE IF allow THEN Null ELSE Fail]

Stops(vals) == \E r \in DOMAIN vals : vals[r] = Fail

-----------------------------------------------------------------------------
\* The calls.

ByName(batch, name) == SelectSeq(batch, LAMBDA c : c.name = <<name>>)
IsBinary(t) == t.k \in {"binary", "large_binary"}

Error == [state |-> "error", batch |-> <<>>]

Finish(schema, arrays) ==
    IF (\E i \in DOMAIN arrays : AnyFailed(arrays[i])) \/ ~TryNew(schema, arrays) THEN Error
    ELSE [state |-> "ok", batch |-> flatten_record_batch(Batch(schema, arrays))]

TopicName(i) == "topic" \o ToString(i)

\* A slip: a row without a topic0 passes.
filter_by_topic0_lenient(batch) ==
    LET topic0 == ByName(batch, "topic0")
        rows == SelectSeq([r \in 1..batch[1].array.len |-> r],
                          LAMBDA r : Row(topic0[1].array, r) \in {"selector", Null})
    IN  IF topic0 = <<>> THEN batch
        ELSE [i \in DOMAIN batch |-> [batch[i] EXCEPT !.array = Take(@, rows)]]

\* The rows with the event's selector in topic0; all of them without that column.
filter_by_topic0_impl(batch) ==
    LET topic0 == ByName(batch, "topic0")
        rows == SelectSeq([r \in 1..batch[1].array.len |-> r],
                          LAMBDA r : Row(topic0[1].array, r) = "selector")
    IN  IF topic0 = <<>> THEN batch
        ELSE [i \in DOMAIN batch |-> [batch[i] EXCEPT !.array = Take(@, rows)]]

decode_events(sig, batch, o) ==
    LET data == IF o.filter THEN filter_by_topic0_impl(batch) ELSE batch
        topics == SubSeq(Indexed(sig), 1, IF Len(Indexed(sig)) < MaxTopics THEN Len(Indexed(sig)) ELSE MaxTopics)
        topic(i) == ByName(data, TopicName(i))
        body == ByName(data, "data")
        decode_topic(i) == to_arrow(topics[i].type, Decoded(topic(i)[1].array, o.allow), o.allow, o.binary)
        read == SelectSeq([i \in DOMAIN topics |-> i], LAMBDA i : IsBinary(topic(i)[1].array.type))
        decode_body_named ==
            IF IsBinary(body[1].array.type)
            THEN to_struct_named(Body(sig), Decoded(body[1].array, o.allow), o.allow, o.binary).kids
            ELSE <<>>
        stacked == IF o.hstack THEN data ELSE <<>>
    IN  IF \/ o.filter /\ ByName(batch, "topic0") # <<>>
              /\ ~IsBinary(ByName(batch, "topic0")[1].array.type)
           \/ \E i \in DOMAIN sig : Unsupported(sig[i].type)
           \/ \E i \in DOMAIN topics : topic(i) = <<>>
           \/ body = <<>>
           \/ \E i \in Range(read) : Stops(Decoded(topic(i)[1].array, o.allow))
           \/ IsBinary(body[1].array.type) /\ Stops(Decoded(body[1].array, o.allow))
        THEN Error
        ELSE Finish(event_signature_to_arrow_schema_impl(sig, o.binary) \o Schema(stacked),
                    [i \in DOMAIN read |-> decode_topic(read[i])]
                        \o decode_body_named \o [i \in DOMAIN stacked |-> stacked[i].array])

\* The inputs or the outputs of a call.
decode_call_impl(params, a, o) ==
    IF (\E i \in DOMAIN params : Unsupported(params[i].type)) \/ Stops(Decoded(a, o.allow))
    THEN Error
    ELSE Finish(function_signature_to_arrow_schemas_impl(params, o.binary),
                to_struct_named(params, Decoded(a, o.allow), o.allow, o.binary).kids)

DecodeEvents ==
    /\ job.call = "events" /\ result.state = "none"
    /\ result' = decode_events(job.sig, job.data, opts)
    /\ UNCHANGED <<job, opts>>

DecodeCall ==
    /\ job.call = "call" /\ result.state = "none"
    /\ result' = decode_call_impl(job.sig, job.data[1].array, opts)
    /\ UNCHANGED <<job, opts>>

Done == result.state # "none" /\ UNCHANGED vars

Init ==
    /\ \E i \in DOMAIN Jobs : job = Jobs[i]
    /\ opts \in [allow : BOOLEAN, filter : BOOLEAN, hstack : BOOLEAN, binary : BOOLEAN]
    /\ result = [state |-> "none", batch |-> <<>>]

Next == DecodeEvents \/ DecodeCall \/ Done

Spec == Init /\ [][Next]_vars

-----------------------------------------------------------------------------
\* The properties.  First, what a signature and a row say, without the arrays.

Ok == result.state = "ok"

\* An integer as a column shows it.  Decimals are signed: the upper half of the
\* unsigned integers of their width appears negative, as to_decimal128 says.
IntShown(t, v, binary) ==
    LET m == IF t.bits <= HalfBits THEN Base ^ Half ELSE Base ^ Word
    IN  IF LargeInt(t.bits)
        THEN IF binary THEN BeBytes(v, Word) ELSE IF 2 * v < m THEN v ELSE v - m
        ELSE IF InNative(v, t) THEN v ELSE Null

\* An exception: a word that holds more than the 128 bits its type has.  The ABI
\* decoder lets it pass, and to_decimal128 keeps the low half of it.
RECURSIVE Truncated(_, _)
Truncated(t, v) ==
    CASE t.k \in {"int", "uint"} ->
            /\ LargeInt(t.bits) /\ t.bits <= HalfBits
            /\ IF t.k = "uint" THEN v >= Base ^ Half
               ELSE 2 * v >= Base ^ Half \/ 2 * v < -(Base ^ Half)
      [] t.k = "tuple" -> \E i \in DOMAIN v : Truncated(t.inner[i], v[i])
      [] t.k \in {"array", "fixed"} -> \E i \in DOMAIN v : Truncated(t.inner[1], v[i])
      [] OTHER -> FALSE

RECURSIVE ValueShown(_, _, _)
ValueShown(t, v, binary) ==
    CASE t.k \in {"int", "uint"} -> IntShown(t, v, binary)
      [] t.k = "tuple" -> [i \in DOMAIN v |-> ValueShown(t.inner[i], v[i], binary)]
      [] t.k \in {"array", "fixed"} -> [i \in DOMAIN v |-> ValueShown(t.inner[1], v[i], binary)]
      [] OTHER -> v

RECURSIVE Fitting(_, _)
Fitting(t, v) ==
    CASE t.k \in {"int", "uint"} -> LargeInt(t.bits) \/ InNative(v, t)
      [] t.k = "tuple" -> \A i \in DOMAIN v : Fitting(t.inner[i], v[i])
      [] t.k \in {"array", "fixed"} -> \A i \in DOMAIN v : Fitting(t.inner[1], v[i])
      [] OTHER -> TRUE

Rows == [r \in 1..job.data[1].array.len |-> r]
Selected ==
    IF job.call = "events" /\ opts.filter /\ ByName(job.data, "topic0") # <<>>
    THEN SelectSeq(Rows, LAMBDA r : Row(ByName(job.data, "topic0")[1].array, r) = "selector")
    ELSE Rows

Params == IF job.call = "call" THEN job.sig ELSE Indexed(job.sig) \o Body(job.sig)
Topics == IF job.call = "call" THEN 0 ELSE Len(Indexed(job.sig))

\* The column of parameter k, and the blob in row r of it.
Home(k) ==
    IF job.call = "call" THEN <<job.data[1]>>
    ELSE ByName(job.data, IF k <= Topics THEN TopicName(k) ELSE "data")
Blob(k, r) == Row(Home(k)[1].array, r)
ValueOf(k, r) ==
    LET blob == Blob(k, r)
    IN  IF blob \in {Null, Bad} THEN Null ELSE IF k <= Topics THEN blob ELSE blob[k - Topics]

Narrowed(k, r) ==
    /\ k # 0 /\ ~opts.binary
    /\ ValueOf(k, r) # Null /\ Truncated(Params[k].type, ValueOf(k, r))

\* Every cell shows what its row says: rows that did not decode are null and shift
\* no other row, at any depth of tuples and arrays, and with filter_by_topic0 and
\* hstack a decoded row stays beside the input row it comes from.  Left open is only
\* what a row shows of a parameter of which to_decimal128 drops a half.
RowsFaithful ==
    Ok =>
        LET shown(k, r) ==
                IF ValueOf(k, r) = Null THEN Null
                ELSE ValueShown(Params[k].type, ValueOf(k, r), opts.binary)
            columns(k) ==
                LET places == Places(param_to_arrow_dtype(Params[k], opts.binary))
                IN  [j \in DOMAIN places |->
                        [of |-> k,
                         rows |-> [s \in DOMAIN Selected |->
                            Shown(places[j].type, At(shown(k, Selected[s]), places[j].at))]]]
            stacked == IF job.call = "events" /\ opts.hstack THEN job.data ELSE <<>>
            wanted == FlattenSeq([k \in DOMAIN Params |-> columns(k)])
                      \o [i \in DOMAIN stacked |->
                            [of |-> 0,
                             rows |-> [s \in DOMAIN Selected |-> Row(stacked[i].array, Selected[s])]]]
        IN  /\ Len(result.batch) = Len(wanted)
            /\ \A j \in DOMAIN wanted :
                  /\ result.batch[j].array.len = Len(Selected)
                  /\ \A s \in DOMAIN Selected :
                        \/ Narrowed(wanted[j].of, Selected[s])
                        \/ Row(result.batch[j].array, s) = wanted[j].rows[s]

\* The batch has the schema that event_signature_to_arrow_schema or
\* function_signature_to_arrow_schemas announces for the signature.
SchemaPredicted ==
    Ok /\ ~(job.call = "events" /\ opts.hstack) =>
        Schema(result.batch) =
            IF job.call = "events" THEN event_signature_to_arrow_schema(job.sig, opts.binary)
            ELSE function_signature_to_arrow_schemas(job.sig, opts.binary)

\* An indexed tuple whose components have names: its topic is decoded without them.
IndexedTuple ==
    job.call = "events" /\ \E i \in DOMAIN job.sig :
        job.sig[i].indexed /\ \E j \in DOMAIN job.sig[i].comps :
            job.sig[i].comps[j].name # <<>>

Columnless ==
    \/ \E k \in DOMAIN Params : Home(k) = <<>> \/ ~IsBinary(Home(k)[1].array.type)
    \/ job.call = "events" /\ ByName(job.data, "data") = <<>>
    \/ /\ job.call = "events" /\ opts.filter /\ ByName(job.data, "topic0") # <<>>
       /\ ~IsBinary(ByName(job.data, "topic0")[1].array.type)

\* With allow_decode_fail no row can fail a call; without it a call fails just when
\* a row does not decode, or has an integer that its column cannot hold.  Otherwise
\* it is the signature or a column: one that is missing or not binary, more indexed
\* parameters than topics, an indexed tuple, a function, or nothing to return.
FailsByRowOrShape ==
    result.state # "none" =>
        (result.state = "error" <=>
            \/ Columnless \/ IndexedTuple \/ Topics > MaxTopics
            \/ \E k \in DOMAIN Params : Unsupported(Params[k].type)
            \/ Params = <<>> /\ ~(job.call = "events" /\ opts.hstack)
            \/ ~opts.allow /\ \E r \in Range(Selected) :
                   \/ \E k \in DOMAIN Params : Blob(k, r) = Bad
                   \/ job.call = "call" /\ Blob(1, r) = Bad
                   \/ job.call = "events" /\ IsBinary(ByName(job.data, "data")[1].array.type)
                      /\ Row(ByName(job.data, "data")[1].array, r) = Bad
                   \/ \E k \in DOMAIN Params :
                        ValueOf(k, r) # Null /\ ~Fitting(Params[k].type, ValueOf(k, r)))
=============================================================================
