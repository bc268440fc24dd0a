------------------------------ MODULE NestedArrow ------------------------------
(***************************************************************************)
(* Arrow arrays with children (external: the arrow crate): reading a row,  *)
(* and the kernels that copy or slice an array together with its children. *)
(***************************************************************************)
EXTENDS Arrow

\* What a reader finds in row r: a value, the sequence of the children's, or Null.
RECURSIVE Row(_, _)
Row(a, r) ==
    IF IsNull(a, r) THEN Null
    ELSE CASE a.type.k = "struct" -> [i \in DOMAIN a.kids |-> Row(a.kids[i], r)]
           [] a.type.k = "fixed" -> [i \in 1..a.type.n |-> Row(a.kids[1], (r - 1) * a.type.n + i)]
           [] a.type.k = "list" ->
                 [i \in 1..(a.vals[r][2] - a.vals[r][1]) |-> Row(a.kids[1], a.vals[r][1] + i)]
           [] OTHER -> a.vals[r]

\* compute::take: the rows `rows` of a, in new buffers.
RECURSIVE Take(_, _)
Take(a, rows) ==
    [type |-> a.type, len |-> Len(rows),
     nulls |-> Validity([r \in DOMAIN rows |-> ~IsNull(a, rows[r])]),
     vals |-> IF a.vals = <<>> THEN <<>> ELSE [r \in DOMAIN rows |-> a.vals[rows[r]]],
     kids |-> CASE a.type.k = "struct" -> [i \in DOMAIN a.kids |-> Take(a.kids[i], rows)]
                [] a.type.k = "fixed" ->
                      <<Take(a.kids[1],
                             [j \in 1..(Len(rows) * a.type.n) |->
                                 (rows[((j - 1) \div a.type.n) + 1] - 1) * a.type.n
                                     + ((j - 1) % a.type.n) + 1])>>
                [] OTHER -> a.kids]

\* Array::slice: the rows after the first k, in the buffers of a.
RECURSIVE Slice(_, _)
Slice(a, k) ==
    [a EXCEPT !.len = @ - k,
              !.nulls = IF @ = NoNulls THEN @ ELSE [@ EXCEPT !.off = @ + k],
              !.vals = IF @ = <<>> THEN @ ELSE SubSeq(@, k + 1, Len(@)),
              !.kids = CASE a.type.k = "struct" -> [i \in DOMAIN @ |-> Slice(@[i], k)]
                         [] a.type.k = "fixed" -> <<Slice(@[1], k * a.type.n)>>
                         [] OTHER -> @]

\* A value somewhere in the array, or below it, could not be converted.
RECURSIVE AnyFailed(_)
AnyFailed(a) == Failed(a) \/ \E i \in DOMAIN a.kids : AnyFailed(a.kids[i])
=============================================================================
