------------------------- MODULE ResponseStreamProofs -------------------------
(***************************************************************************)
(* The caller's end of a stream, for every set of rows and kept rows,      *)
(* every cut into chunks and every interleaving of cancelled and repeated  *)
(* calls of next() with the pool: no chunk disappears, and last_block is   *)
(* an exact place to resume from.                                          *)
(***************************************************************************)
EXTENDS ResponseStream, NaturalProofs

-----------------------------------------------------------------------------
\* The inductive invariant.

\* The first block that has not been handed to the caller, in rows or in an
\* error: the start of the chunk in the adapter, if there is one.
Held == IF work = None THEN position ELSE work.from

\* The chunk in the adapter is the last one the provider delivered.
WorkInv ==
    /\ From <= Held
    /\ work # None => work.from <= work.next /\ work.next = position

\* A stream that was ended or closed is forgotten, and holds no chunk.
OverInv ==
    /\ ~inner => ~calling /\ work = None
    /\ status = "dropped" => ~inner

\* Everything below Held was handed over, as rows or as an error.
HandedInv ==
    /\ status # "dropped" => returned \cup lost = Kept \cap Span(From, Held)
    /\ ~raised => lost = {}

\* last_block is a block of the chunks handed over and, as long as none of them
\* was an error, no row handed over is above it.
LastBlockInv ==
    /\ last_block # None => From <= last_block
    /\ status # "dropped" =>
          /\ last_block # None => last_block < Held
          /\ ~raised => \A b \in Rows \cap Span(From, Held) :
                            last_block # None /\ b <= last_block

Inv == TypeOK /\ WorkInv /\ OverInv /\ HandedInv /\ LastBlockInv /\ ExactResume

-----------------------------------------------------------------------------
\* Facts about the operators.

\* extract_last_block yields the highest block of the chunk that has a row.
LEMMA ExtractFacts ==
    ASSUME NEW w \in Work
    PROVE  LET e == extract_last_block(w)
               S == Rows \cap Span(w.from, w.next)
           IN  \/ e = None /\ S = {}
               \/ e # None /\ e \in S /\ \A b \in S : b <= e
<1> DEFINE S == Rows \cap Span(w.from, w.next)
<1>1. w.from \in Nat /\ w.next \in Nat
  BY DEF Work
<1>2. S \in SUBSET Nat /\ IsFiniteSet(S)
  <2>1. S \in SUBSET Nat /\ S \in SUBSET (w.from .. w.next - 1)
    BY RowsAssumption DEF Span
  <2>2. IsFiniteSet(w.from .. w.next - 1)
    BY <1>1, FS_Interval
  <2> QED
    BY <2>1, <2>2, FS_Subset
<1>3. CASE S = {}
  BY <1>3 DEF extract_last_block, MaxOrNone
<1>4. CASE S # {}
  <2>1. Max(S) \in S /\ \A s \in S : s <= Max(S)
    BY <1>2, <1>4, MaxFacts
  <2>2. extract_last_block(w) = Max(S)
    BY <1>4 DEF extract_last_block, MaxOrNone
  <2> QED
    BY <1>2, <2>1, <2>2, NoneAssumption
<1> QED
  BY <1>3, <1>4

\* The higher of two optional blocks.
LEMMA HigherFacts ==
    ASSUME NEW a \in Rows \cup {None}, NEW b \in Rows \cup {None}
    PROVE  LET m == MaxOrNone({a, b} \ {None})
           IN  /\ m \in Rows \cup {None}
               /\ m = a \/ m = b
               /\ a # None => m # None /\ a <= m
               /\ b # None => m # None /\ b <= m
<1> DEFINE S == {a, b} \ {None}
<1>1. S \in SUBSET Nat
  BY RowsAssumption
<1>2. CASE S = {}
  BY <1>2 DEF MaxOrNone
<1>3. CASE S # {}
  <2>1. IsFiniteSet(S)
    <3>1. IsFiniteSet({a} \cup {b})
      BY FS_Singleton, FS_AddElement
    <3>2. S \subseteq {a} \cup {b}
      OBVIOUS
    <3> QED
      BY <3>1, <3>2, FS_Subset
  <2>2. Max(S) \in S /\ \A s \in S : s <= Max(S)
    BY <1>1, <1>3, <2>1, MaxFacts
  <2>3. MaxOrNone(S) = Max(S)
    BY <1>3 DEF MaxOrNone
  <2> QED
    BY <2>2, <2>3
<1> QED
  BY <1>2, <1>3

-----------------------------------------------------------------------------
\* What the state says in numbers.
LEMMA StateFacts ==
    ASSUME TypeOK
    PROVE  /\ position \in Nat /\ From \in Nat /\ Held \in Nat
           /\ work # None => work \in Work /\ work.from \in Nat /\ work.next \in Nat
           /\ Kept \subseteq Rows /\ Rows \subseteq Nat
           /\ last_block # None => last_block \in Nat
BY PositionsAssumption, RowsAssumption DEF TypeOK, Held, Work

\* A chunk that is handed over moves the frontier across its span.
LEMMA SpanFacts ==
    ASSUME NEW a \in Nat, NEW b \in Nat, NEW c \in Nat, a <= b, b <= c
    PROVE  Span(a, c) = Span(a, b) \cup Span(b, c)
BY DEF Span

\* The initial state, before anything is delivered.
LEMMA InitInv == Init => Inv
<1> SUFFICES ASSUME Init
             PROVE  Inv
  OBVIOUS
<1> USE DEF Init, P!Init
<1>1. TypeOK
  BY PositionsAssumption DEF TypeOK
<1>2. From \in Nat /\ Span(From, From) = {}
  BY PositionsAssumption DEF Span
<1> QED
  BY <1>1, <1>2
  DEF Inv, WorkInv, OverInv, HandedInv, LastBlockInv, ExactResume, Held

\* A step that hands nothing over and keeps the frontier.
LEMMA IdleStep ==
    ASSUME Inv, TypeOK', WorkInv', OverInv', Held' = Held \/ status' = "dropped",
           status = "dropped" => status' = "dropped",
           UNCHANGED <<last_block, returned, lost, raised>>
    PROVE  Inv'
BY DEF Inv, HandedInv, LastBlockInv, ExactResume

\* A step that turns the chunk in the adapter into an error for the caller.
LEMMA RaiseStep ==
    ASSUME Inv, TypeOK', calling, work # None, Raise(work), work' = None,
           UNCHANGED <<position, status, inner>>, calling' = FALSE,
           last_block' = last_block \/ Advance(work)
    PROVE  Inv'
<1>1. /\ TypeOK /\ WorkInv /\ OverInv /\ HandedInv /\ LastBlockInv
  BY DEF Inv
<1>2. /\ Held = work.from /\ Held' = work.next
      /\ From <= work.from /\ work.from <= work.next
  BY <1>1 DEF Held, WorkInv
<1>3. /\ work \in Work /\ work.from \in Nat /\ work.next \in Nat /\ From \in Nat
      /\ position \in Nat
  BY <1>1, StateFacts
<1>4. status # "dropped"
  BY <1>1 DEF OverInv
<1>5. WorkInv'
  BY <1>2, <1>3 DEF WorkInv
<1>6. OverInv'
  BY <1>1 DEF OverInv
<1>7. raised' /\ returned' \cup lost' = Kept \cap Span(From, Held')
  <2>1. Span(From, Held') = Span(From, Held) \cup Span(work.from, work.next)
    BY <1>2, <1>3, SpanFacts
  <2> QED
    BY <1>1, <1>4, <2>1 DEF HandedInv, Raise
<1>8. last_block' # None => From <= last_block' /\ last_block' < Held'
  <2>1. last_block # None =>
           last_block \in Nat /\ From <= last_block /\ last_block < Held'
    BY <1>1, <1>2, <1>3, <1>4, StateFacts DEF LastBlockInv
  <2>2. CASE Advance(work)
    <3>1. extract_last_block(work) # None =>
             From <= extract_last_block(work) /\ extract_last_block(work) < Held'
      BY <1>2, <1>3, ExtractFacts, RowsAssumption DEF Span
    <3>2. extract_last_block(work) \in Rows \cup {None}
      BY <1>3, ExtractFacts
    <3>3. last_block \in Rows \cup {None}
      BY <1>1 DEF TypeOK
    <3>4. last_block' = extract_last_block(work) \/ last_block' = last_block
      BY <2>2, <3>2, <3>3, HigherFacts DEF Advance
    <3> QED
      BY <2>1, <3>1, <3>4
  <2> QED
    BY <2>1, <2>2
<1> QED
  BY <1>5, <1>6, <1>7, <1>8 DEF Inv, HandedInv, LastBlockInv, ExactResume

\* A step that hands the rows of the chunk in the adapter to the caller.
LEMMA HandOver ==
    ASSUME Inv, TypeOK', calling, work # None, Advance(work), work' = None,
           returned' = returned \cup (Kept \cap Span(work.from, work.next)),
           UNCHANGED <<position, status, inner, lost, raised>>, calling' = FALSE
    PROVE  Inv'
<1>1. /\ TypeOK /\ WorkInv /\ OverInv /\ HandedInv /\ LastBlockInv
  BY DEF Inv
<1>2. /\ Held = work.from /\ Held' = work.next
      /\ From <= work.from /\ work.from <= work.next
  BY <1>1 DEF Held, WorkInv
<1>3. /\ work \in Work /\ work.from \in Nat /\ work.next \in Nat /\ From \in Nat
      /\ position \in Nat /\ Kept \subseteq Rows /\ Rows \subseteq Nat
  BY <1>1, StateFacts
<1>4. status # "dropped"
  BY <1>1 DEF OverInv
<1>5. WorkInv'
  BY <1>2, <1>3 DEF WorkInv
<1>6. OverInv'
  BY <1>1 DEF OverInv
<1>7. Span(From, Held') = Span(From, Held) \cup Span(work.from, work.next)
  BY <1>2, <1>3, SpanFacts
<1>8. HandedInv'
  BY <1>1, <1>4, <1>7 DEF HandedInv
<1> DEFINE e == extract_last_block(work)
<1>9. \/ e = None /\ Rows \cap Span(work.from, work.next) = {}
      \/ /\ e # None /\ e \in Rows \cap Span(work.from, work.next)
         /\ \A b \in Rows \cap Span(work.from, work.next) : b <= e
  BY <1>3, ExtractFacts
<1>10. e \in Rows \cup {None} /\ last_block \in Rows \cup {None}
  BY <1>1, <1>9 DEF TypeOK
<1>11. /\ last_block' \in Rows \cup {None}
       /\ last_block' = e \/ last_block' = last_block
       /\ e # None => last_block' # None /\ e <= last_block'
       /\ last_block # None => last_block' # None /\ last_block <= last_block'
  BY <1>10, HigherFacts DEF Advance
<1> HIDE DEF e
<1>12. last_block' # None => From <= last_block' /\ last_block' < Held'
  <2>1. last_block # None =>
           last_block \in Nat /\ From <= last_block /\ last_block < Held'
    BY <1>1, <1>2, <1>3, <1>4, StateFacts DEF LastBlockInv
  <2>2. e # None => From <= e /\ e < Held'
    BY <1>2, <1>3, <1>9 DEF Span
  <2> QED
    BY <1>11, <2>1, <2>2
<1>13. ~raised => \A b \in Rows \cap Span(From, Held') :
                      last_block' # None /\ b <= last_block'
  <2>1. SUFFICES ASSUME ~raised, NEW b \in Rows \cap Span(From, Held')
                 PROVE  last_block' # None /\ b <= last_block'
    OBVIOUS
  <2>2. CASE b \in Span(From, Held)
    <3>1. last_block # None /\ b <= last_block
      BY <1>1, <1>4, <2>1, <2>2 DEF LastBlockInv
    <3> QED
      BY <1>3, <1>10, <1>11, <3>1
  <2>3. CASE b \in Span(work.from, work.next)
    <3>1. e # None /\ b <= e
      BY <1>9, <2>1, <2>3
    <3> QED
      BY <1>3, <1>10, <1>11, <3>1
  <2> QED
    BY <1>7, <2>1, <2>2, <2>3
<1>14. LastBlockInv'
  BY <1>12, <1>13 DEF LastBlockInv
<1>15. ExactResume'
  <2>1. SUFFICES ASSUME ~raised
                 PROVE  returned' = {b \in Kept : last_block' # None
                                        /\ From <= b /\ b <= last_block'}
    BY DEF ExactResume
  <2>2. returned' = Kept \cap Span(From, Held')
    BY <1>4, <1>8, <2>1 DEF HandedInv
  <2>3. ASSUME NEW b \in Kept
        PROVE  b \in Span(From, Held') <=>
                  last_block' # None /\ From <= b /\ b <= last_block'
    BY <1>2, <1>3, <1>11, <1>12, <1>13, <2>1, <2>3 DEF Span
  <2> QED
    BY <2>2, <2>3
<1> QED
  BY <1>5, <1>6, <1>8, <1>14, <1>15 DEF Inv

-----------------------------------------------------------------------------
\* The chunk that Pull puts into the adapter.
LEMMA PullFacts ==
    ASSUME Pull, position \in Nat
    PROVE  /\ position' \in Nat /\ position <= position'
           /\ work' \in Work /\ work'.from = position /\ work'.next = position'
<1>1. CASE P!Deliver /\ work' = [state |-> "running", from |-> position,
                                next |-> position', good |-> TRUE]
  <2>1. position' \in Nat /\ position <= position'
    BY <1>1, PositionsAssumption DEF P!Deliver
  <2>2. [state |-> "running", from |-> position, next |-> position',
         good |-> TRUE] \in Work
    BY <2>1 DEF Work
  <2> QED
    BY <1>1, <2>1, <2>2
<1>2. CASE P!Fail /\ work' = [state |-> "running", from |-> position,
                             next |-> position, good |-> FALSE]
  <2>1. position' = position
    BY <1>2 DEF P!Fail
  <2>2. [state |-> "running", from |-> position, next |-> position,
         good |-> FALSE] \in Work
    BY DEF Work
  <2> QED
    BY <1>2, <2>1, <2>2
<1> QED
  BY <1>1, <1>2 DEF Pull

\* Every step keeps the types.
LEMMA TypeStep == Inv /\ [Next]_vars => TypeOK'
<1> SUFFICES ASSUME Inv, [Next]_vars
             PROVE  TypeOK'
  OBVIOUS
<1>1. TypeOK
  BY DEF Inv
<1> USE <1>1 DEF TypeOK
<1>2. Kept \cap Span(work.from, work.next) \subseteq Kept
  OBVIOUS
<1>3. CASE Pull
  <2>1. position \in Nat /\ position' \in Nat /\ position' \in Positions
    BY <1>3, PositionsAssumption DEF Pull, P!Deliver, P!Fail
  <2>2. status' \in {"open", "failed", "ended", "dropped"}
    BY <1>3 DEF Pull, P!Deliver, P!Fail
  <2>3. work' \in Work
    BY <1>3, <2>1, PullFacts
  <2> QED
    BY <1>3, <2>1, <2>2, <2>3 DEF Pull, history
<1>4. CASE RayonDone
  <2>1. work' \in Work
    BY <1>4 DEF RayonDone, Work
  <2> QED
    BY <1>4, <2>1 DEF RayonDone, provider, history
<1>5. CASE ReturnErr
  BY <1>2, <1>5 DEF ReturnErr, Raise, provider
<1>6. CASE ReturnOk
  <2>1. extract_last_block(work) \in Rows \cup {None}
    BY <1>6, ExtractFacts DEF ReturnOk
  <2>2. /\ last_block' \in Rows \cup {None}
        /\ seen' \in Rows \cup {None}
    BY <1>6, <2>1, HigherFacts DEF ReturnOk, Advance, Raise
  <2> QED
    BY <1>2, <1>6, <2>2 DEF ReturnOk, Raise, provider
<1>7. CASE PullEnd
  BY <1>7 DEF PullEnd, P!End, history
<1>8. CASE Close
  BY <1>8 DEF Close, P!Drop, history
<1>9. CASE CallNext \/ Cancel
  BY <1>9 DEF CallNext, Cancel, provider, history
<1>10. CASE CallOver \/ UNCHANGED vars
  BY <1>10 DEF CallOver, vars
<1> QED
  BY <1>3, <1>4, <1>5, <1>6, <1>7, <1>8, <1>9, <1>10 DEF Next

\* Every step keeps the inductive invariant.
LEMMA StepInv == Inv /\ [Next]_vars => Inv'
<1> SUFFICES ASSUME Inv, [Next]_vars
             PROVE  Inv'
  OBVIOUS
<1>1. TypeOK /\ WorkInv /\ OverInv /\ TypeOK'
  BY TypeStep DEF Inv
<1>2. /\ position \in Nat /\ From \in Nat
      /\ work # None => work \in Work /\ work.from \in Nat /\ work.next \in Nat
  BY <1>1, StateFacts
<1>3. CASE Pull
  <2>1. /\ work = None /\ calling /\ status = "open"
        /\ UNCHANGED <<inner, calling, last_block, returned, lost, raised>>
    BY <1>3 DEF Pull, P!Deliver, P!Fail, history
  <2>2. status' # "dropped"
    BY <1>3 DEF Pull, P!Deliver, P!Fail
  <2>3. /\ position' \in Nat /\ position <= position'
        /\ work' \in Work /\ work'.from = position /\ work'.next = position'
    BY <1>2, <1>3, PullFacts
  <2>4. Held = position /\ Held' = position /\ work' # None
    BY <2>1, <2>3, NoneAssumption DEF Held
  <2>5. WorkInv'
    BY <1>1, <2>2, <2>3, <2>4 DEF WorkInv
  <2>6. OverInv'
    BY <1>1, <2>1, <2>2 DEF OverInv
  <2> QED
    BY <1>1, <2>1, <2>4, <2>5, <2>6, IdleStep
<1>4. CASE RayonDone
  <2>1. /\ work # None
        /\ UNCHANGED <<position, status, inner, calling, last_block, returned,
                       lost, raised>>
    BY <1>4 DEF RayonDone, provider, history
  <2>2. work' \in Work /\ work'.from = work.from /\ work'.next = work.next
    BY <1>2, <1>4, <2>1 DEF RayonDone, Work
  <2>3. Held' = Held /\ work' # None
    BY <2>1, <2>2, NoneAssumption DEF Held
  <2>4. WorkInv' /\ OverInv'
    BY <1>1, <2>1, <2>2, <2>3 DEF WorkInv, OverInv
  <2> QED
    BY <1>1, <2>1, <2>3, <2>4, IdleStep
<1>5. CASE ReturnErr
  BY <1>1, <1>5, RaiseStep DEF ReturnErr, provider
<1>6. CASE ReturnOk
  BY <1>1, <1>6, RaiseStep, HandOver DEF ReturnOk, provider
<1>7. CASE PullEnd
  <2>1. /\ work = None /\ status' = "ended" /\ status # "dropped"
        /\ ~inner' /\ ~calling'
        /\ UNCHANGED <<position, work, last_block, returned, lost, raised>>
    BY <1>7 DEF PullEnd, P!End, history
  <2>2. Held' = Held
    BY <2>1 DEF Held
  <2>3. WorkInv' /\ OverInv'
    BY <1>1, <2>1, <2>2 DEF WorkInv, OverInv
  <2> QED
    BY <1>1, <2>1, <2>2, <2>3, IdleStep
<1>8. CASE Close
  <2>1. /\ status' = "dropped" /\ ~inner' /\ ~calling' /\ work' = None
        /\ UNCHANGED <<position, last_block, returned, lost, raised>>
    BY <1>8 DEF Close, P!Drop, history
  <2>2. From <= position
    BY <1>1, <1>2 DEF WorkInv, Held
  <2>3. WorkInv' /\ OverInv'
    BY <2>1, <2>2 DEF WorkInv, OverInv, Held
  <2> QED
    BY <1>1, <2>1, <2>3, IdleStep
<1>9. CASE CallNext \/ Cancel
  <2>1. /\ UNCHANGED <<position, status, inner, work, last_block, returned,
                       lost, raised>>
        /\ calling' => inner
    BY <1>1, <1>9 DEF CallNext, Cancel, provider, history
  <2>2. Held' = Held
    BY <2>1 DEF Held
  <2>3. WorkInv' /\ OverInv'
    BY <1>1, <2>1, <2>2 DEF WorkInv, OverInv
  <2> QED
    BY <1>1, <2>1, <2>2, <2>3, IdleStep
<1>10. CASE CallOver \/ UNCHANGED vars
  <2>1. UNCHANGED vars
    BY <1>10 DEF CallOver
  <2>2. Held' = Held /\ WorkInv' /\ OverInv'
    BY <1>1, <2>1 DEF vars, Held, WorkInv, OverInv
  <2> QED
    BY <1>1, <2>1, <2>2, IdleStep DEF vars
<1> QED
  BY <1>3, <1>4, <1>5, <1>6, <1>7, <1>8, <1>9, <1>10 DEF Next

-----------------------------------------------------------------------------
\* The invariant behind the guarantees of ResponseStream.next() and close()
\* holds in every state, however calls, cancellations and the pool interleave.
THEOREM Inductive == Spec => []Inv
BY InitInv, StepInv, PTL DEF Spec

\* Every variable keeps its type.
THEOREM TypeCorrect == Spec => []TypeOK
<1>1. Inv => TypeOK
  BY DEF Inv
<1> QED
  BY <1>1, Inductive, PTL

\* Whatever a caller cancels and retries, every row the provider delivered was
\* handed over, waits in the adapter, was lost to an error the caller saw, or
\* went with a close().
THEOREM NoLoss == Spec => []NoSilentLoss
<1>1. ASSUME Inv
      PROVE  NoSilentLoss
  <2>1. TypeOK /\ WorkInv /\ HandedInv
    BY <1>1 DEF Inv
  <2>2. SUFFICES ASSUME status # "dropped"
                 PROVE  Kept \cap Span(From, position) = returned \cup lost \cup InWork
    BY DEF NoSilentLoss
  <2>3. returned \cup lost = Kept \cap Span(From, Held)
    BY <2>1, <2>2 DEF HandedInv
  <2>4. CASE work = None
    BY <2>3, <2>4 DEF Held, InWork
  <2>5. CASE work # None
    <3>1. Span(From, position) = Span(From, work.from) \cup Span(work.from, work.next)
      BY <2>1, <2>5, StateFacts, SpanFacts DEF WorkInv, Held
    <3> QED
      BY <2>3, <2>5, <3>1 DEF Held, InWork
  <2> QED
    BY <2>4, <2>5
<1> QED
  BY <1>1, Inductive, PTL

\* As long as no call raised, a new query from last_block + 1 repeats no row
\* and misses none.
THEOREM Resume == Spec => []ExactResume
<1>1. Inv => ExactResume
  BY DEF Inv
<1> QED
  BY <1>1, Inductive, PTL
=============================================================================
