------------------------ MODULE HypersyncStreamProofs ------------------------
(***************************************************************************)
(* Safety of the HyperSync provider for every query, offset, chain and     *)
(* response size: the blocks the caller receives are contiguous, settled   *)
(* and, when the stream ends without an error, complete.  The provider     *)
(* implements the promise of a ProviderStream; from_block never moves      *)
(* back; and with stop_on_head a stream that ends without an error reached *)
(* the safe height.                                                        *)
(***************************************************************************)
EXTENDS HypersyncStream, SequenceTheorems, TLAPS

-----------------------------------------------------------------------------
\* Arithmetic of the code's helpers.

\* saturating_sub yields a natural number and is monotone in the distance.
LEMMA SaturatingSubFacts ==
    ASSUME NEW a \in Nat, NEW b \in Nat, NEW c \in Nat, c <= b
    PROVE  /\ SaturatingSub(a, b) \in Nat
           /\ SaturatingSub(a, b) <= a
           /\ SaturatingSub(a, b) <= SaturatingSub(a, c)
BY DEF SaturatingSub

\* saturating_sub is monotone in what it subtracts from.
LEMMA SaturatingSubMonotone ==
    ASSUME NEW a \in Nat, NEW b \in Nat, NEW d \in Nat, a <= b
    PROVE  SaturatingSub(a, d) <= SaturatingSub(b, d)
BY DEF SaturatingSub

\* A bound moves up with what bounds it.
LEMMA BoundMoves ==
    ASSUME NEW a \in Nat, NEW b \in Nat, NEW c \in Nat, c <= a + 1, a <= b
    PROVE  c <= b + 1
OBVIOUS

\* make_to_block never asks for a block above the safe height.
LEMMA MakeToBlockFacts ==
    ASSUME NEW h \in Nat
    PROVE  /\ make_to_block(original_to_block, h) \in Nat
           /\ make_to_block(original_to_block, h) <= SaturatingSub(h, Offset) + 1
<1>1. Offset \in Nat
  BY OffsetAssumption
<1>2. SaturatingSub(h, Offset) \in Nat
  BY <1>1 DEF SaturatingSub
<1>3. original_to_block = None \/ original_to_block \in Nat
  BY RangeAssumption DEF original_to_block
<1> QED
  BY <1>2, <1>3 DEF make_to_block, make_rollback_offset, Smaller

\* A response to a request for from .. to - 1 ends at or before `to`, unless it
\* is empty.
LEMMA NextBlocksFacts ==
    ASSUME NEW from \in Nat, NEW to \in Nat, height \in Nat,
           NEW next \in NextBlocks(from, to)
    PROVE  /\ next \in Nat
           /\ from <= next
           /\ next <= to \/ next = from
BY DEF NextBlocks, Smaller

-----------------------------------------------------------------------------
\* Sequences of items.

\* The sequences that carry no item, or one.
LEMMA Singletons ==
    /\ \A a : Chained(<<>>, a) /\ EndOf(<<>>, a) = a
    /\ \A s \in Seq(Item) : Len(s) = 0 <=> s = <<>>
    /\ \A s \in Seq(Item) : Len(s) = 1 => Tail(s) = <<>> /\ Head(s) = s[1]
                                            /\ s # <<>> /\ s[1] \in Item
<1>1. \A a : Chained(<<>>, a) /\ EndOf(<<>>, a) = a
  BY DEF Chained, EndOf
<1>2. \A s \in Seq(Item) : Len(s) = 0 <=> s = <<>>
  OBVIOUS
<1>3. ASSUME NEW s \in Seq(Item), Len(s) = 1
      PROVE  Tail(s) = <<>> /\ Head(s) = s[1] /\ s # <<>> /\ s[1] \in Item
  <2>1. s # <<>> /\ s[1] \in Item /\ Head(s) = s[1]
    BY <1>2, <1>3
  <2>2. Tail(s) \in Seq(Item) /\ Len(Tail(s)) = 0
    BY <1>3, <2>1, HeadTailProperties
  <2> QED
    BY <1>2, <2>1, <2>2
<1> QED
  BY <1>1, <1>2, <1>3

\* Appending the item that follows a chain extends the chain.
LEMMA ChainedAppend ==
    ASSUME NEW s \in Seq(Item), NEW a \in Nat, NEW e \in Item,
           Chained(s, a), e.from = EndOf(s, a), e.from <= e.next
    PROVE  Chained(Append(s, e), a) /\ EndOf(Append(s, e), a) = e.next
<1> DEFINE t == Append(s, e)
<1>1. Len(t) = Len(s) + 1 /\ t[Len(s) + 1] = e /\ Len(s) \in Nat
  OBVIOUS
<1>2. \A i \in 1..Len(s) : t[i] = s[i]
  OBVIOUS
<1>3. t # <<>>
  OBVIOUS
<1>4. EndOf(t, a) = e.next
  BY <1>1, <1>3 DEF EndOf
<1>5. ASSUME NEW i \in 1..Len(t)
      PROVE  /\ t[i].from = (IF i = 1 THEN a ELSE t[i - 1].next)
             /\ t[i].from <= t[i].next
  <2>1. CASE i \in 1..Len(s)
    BY <1>1, <1>2, <2>1 DEF Chained
  <2>2. CASE i = Len(s) + 1 /\ s = <<>>
    BY <1>1, <2>2 DEF EndOf
  <2>3. CASE i = Len(s) + 1 /\ s # <<>>
    <3>1. i - 1 = Len(s) /\ Len(s) \in 1..Len(s) /\ i # 1
      BY <2>3
    <3>2. t[i - 1] = s[Len(s)]
      BY <1>2, <3>1
    <3> QED
      BY <1>1, <2>3, <3>1, <3>2 DEF EndOf
  <2> QED
    BY <1>1, <2>1, <2>2, <2>3
<1> HIDE DEF t
<1>6. Chained(t, a)
  BY <1>5 DEF Chained
<1> QED
  BY <1>4, <1>6 DEF t

\* The head of a chain starts where the chain starts, and the tail goes on
\* where the head ends.
LEMMA ChainedTail ==
    ASSUME NEW s \in Seq(Item), NEW a \in Nat, s # <<>>, Chained(s, a)
    PROVE  /\ Head(s) \in Item
           /\ Head(s).from = a
           /\ a <= Head(s).next
           /\ Tail(s) \in Seq(Item)
           /\ Chained(Tail(s), Head(s).next)
           /\ EndOf(Tail(s), Head(s).next) = EndOf(s, a)
<1>1. Len(s) \in Nat \ {0} /\ Head(s) = s[1] /\ Head(s) \in Item
  OBVIOUS
<1>2. Tail(s) \in Seq(Item) /\ Len(Tail(s)) = Len(s) - 1
  OBVIOUS
<1>3. \A i \in 1..Len(Tail(s)) : Tail(s)[i] = s[i + 1]
  BY <1>1, <1>2
<1>4. s[1].from = a /\ s[1].from <= s[1].next
  BY <1>1 DEF Chained
<1>5. Chained(Tail(s), Head(s).next)
  <2>1. SUFFICES ASSUME NEW i \in 1..Len(Tail(s))
                 PROVE  /\ Tail(s)[i].from = (IF i = 1 THEN Head(s).next
                                              ELSE Tail(s)[i - 1].next)
                        /\ Tail(s)[i].from <= Tail(s)[i].next
    BY DEF Chained
  <2>2. i + 1 \in 1..Len(s) /\ i + 1 # 1 /\ (i + 1) - 1 = i
    BY <1>1, <1>2
  <2>3. s[i + 1].from = s[i].next /\ s[i + 1].from <= s[i + 1].next
    BY <2>2 DEF Chained
  <2>4. i # 1 => Tail(s)[i - 1] = s[i]
    BY <1>2, <1>3, <1>1
  <2> QED
    BY <1>1, <1>3, <2>3, <2>4
<1>6. EndOf(Tail(s), Head(s).next) = EndOf(s, a)
  <2>1. CASE Len(s) = 1
    <3>1. Tail(s) = <<>>
      BY <2>1, Singletons
    <3> QED
      BY <1>1, <2>1, <3>1 DEF EndOf
  <2>2. CASE Len(s) # 1
    <3>0. Len(Tail(s)) # 0 /\ Len(s) - 1 \in 1..Len(Tail(s))
      BY <1>1, <1>2, <2>2
    <3>1. Tail(s) # <<>> /\ Len(s) - 1 \in 1..Len(Tail(s))
      BY <1>2, <3>0, Singletons
    <3>2. Tail(s)[Len(Tail(s))] = s[Len(s)]
      BY <1>1, <1>2, <1>3, <3>1
    <3> QED
      BY <3>1, <3>2 DEF EndOf
  <2> QED
    BY <2>1, <2>2
<1> QED
  BY <1>1, <1>2, <1>4, <1>5, <1>6

\* A chain ends at a natural number.
LEMMA EndOfNat ==
    ASSUME NEW s \in Seq(Item), NEW a \in Nat
    PROVE  EndOf(s, a) \in Nat
<1>1. CASE s = <<>>
  BY <1>1 DEF EndOf
<1>2. CASE s # <<>>
  <2>1. s[Len(s)] \in Item
    BY <1>2
  <2> QED
    BY <1>2, <2>1 DEF EndOf, Item
<1> QED
  BY <1>1, <1>2

\* A chain of one item.
LEMMA ChainedOne ==
    ASSUME NEW e \in Item, NEW a \in Nat
    PROVE  /\ <<e>> \in Seq(Item) /\ Len(<<e>>) = 1 /\ <<e>>[1] = e
           /\ e.from = a /\ e.from <= e.next => Chained(<<e>>, a)
           /\ EndOf(<<e>>, a) = e.next
BY DEF Chained, EndOf

\* What an error and a response are.
LEMMA ItemFacts ==
    ASSUME TypeOK, NEW from \in Nat, NEW next \in Nat
    PROVE  /\ Response(from, next) \in Item
           /\ Response(from, next).from = from
           /\ Response(from, next).next = next
           /\ \A b \in Blocks : from <= b /\ b < next =>
                 Response(from, next).seen[b] = chain[b]
           /\ Failure(from) \in Item
           /\ Failure(from).from = from
           /\ Failure(from).next = from
           /\ ~Failure(from).ok
<1>1. MaxEpoch \in Nat /\ 0 \in Epochs
  BY BoundAssumption DEF Epochs
<1>2. [b \in Blocks |-> IF from <= b /\ b < next THEN chain[b] ELSE 0]
        \in [Blocks -> Epochs]
  BY <1>1 DEF TypeOK
<1>3. [b \in Blocks |-> 0] \in [Blocks -> Epochs]
  BY <1>1
<1>4. /\ Response(from, next) \in Item
      /\ Response(from, next).from = from
      /\ Response(from, next).next = next
  BY <1>2 DEF Response, Item
<1>5. \A b \in Blocks : from <= b /\ b < next =>
                 Response(from, next).seen[b] = chain[b]
  BY DEF Response
<1>6. /\ Failure(from) \in Item
      /\ Failure(from).from = from
      /\ Failure(from).next = from
      /\ ~Failure(from).ok
  BY <1>3 DEF Failure, Item
<1> QED
  BY <1>4, <1>5, <1>6

\* Appending to, and taking from, a sequence of settled items.
LEMMA SettledAppend ==
    ASSUME NEW c, NEW f, NEW s \in Seq(Item), NEW e \in Item,
           Settled(s, c, f), SettledItem(e, c, f)
    PROVE  Settled(Append(s, e), c, f)
<1> DEFINE t == Append(s, e)
<1>1. Len(t) = Len(s) + 1 /\ t[Len(s) + 1] = e /\ Len(s) \in Nat
  OBVIOUS
<1>2. \A i \in 1..Len(s) : t[i] = s[i]
  OBVIOUS
<1>3. \A i \in 1..Len(t) : i \in 1..Len(s) \/ t[i] = e
  BY <1>1
<1> HIDE DEF t
<1>4. \A i \in 1..Len(t) : SettledItem(t[i], c, f)
  BY <1>2, <1>3 DEF Settled
<1> QED
  BY <1>4 DEF Settled, t

\* Every item but the first is settled if all are, and so is the first.
LEMMA SettledTail ==
    ASSUME NEW c, NEW f, NEW s \in Seq(Item), s # <<>>, Settled(s, c, f)
    PROVE  Settled(Tail(s), c, f) /\ SettledItem(Head(s), c, f)
<1>1. Len(s) \in Nat \ {0} /\ Head(s) = s[1] /\ 1 \in 1..Len(s)
  BY EmptySeq
<1>2. /\ Tail(s) \in Seq(Item)
      /\ Len(Tail(s)) = Len(s) - 1
      /\ \A i \in 1..Len(Tail(s)) : Tail(s)[i] = s[i + 1]
  BY HeadTailProperties
<1>3. \A i \in 1..Len(Tail(s)) : i + 1 \in 1..Len(s)
  BY <1>1, <1>2
<1> QED
  BY <1>1, <1>2, <1>3 DEF Settled

\* A settled item alone is a settled sequence.
LEMMA SettledOne ==
    ASSUME NEW c, NEW f, NEW e, SettledItem(e, c, f)
    PROVE  Settled(<<e>>, c, f)
BY DEF Settled

\* No item, nothing to settle.
LEMMA SettledEmpty ==
    ASSUME NEW c, NEW f
    PROVE  Settled(<<>>, c, f)
BY DEF Settled

\* A response to a request that ends at a final block is settled, and so is an
\* error.
LEMMA SettledItems ==
    ASSUME TypeOK, ChainInv, NEW from \in Nat
    PROVE  /\ \A next \in NextBlocks(from, reqTo) :
                 SettledItem(Response(from, next), chain, final)
           /\ SettledItem(Failure(from), chain, final)
<1>1. height \in Nat /\ reqTo \in Nat /\ final \in Nat /\ reqTo <= final + 1
  BY BoundAssumption DEF TypeOK, ChainInv, Blocks
<1>2. ASSUME NEW next \in NextBlocks(from, reqTo)
      PROVE  SettledItem(Response(from, next), chain, final)
  <2>1. next \in Nat /\ (next <= reqTo \/ next = from)
    BY <1>1, NextBlocksFacts
  <2>2. ASSUME NEW b \in Blocks, Covered(Response(from, next), b)
        PROVE  b <= final /\ Response(from, next).seen[b] = chain[b]
    <3>1. b \in Nat /\ from <= b /\ b < next
      BY <2>1, <2>2, ItemFacts, BoundAssumption DEF Covered, Blocks
    <3>2. b <= final
      BY <1>1, <2>1, <3>1
    <3> QED
      BY <2>1, <3>1, <3>2, ItemFacts
  <2> QED
    BY <2>2 DEF SettledItem
<1>3. SettledItem(Failure(from), chain, final)
  BY ItemFacts, BoundAssumption DEF SettledItem, Covered, Blocks
<1> QED
  BY <1>2, <1>3

\* Settled items stay settled: the chain changes only above its final block,
\* which never moves down.
LEMMA SettledStable ==
    ASSUME TypeOK, ChainInv, Grow,
           NEW s, Settled(s, chain, final)
    PROVE  Settled(s, chain', final')
<1>1. /\ height \in Nat /\ final \in Nat /\ final <= height
      /\ chain \in [Blocks -> Epochs] /\ height + 1 \in Blocks
  BY BoundAssumption DEF TypeOK, ChainInv, Blocks, Grow
<1>2. final' \in Nat /\ final <= final'
  BY <1>1, OffsetAssumption DEF Grow, Larger, SaturatingSub
<1>3. \A b \in Blocks : b <= final => chain'[b] = chain[b] /\ b <= final'
  BY <1>1, <1>2, BoundAssumption DEF Grow, Blocks
<1> QED
  BY <1>3 DEF Settled, SettledItem
-----------------------------------------------------------------------------
\* Preservation of the inductive invariant, one part at a time.

\* Facts about the current state that every step uses.
LEMMA StateFacts ==
    ASSUME TypeOK
    PROVE  /\ height \in Nat /\ final \in Nat /\ From \in Nat
           /\ original_to_block = None \/ original_to_block \in Nat
           /\ Position \in Nat
           /\ Sent \in Nat
<1>1. height \in Nat /\ final \in Nat
  BY BoundAssumption DEF TypeOK, Blocks
<1>2. From \in Nat /\ (original_to_block = None \/ original_to_block \in Nat)
  BY RangeAssumption DEF original_to_block
<1>3. Position \in Nat
  BY <1>2, EndOfNat DEF TypeOK, Position
<1>4. Sent \in Nat
  BY <1>3, EndOfNat DEF TypeOK, Sent
<1> QED
  BY <1>1, <1>2, <1>3, <1>4

\* Every step keeps the types.
LEMMA TypeStep ==
    ASSUME TypeOK, ShapeInv, [Next]_vars
    PROVE  TypeOK'
<1> USE DEF TypeOK
<1>1. CASE UNCHANGED vars \/ Over
  BY <1>1 DEF vars, Over
<1>2. CASE Grow
  <2>1. height' \in Blocks /\ height + 1 \in Blocks
    BY <1>2, BoundAssumption DEF Grow, Blocks
  <2>2. final' \in Blocks
    BY <1>2, <2>1, BoundAssumption, OffsetAssumption
    DEF Grow, Blocks, Larger, SaturatingSub
  <2>3. chain' \in [Blocks -> Epochs]
    BY <1>2, <2>1 DEF Grow
  <2> QED
    BY <1>2, <2>1, <2>2, <2>3 DEF Grow, clientVars, taskVars, userVars
<1>3. CASE Reorg
  <2>1. height' \in Blocks /\ epoch' \in Epochs
    BY <1>3, BoundAssumption DEF Reorg, Blocks, Epochs
  <2> QED
    BY <1>3, <2>1 DEF Reorg, clientVars, taskVars, userVars
<1>4. CASE ClientFetch
  <2>1. PICK next \in NextBlocks(cursor, reqTo) :
           inbox' = Append(inbox, Response(cursor, next)) /\ cursor' = next
    BY <1>4 DEF ClientFetch
  <2>2. next \in Nat
    BY StateFacts, NextBlocksFacts
  <2>3. Response(cursor, next) \in Item
    BY <2>2, ItemFacts
  <2> QED
    BY <1>4, <2>1, <2>2, <2>3 DEF ClientFetch, chainVars, taskVars, userVars
<1>5. CASE ClientFail \/ ClientClose
  BY <1>5 DEF ClientFail, ClientClose, chainVars, taskVars, userVars
<1>6. CASE StartFail \/ GetChainId \/ StreamArrow
  BY <1>6 DEF StartFail, GetChainId, StreamArrow, chainVars, clientVars, userVars
<1>7. CASE GetHeight
  <2>1. height \in Nat /\ make_to_block(original_to_block, height) \in Nat
    BY StateFacts, MakeToBlockFacts
  <2> QED
    BY <1>7, <2>1 DEF GetHeight, chainVars, clientVars, userVars
<1>8. CASE RecvOk
  <2>1. Head(inbox) \in Item /\ Tail(inbox) \in Seq(Item)
    BY <1>8, HeadTailProperties DEF RecvOk
  <2>2. Head(inbox).next \in Nat
    BY <2>1 DEF Item
  <2>3. <<Head(inbox)>> \in Seq(Item)
    BY <2>1
  <2> QED
    BY <1>8, <2>1, <2>2, <2>3 DEF RecvOk, chainVars, userVars
<1>9. CASE RecvErr
  <2>1. <<Failure(fromBlock)>> \in Seq(Item)
    BY ItemFacts
  <2>2. inbox' \in Seq(Item)
    BY <1>9, HeadTailProperties DEF RecvErr
  <2> QED
    BY <1>9, <2>1, <2>2 DEF RecvErr, chainVars, userVars
<1>10. CASE RecvEnd
  BY <1>10 DEF RecvEnd, chainVars, clientVars, userVars
<1>11. CASE SendBulk
  <2>1. CASE closed
    BY <1>11, <2>1 DEF SendBulk, Send, DropClient, chainVars
  <2>2. CASE ~closed
    BY <1>11, <2>2 DEF SendBulk, Send, chainVars
  <2> QED
    BY <2>1, <2>2
<1>12. CASE SendErr
  BY <1>12 DEF SendErr, Send, DropClient, chainVars
<1>13. CASE HeadGetHeight
  BY <1>13, StateFacts DEF HeadGetHeight, chainVars, clientVars, userVars
<1>14. CASE HeadWait
  <2>1. reqTo' \in Nat
    BY <1>14, MakeToBlockFacts DEF HeadWait
  <2> QED
    BY <1>14, <2>1 DEF HeadWait, chainVars, clientVars, userVars
<1>15. CASE HeadSleep
  BY <1>15 DEF HeadSleep, chainVars, clientVars, userVars
<1>16. CASE HeadRequest
  <2>1. PICK next \in NextBlocks(fromBlock, reqTo) :
           pending' = <<Response(fromBlock, next)>>
    BY <1>16 DEF HeadRequest
  <2>2. next \in Nat
    BY StateFacts, NextBlocksFacts
  <2>3. pending' \in Seq(Item)
    BY <2>1, <2>2, ItemFacts
  <2>4. seenHeight' \in Nat
    BY <1>16, StateFacts DEF HeadRequest
  <2> QED
    BY <1>16, <2>3, <2>4 DEF HeadRequest, chainVars, clientVars, userVars
<1>17. CASE HeadErr
  <2>1. <<Failure(fromBlock)>> \in Seq(Item)
    BY ItemFacts
  <2> QED
    BY <1>17, <2>1 DEF HeadErr, chainVars, clientVars, userVars
<1>18. CASE HeadSend
  <2>1. pending[1] \in Item
    BY <1>18, Singletons DEF HeadSend, ShapeInv
  <2>2. pending[1].next \in Nat
    BY <2>1 DEF Item
  <2> QED
    BY <1>18, <2>2 DEF HeadSend, Send, chainVars, clientVars
<1>19. CASE Receive
  <2>1. Head(channel) \in Item /\ Tail(channel) \in Seq(Item)
    BY <1>19, HeadTailProperties DEF Receive
  <2> QED
    BY <1>19, <2>1 DEF Receive, chainVars, clientVars, taskVars
<1>20. CASE ReceiveEnd
  BY <1>20 DEF ReceiveEnd, chainVars, clientVars, taskVars
<1>21. CASE Close
  <2>1. <<>> \in Seq(Item)
    OBVIOUS
  <2> QED
    BY <1>21, <2>1 DEF Close, chainVars, clientVars, taskVars
<1> QED
  BY <1>1, <1>2, <1>3, <1>4, <1>5, <1>6, <1>7, <1>8, <1>9, <1>10, <1>11, <1>12,
     <1>13, <1>14, <1>15, <1>16, <1>17, <1>18, <1>19, <1>20, <1>21
  DEF Next, ChainStep, ClientStep, TaskStep, StartStep, BulkStep, HeadStep, UserStep

\* Every request ends at a block that is final, whatever the chain did since
\* the height was read.
LEMMA ChainStepInv ==
    ASSUME TypeOK, ChainInv, [Next]_vars
    PROVE  ChainInv'
<1>0. /\ height \in Nat /\ final \in Nat /\ seenHeight \in Nat /\ reqTo \in Nat
      /\ Depth \in Nat /\ Offset \in Nat /\ Depth <= Offset
  BY StateFacts, OffsetAssumption DEF TypeOK
<1>1. CASE UNCHANGED <<height, final, seenHeight, reqTo>>
  BY <1>1 DEF ChainInv
<1>2. CASE Grow
  <2>1. height' = height + 1 /\ UNCHANGED <<seenHeight, reqTo>>
    BY <1>2 DEF Grow, taskVars
  <2>2. final' = Larger(final, SaturatingSub(height', Depth))
    BY <1>2, <2>1 DEF Grow
  <2>3. SaturatingSub(height', Depth) \in Nat /\ SaturatingSub(height', Depth) <= height'
    BY <1>0, <2>1, SaturatingSubFacts
  <2>4. final' \in Nat /\ final <= final' /\ final' <= height'
    BY <1>0, <2>1, <2>2, <2>3 DEF Larger, ChainInv
  <2>5. SaturatingSub(height', Depth) <= final'
    BY <1>0, <2>2, <2>3 DEF Larger
  <2>6. reqTo' <= final' + 1
    <3>1. reqTo <= final + 1
      BY DEF ChainInv
    <3>2. reqTo <= final' + 1
      BY <1>0, <2>4, <3>1, BoundMoves
    <3> QED
      BY <2>1, <3>2
  <2>7. \A x \in Nat : x <= final => x <= final'
    BY <1>0, <2>4
  <2>8. SaturatingSub(seenHeight', Depth) <= final'
    BY <1>0, <2>1, <2>7, SaturatingSubFacts DEF ChainInv
  <2> QED
    BY <2>4, <2>5, <2>6, <2>8 DEF ChainInv
<1>3. CASE Reorg
  <2>1. height' \in final .. height - 1 /\ UNCHANGED <<final, seenHeight, reqTo>>
    BY <1>3 DEF Reorg, taskVars
  <2>2. height' \in Nat /\ final <= height' /\ height' <= height
    BY <1>0, <2>1
  <2>3. SaturatingSub(height', Depth) <= SaturatingSub(height, Depth)
    BY <1>0, <2>2, SaturatingSubMonotone
  <2>4. SaturatingSub(height', Depth) \in Nat /\ SaturatingSub(height, Depth) \in Nat
    BY <1>0, <2>2, SaturatingSubFacts
  <2> QED
    BY <1>0, <2>1, <2>2, <2>3, <2>4 DEF ChainInv
<1>4. CASE GetHeight
  <2>1. /\ seenHeight' = height /\ UNCHANGED <<height, final>>
        /\ reqTo' = make_to_block(original_to_block, height)
    BY <1>4 DEF GetHeight, chainVars
  <2>2. reqTo' \in Nat /\ reqTo' <= SaturatingSub(height, Offset) + 1
    BY <1>0, <2>1, MakeToBlockFacts
  <2>3. /\ SaturatingSub(height, Offset) \in Nat
        /\ SaturatingSub(height, Depth) \in Nat
        /\ SaturatingSub(height, Offset) <= SaturatingSub(height, Depth)
    BY <1>0, SaturatingSubFacts
  <2> QED
    BY <1>0, <2>1, <2>2, <2>3 DEF ChainInv
<1>5. CASE HeadGetHeight
  <2>1. seenHeight' = height /\ UNCHANGED <<height, final, reqTo>>
    BY <1>5 DEF HeadGetHeight, chainVars
  <2> QED
    BY <2>1 DEF ChainInv
<1>6. CASE HeadWait
  <2>1. UNCHANGED <<height, final, seenHeight>>
    BY <1>6 DEF HeadWait, chainVars
  <2>2. reqTo' = reqTo \/ reqTo' = make_to_block(original_to_block, seenHeight)
    BY <1>6 DEF HeadWait
  <2>3. make_to_block(original_to_block, seenHeight) \in Nat
        /\ make_to_block(original_to_block, seenHeight)
              <= SaturatingSub(seenHeight, Offset) + 1
    BY <1>0, MakeToBlockFacts
  <2>4. /\ SaturatingSub(seenHeight, Offset) \in Nat
        /\ SaturatingSub(seenHeight, Depth) \in Nat
        /\ SaturatingSub(seenHeight, Offset) <= SaturatingSub(seenHeight, Depth)
    BY <1>0, SaturatingSubFacts
  <2> QED
    BY <1>0, <2>1, <2>2, <2>3, <2>4 DEF ChainInv
<1>7. CASE HeadRequest
  <2>1. seenHeight' \in {0, height} /\ UNCHANGED <<height, final, reqTo>>
    BY <1>7 DEF HeadRequest, chainVars
  <2>2. SaturatingSub(0, Depth) = 0
    BY <1>0 DEF SaturatingSub
  <2> QED
    BY <1>0, <2>1, <2>2 DEF ChainInv
<1>8. CASE ClientStep \/ UserStep \/ Over \/ UNCHANGED vars
  BY <1>1, <1>8
  DEF ClientStep, UserStep, Over, vars, ClientFetch, ClientFail, ClientClose,
      Receive, ReceiveEnd, Close, chainVars, taskVars
<1>9. CASE BulkStep \/ StartFail \/ GetChainId \/ StreamArrow
  BY <1>1, <1>9
  DEF BulkStep, RecvOk, RecvErr, RecvEnd, SendBulk, SendErr, StartFail,
      GetChainId, StreamArrow, chainVars
<1>10. CASE HeadSleep \/ HeadErr \/ HeadSend
  BY <1>1, <1>10 DEF HeadSleep, HeadErr, HeadSend, chainVars
<1> QED
  BY <1>2, <1>3, <1>4, <1>5, <1>6, <1>7, <1>8, <1>9, <1>10
  DEF Next, ChainStep, TaskStep, StartStep, HeadStep

\* Every item in flight or delivered covers settled blocks only.
LEMMA SettledStep ==
    ASSUME TypeOK, ChainInv, SettledInv, ShapeInv, [Next]_vars
    PROVE  SettledInv'
<1>1. CASE Grow
  <2>1. UNCHANGED <<inbox, pending, channel, delivered>>
    BY <1>1 DEF Grow, clientVars, taskVars, userVars
  <2> QED
    BY <1>1, <2>1, SettledStable DEF SettledInv
<1>2. CASE ~Grow
  <2>0. UNCHANGED <<chain, final>>
    BY <1>2 DEF Next, ChainStep, ClientStep, TaskStep, StartStep, BulkStep,
      HeadStep, UserStep, Over, vars, Reorg, ClientFetch, ClientFail,
      ClientClose, StartFail, GetChainId, GetHeight, StreamArrow, RecvOk,
      RecvErr, RecvEnd, SendBulk, SendErr, HeadGetHeight, HeadWait, HeadSleep,
      HeadRequest, HeadErr, HeadSend, Receive, ReceiveEnd, Close, chainVars
  <2> DEFINE Ok(s) == Settled(s, chain, final)
  <2>1. SUFFICES Ok(inbox') /\ Ok(pending') /\ Ok(channel') /\ Ok(delivered')
    BY <2>0 DEF SettledInv
  <2>2. Ok(inbox) /\ Ok(pending) /\ Ok(channel) /\ Ok(delivered) /\ Ok(<<>>)
    BY SettledEmpty DEF SettledInv
  <2>3. CASE UNCHANGED <<inbox, pending, channel, delivered>>
    BY <2>2, <2>3
  <2>4. CASE ClientFetch
    <3>1. PICK next \in NextBlocks(cursor, reqTo) :
             inbox' = Append(inbox, Response(cursor, next))
      BY <2>4 DEF ClientFetch
    <3>2. next \in Nat /\ cursor \in Nat
      BY StateFacts, NextBlocksFacts DEF TypeOK
    <3>3. /\ Response(cursor, next) \in Item
          /\ SettledItem(Response(cursor, next), chain, final)
      BY <3>2, ItemFacts, SettledItems
    <3>4. Ok(inbox')
      BY <2>2, <3>1, <3>3, SettledAppend DEF TypeOK
    <3> QED
      BY <2>2, <2>4, <3>4 DEF ClientFetch, taskVars, userVars
  <2>5. CASE RecvOk
    <3>1. Settled(Tail(inbox), chain, final) /\ SettledItem(Head(inbox), chain, final)
      BY <2>2, <2>5, SettledTail DEF RecvOk, TypeOK
    <3>2. Ok(<<Head(inbox)>>)
      BY <3>1, SettledOne
    <3> QED
      BY <2>2, <2>5, <3>1, <3>2 DEF RecvOk, userVars
  <2>6. CASE RecvErr \/ HeadErr
    <3>1. Ok(<<Failure(fromBlock)>>)
      BY SettledItems, SettledOne DEF TypeOK
    <3>2. inbox # <<>> => Ok(Tail(inbox))
      BY <2>2, SettledTail DEF TypeOK
    <3> QED
      BY <2>2, <2>6, <3>1, <3>2 DEF RecvErr, HeadErr, clientVars, userVars
  <2>7. CASE SendBulk \/ SendErr \/ HeadSend
    BY <2>2, <2>7
    DEF SendBulk, SendErr, HeadSend, Send, DropClient, clientVars
  <2>8. CASE HeadRequest
    <3>1. PICK next \in NextBlocks(fromBlock, reqTo) :
             pending' = <<Response(fromBlock, next)>>
      BY <2>8 DEF HeadRequest
    <3>2. Ok(pending')
      BY <3>1, SettledItems, SettledOne DEF TypeOK
    <3> QED
      BY <2>2, <2>8, <3>2 DEF HeadRequest, clientVars, userVars
  <2>9. CASE Receive
    <3>1. Settled(Tail(channel), chain, final) /\ SettledItem(Head(channel), chain, final)
      BY <2>2, <2>9, SettledTail DEF Receive, TypeOK
    <3>2. Head(channel) \in Item
      BY <2>9, HeadTailProperties DEF Receive, TypeOK
    <3>3. Ok(Append(delivered, Head(channel)))
      BY <2>2, <3>1, <3>2, SettledAppend DEF TypeOK
    <3> QED
      BY <2>2, <2>9, <3>1, <3>3 DEF Receive, clientVars, taskVars
  <2>10. CASE Close
    BY <2>2, <2>10 DEF Close, clientVars, taskVars
  <2>11. CASE \/ Reorg \/ ClientFail \/ ClientClose \/ StartStep \/ RecvEnd
              \/ HeadGetHeight \/ HeadWait \/ HeadSleep \/ ReceiveEnd
              \/ Over \/ UNCHANGED vars
    BY <2>3, <2>11
    DEF Reorg, ClientFail, ClientClose, StartStep, StartFail, GetChainId,
      GetHeight, StreamArrow, RecvEnd, HeadGetHeight, HeadWait, HeadSleep,
      ReceiveEnd, Over, vars, clientVars, taskVars, userVars
  <2> QED
    BY <1>2, <2>4, <2>5, <2>6, <2>7, <2>8, <2>9, <2>10, <2>11
    DEF Next, ChainStep, ClientStep, TaskStep, BulkStep, HeadStep, UserStep
<1> QED
  BY <1>1, <1>2

\* The task sends in the sending states only, one item at a time.
LEMMA ShapeStep ==
    ASSUME TypeOK, ShapeInv, [Next]_vars
    PROVE  ShapeInv'
<1> USE DEF ShapeInv
<1>1. CASE \/ ChainStep \/ ClientStep \/ ReceiveEnd \/ Over \/ UNCHANGED vars
  <2>1. UNCHANGED <<pc, pending, channel, fromBlock>>
    BY <1>1 DEF ChainStep, Grow, Reorg, ClientStep, ClientFetch, ClientFail,
       ClientClose, ReceiveEnd, Over, vars, taskVars, userVars
  <2>2. client = "idle" => UNCHANGED <<client, inbox>>
    BY <1>1 DEF ChainStep, Grow, Reorg, ClientStep, ClientFetch, ClientFail,
       ClientClose, ReceiveEnd, Over, vars, clientVars
  <2> QED
    BY <2>1, <2>2 DEF Failure
<1>2. CASE StartStep
  BY <1>2 DEF StartStep, StartFail, GetChainId, GetHeight, StreamArrow,
     clientVars, userVars
<1>3. CASE RecvOk
  <2>1. Len(pending') = 1
    BY <1>3 DEF RecvOk
  <2> QED
    BY <1>3, <2>1 DEF RecvOk, userVars
<1>4. CASE RecvErr \/ HeadErr
  <2>1. /\ pending' = <<Failure(fromBlock)>> /\ pc' = "send_err"
        /\ UNCHANGED <<channel, fromBlock>>
    BY <1>4 DEF RecvErr, HeadErr, userVars
  <2>2. Len(pending') = 1 /\ pending' = <<Failure(fromBlock')>>
    BY <2>1
  <2> QED
    BY <2>1, <2>2 DEF Failure
<1>5. CASE RecvEnd
  BY <1>5 DEF RecvEnd, userVars
<1>6. CASE SendBulk \/ SendErr \/ HeadSend
  <2>1. Len(pending) = 1 /\ pending' = <<>> /\ channel' \in {channel, pending}
    BY <1>6 DEF SendBulk, SendErr, HeadSend, Send
  <2>2. pc' \in {"recv", "done", "head_wait"}
    BY <1>6 DEF SendBulk, SendErr, HeadSend, Send
  <2>3. Len(pending') = 0
    BY <2>1
  <2>4. Len(channel) <= 1 /\ Len(pending) <= 1
    BY <2>1
  <2>5. Len(channel') <= 1
    BY <2>1, <2>4
  <2> QED
    BY <2>2, <2>3, <2>5
<1>7. CASE HeadGetHeight \/ HeadWait \/ HeadSleep
  BY <1>7 DEF HeadGetHeight, HeadWait, HeadSleep, userVars
<1>8. CASE HeadRequest
  <2>1. Len(pending') = 1
    BY <1>8 DEF HeadRequest
  <2> QED
    BY <1>8, <2>1 DEF HeadRequest, userVars
<1>9. CASE Receive
  <2>1. Len(channel') <= 1
    <3>1. Len(channel) \in Nat /\ Len(Tail(channel)) = Len(channel) - 1
      BY <1>9, HeadTailProperties DEF Receive, TypeOK
    <3>2. Len(Tail(channel)) <= 1
      BY <3>1
    <3> QED
      BY <1>9, <3>2 DEF Receive
  <2> QED
    BY <1>9, <2>1 DEF Receive, taskVars, clientVars, Failure
<1>10. CASE Close
  <2>1. Len(channel') <= 1
    BY <1>10 DEF Close
  <2> QED
    BY <1>10, <2>1 DEF Close, taskVars, clientVars, Failure
<1> QED
  BY <1>1, <1>2, <1>3, <1>4, <1>5, <1>6, <1>7, <1>8, <1>9, <1>10
  DEF Next, TaskStep, BulkStep, HeadStep, UserStep

\* The client's responses follow each other from from_block on.
LEMMA InboxStep ==
    ASSUME TypeOK, ShapeInv, InboxInv, [Next]_vars
    PROVE  InboxInv'
<1>1. CASE ClientFetch
  <2>1. PICK next \in NextBlocks(cursor, reqTo) :
           inbox' = Append(inbox, Response(cursor, next)) /\ cursor' = next
    BY <1>1 DEF ClientFetch
  <2>2. UNCHANGED <<pc, fromBlock>>
    BY <1>1 DEF ClientFetch, taskVars
  <2>3. cursor \in Nat /\ next \in Nat /\ cursor <= next
    BY StateFacts, NextBlocksFacts DEF TypeOK
  <2>4. /\ Response(cursor, next) \in Item
        /\ Response(cursor, next).from = cursor
        /\ Response(cursor, next).next = next
    BY <2>3, ItemFacts
  <2>5. CASE pc \in {"recv", "send"}
    <3>1. Chained(inbox, fromBlock) /\ cursor = EndOf(inbox, fromBlock)
      BY <2>5 DEF InboxInv
    <3>2. /\ Chained(Append(inbox, Response(cursor, next)), fromBlock)
          /\ EndOf(Append(inbox, Response(cursor, next)), fromBlock) = next
      BY <2>3, <2>4, <3>1, ChainedAppend DEF TypeOK
    <3> QED
      BY <2>1, <2>2, <3>2 DEF InboxInv
  <2> QED
    BY <2>2, <2>5 DEF InboxInv
<1>2. CASE StreamArrow
  BY <1>2, Singletons DEF StreamArrow, InboxInv, ShapeInv
<1>3. CASE RecvOk
  <2>1. /\ inbox # <<>> /\ inbox' = Tail(inbox)
        /\ fromBlock' = Head(inbox).next /\ cursor' = cursor
        /\ Chained(inbox, fromBlock) /\ cursor = EndOf(inbox, fromBlock)
    BY <1>3 DEF RecvOk, InboxInv
  <2>2. /\ Chained(Tail(inbox), Head(inbox).next)
        /\ EndOf(Tail(inbox), Head(inbox).next) = EndOf(inbox, fromBlock)
    BY <2>1, ChainedTail DEF TypeOK
  <2> QED
    BY <2>1, <2>2 DEF InboxInv
<1>4. CASE UNCHANGED <<inbox, cursor, fromBlock>>
            /\ (pc' \in {"recv", "send"} => pc \in {"recv", "send"})
  BY <1>4 DEF InboxInv
<1>5. CASE pc' \notin {"recv", "send"}
  BY <1>5 DEF InboxInv
<1>6. CASE SendBulk
  BY <1>4, <1>5, <1>6 DEF SendBulk, Send
<1>7. CASE ChainStep \/ ClientFail \/ ClientClose \/ UserStep \/ Over \/ UNCHANGED vars
  BY <1>4, <1>7
  DEF ChainStep, Grow, Reorg, ClientFail, ClientClose, UserStep, Receive,
      ReceiveEnd, Close, Over, vars, clientVars, taskVars
<1>8. CASE StartFail \/ GetChainId \/ GetHeight \/ RecvErr \/ RecvEnd \/ SendErr
  BY <1>5, <1>8
  DEF StartFail, GetChainId, GetHeight, RecvErr, RecvEnd, SendErr, Send
<1>9. CASE HeadStep
  BY <1>5, <1>9
  DEF HeadStep, HeadGetHeight, HeadWait, HeadSleep, HeadRequest, HeadErr,
      HeadSend, Send
<1> QED
  BY <1>1, <1>2, <1>3, <1>6, <1>7, <1>8, <1>9
  DEF Next, ClientStep, TaskStep, StartStep, BulkStep

\* What is delivered, queued and being sent forms one chain.
LEMMA QueueStep ==
    ASSUME TypeOK, ShapeInv, InboxInv, QueueInv, [Next]_vars
    PROVE  QueueInv'
<1>0. fromBlock \in Nat /\ Position \in Nat /\ Sent \in Nat /\ From \in Nat
  BY StateFacts DEF TypeOK
<1>1. Chained(delivered, From)
  BY DEF QueueInv
<1>2. ASSUME ~closed
      PROVE  /\ Chained(channel, Position)
             /\ Chained(pending, Sent)
             /\ pc = "send" => fromBlock = EndOf(pending, Sent)
             /\ pc # "send" => fromBlock = Sent
  BY <1>2 DEF QueueInv
<1>3. CASE UNCHANGED delivered /\ closed'
  BY <1>1, <1>3 DEF QueueInv
<1>4. CASE /\ UNCHANGED <<delivered, channel, pending, fromBlock, closed>>
           /\ pc' = "send" <=> pc = "send"
  BY <1>4 DEF QueueInv, Position, Sent
<1>5. CASE RecvOk
  <2>1. /\ UNCHANGED <<delivered, channel, closed>>
        /\ inbox # <<>> /\ fromBlock' = Head(inbox).next
        /\ pending' = <<Head(inbox)>> /\ pc = "recv" /\ pc' = "send"
    BY <1>5 DEF RecvOk, userVars
  <2>2. /\ Head(inbox) \in Item /\ Head(inbox).from = fromBlock
        /\ fromBlock <= Head(inbox).next
    BY <1>0, <2>1, ChainedTail DEF InboxInv, TypeOK
  <2>3. CASE ~closed
    <3>1. /\ Chained(<<Head(inbox)>>, Sent)
          /\ EndOf(<<Head(inbox)>>, Sent) = Head(inbox).next
      BY <1>0, <1>2, <2>1, <2>2, <2>3, ChainedOne
    <3>2. Position' = Position /\ Sent' = Sent
      BY <2>1 DEF Position, Sent
    <3> QED
      BY <1>1, <1>2, <2>1, <2>3, <3>1, <3>2 DEF QueueInv
  <2> QED
    BY <1>3, <2>1, <2>3
<1>6. CASE RecvErr \/ HeadErr
  <2>1. /\ UNCHANGED <<delivered, channel, closed, fromBlock>>
        /\ pending' = <<Failure(fromBlock)>> /\ pc # "send" /\ pc' = "send_err"
    BY <1>6 DEF RecvErr, HeadErr, userVars
  <2>2. CASE ~closed
    <3>1. Chained(<<Failure(fromBlock)>>, Sent)
      BY <1>0, <1>2, <2>1, <2>2, ItemFacts, ChainedOne
    <3>2. Position' = Position /\ Sent' = Sent
      BY <2>1 DEF Position, Sent
    <3> QED
      BY <1>1, <1>2, <2>1, <2>2, <3>1, <3>2 DEF QueueInv
  <2> QED
    BY <1>3, <2>1, <2>2
<1>7. CASE SendBulk \/ SendErr \/ HeadSend
  <2>1. UNCHANGED <<delivered, closed>> /\ pending' = <<>> /\ pc' # "send"
    BY <1>7 DEF SendBulk, SendErr, HeadSend, Send
  <2>2. CASE ~closed
    <3>1. channel = <<>> /\ channel' = pending
      BY <1>7, <2>2 DEF SendBulk, SendErr, HeadSend, Send
    <3>2. Sent = Position /\ Position' = Position
      BY <2>1, <3>1, Singletons DEF Sent, Position
    <3>3. Chained(channel', Position')
      BY <1>2, <2>2, <3>1, <3>2
    <3>4. pending # <<>> /\ EndOf(pending, Position) = pending[1].next
      BY <1>7 DEF SendBulk, SendErr, HeadSend, ShapeInv, EndOf
    <3>5. fromBlock' = pending[1].next
      <4>1. CASE SendBulk
        BY <1>2, <2>2, <3>2, <3>4, <4>1 DEF SendBulk
      <4>2. CASE SendErr
        <5>1. pending = <<Failure(fromBlock)>> /\ fromBlock' = fromBlock
          BY <4>2 DEF SendErr, ShapeInv
        <5> QED
          BY <1>0, <5>1, ItemFacts
      <4>3. CASE HeadSend
        BY <2>2, <4>3 DEF HeadSend
      <4> QED
        BY <1>7, <4>1, <4>2, <4>3
    <3>6. Sent' = fromBlock'
      BY <3>1, <3>2, <3>4, <3>5 DEF Sent
    <3>7. Chained(pending', Sent')
      BY <2>1, Singletons
    <3> QED
      BY <1>1, <2>1, <3>3, <3>6, <3>7 DEF QueueInv
  <2> QED
    BY <1>3, <2>1, <2>2
<1>8. CASE HeadRequest
  <2>1. PICK next \in NextBlocks(fromBlock, reqTo) :
           pending' = <<Response(fromBlock, next)>>
    BY <1>8 DEF HeadRequest
  <2>2. /\ UNCHANGED <<delivered, channel, closed, fromBlock>>
        /\ pc = "head_request" /\ pc' = "head_send"
    BY <1>8 DEF HeadRequest, userVars
  <2>3. next \in Nat /\ fromBlock <= next
    BY <1>0, StateFacts, NextBlocksFacts DEF TypeOK
  <2>4. CASE ~closed
    <3>1. Chained(<<Response(fromBlock, next)>>, Sent)
      BY <1>0, <1>2, <2>2, <2>3, <2>4, ItemFacts, ChainedOne
    <3>2. Position' = Position /\ Sent' = Sent
      BY <2>2 DEF Position, Sent
    <3> QED
      BY <1>1, <1>2, <2>1, <2>2, <2>4, <3>1, <3>2 DEF QueueInv
  <2> QED
    BY <1>3, <2>2, <2>4
<1>9. CASE Receive
  <2>1. /\ ~closed /\ channel # <<>>
        /\ delivered' = Append(delivered, Head(channel))
        /\ channel' = Tail(channel)
        /\ UNCHANGED <<pending, fromBlock, closed, pc>>
    BY <1>9 DEF Receive, taskVars
  <2>2. /\ Head(channel) \in Item /\ Head(channel).from = Position
        /\ Position <= Head(channel).next
        /\ Chained(Tail(channel), Head(channel).next)
        /\ EndOf(Tail(channel), Head(channel).next) = Sent
    BY <1>0, <1>2, <2>1, ChainedTail DEF TypeOK, Sent
  <2>3. Chained(delivered', From) /\ Position' = Head(channel).next
    BY <1>0, <1>1, <2>1, <2>2, ChainedAppend DEF TypeOK, Position
  <2>4. Chained(channel', Position') /\ Sent' = Sent
    BY <2>1, <2>2, <2>3 DEF Sent
  <2> QED
    BY <1>2, <2>1, <2>3, <2>4 DEF QueueInv
<1>10. CASE Close
  BY <1>3, <1>10 DEF Close
<1>11. CASE ChainStep \/ ClientStep \/ ReceiveEnd \/ Over \/ UNCHANGED vars
  BY <1>4, <1>11
  DEF ChainStep, Grow, Reorg, ClientStep, ClientFetch, ClientFail, ClientClose,
      ReceiveEnd, Over, vars, taskVars, userVars
<1>12. CASE StartStep \/ RecvEnd
  BY <1>4, <1>12
  DEF StartStep, StartFail, GetChainId, GetHeight, StreamArrow, RecvEnd, userVars
<1>13. CASE HeadGetHeight \/ HeadWait \/ HeadSleep
  BY <1>4, <1>13 DEF HeadGetHeight, HeadWait, HeadSleep, userVars
<1> QED
  BY <1>5, <1>6, <1>7, <1>8, <1>9, <1>10, <1>11, <1>12, <1>13
  DEF Next, TaskStep, BulkStep, HeadStep, UserStep

\* The task stops at an error or at the end of the range.
LEMMA EndStep ==
    ASSUME TypeOK, ShapeInv, EndInv, [Next]_vars
    PROVE  EndInv'
<1> DEFINE Stopped == \/ channel # <<>> /\ ~channel[1].ok
                      \/ channel = <<>> /\ Errored
                      \/ StopOnHead
                      \/ original_to_block = fromBlock
<1>1. ended => pc = "done" /\ channel = <<>> /\ ~closed
  BY DEF EndInv
<1>2. pc = "done" /\ ~closed => Stopped
  BY DEF EndInv
<1>3. CASE UNCHANGED <<pc, channel, closed, delivered, fromBlock>>
           /\ (ended' => ended \/ (pc = "done" /\ channel = <<>> /\ ~closed))
  <2>1. Stopped' <=> Stopped
    BY <1>3 DEF Errored, original_to_block
  <2> QED
    BY <1>1, <1>2, <1>3, <2>1 DEF EndInv
<1>4. CASE pc # "done" /\ pc' # "done" /\ UNCHANGED ended
  BY <1>1, <1>4 DEF EndInv
<1>5. CASE closed' /\ ~ended /\ UNCHANGED ended
  BY <1>5 DEF EndInv
<1>6. CASE RecvEnd
  <2>1. UNCHANGED <<ended, closed, fromBlock>> /\ ~ended
    BY <1>1, <1>6 DEF RecvEnd, userVars
  <2>2. pc' = "done" => Stopped'
    BY <1>6, <2>1 DEF RecvEnd, original_to_block
  <2> QED
    BY <2>1, <2>2 DEF EndInv
<1>7. CASE SendBulk
  <2>1. ~ended /\ UNCHANGED <<ended, closed>>
    BY <1>1, <1>7 DEF SendBulk
  <2> QED
    BY <1>4, <1>5, <1>7, <2>1 DEF SendBulk, Send
<1>8. CASE SendErr
  <2>1. ~ended /\ UNCHANGED <<ended, closed>>
    BY <1>1, <1>8 DEF SendErr
  <2>2. CASE ~closed
    <3>1. channel' = <<Failure(fromBlock)>>
      BY <1>8, <2>2 DEF SendErr, Send, ShapeInv
    <3>2. channel' # <<>> /\ channel'[1] = Failure(fromBlock)
      BY <3>1
    <3>3. Stopped'
      BY <3>2, ItemFacts DEF TypeOK
    <3> QED
      BY <2>1, <3>3 DEF EndInv
  <2> QED
    BY <1>5, <2>1, <2>2
<1>9. CASE HeadSend
  <2>1. ~ended /\ UNCHANGED <<ended, closed>>
    BY <1>1, <1>9 DEF HeadSend
  <2>2. CASE ~closed
    <3>1. fromBlock' = pending[1].next
          /\ (pc' = "done" => original_to_block = pending[1].next)
      BY <1>9, <2>2 DEF HeadSend, Send
    <3>2. pc' = "done" => Stopped'
      BY <3>1 DEF original_to_block
    <3> QED
      BY <2>1, <3>2 DEF EndInv
  <2> QED
    BY <1>5, <2>1, <2>2
<1>10. CASE Receive
  <2>1. /\ ~closed /\ channel # <<>> /\ ~ended
        /\ delivered' = Append(delivered, Head(channel))
        /\ channel' = Tail(channel)
        /\ UNCHANGED <<pc, fromBlock, closed, ended>>
    BY <1>1, <1>10 DEF Receive, taskVars
  <2>2. channel \in Seq(Item) /\ delivered \in Seq(Item) /\ Len(channel) = 1
    <3>1. channel \in Seq(Item) /\ delivered \in Seq(Item)
      BY DEF TypeOK
    <3>2. Len(channel) \in Nat \ {0}
      BY <2>1, <3>1, EmptySeq
    <3>3. Len(channel) <= 1
      BY DEF ShapeInv
    <3>4. \A n \in Nat \ {0} : n <= 1 => n = 1
      OBVIOUS
    <3>5. Len(channel) = 1
      BY <3>2, <3>3, <3>4
    <3> QED
      BY <3>1, <3>5
  <2>3. Tail(channel) = <<>> /\ Head(channel) = channel[1] /\ Head(channel) \in Item
    BY <2>2, Singletons
  <2>4. delivered' # <<>> /\ delivered'[Len(delivered')] = channel[1]
    BY <2>1, <2>2, <2>3
  <2>5. ~channel[1].ok => Errored'
    BY <2>4 DEF Errored
  <2>6. pc = "done" => Stopped'
    BY <1>2, <2>1, <2>3, <2>5 DEF original_to_block
  <2> QED
    BY <2>1, <2>6 DEF EndInv
<1>11. CASE Close
  BY <1>5, <1>11 DEF Close
<1>12. CASE ChainStep \/ ClientStep \/ ReceiveEnd \/ Over \/ UNCHANGED vars
  BY <1>3, <1>12
  DEF ChainStep, Grow, Reorg, ClientStep, ClientFetch, ClientFail, ClientClose,
      ReceiveEnd, Over, vars, taskVars, userVars
<1>13. CASE StartStep \/ RecvOk \/ RecvErr
  BY <1>4, <1>13
  DEF StartStep, StartFail, GetChainId, GetHeight, StreamArrow, RecvOk, RecvErr,
      userVars
<1>14. CASE HeadGetHeight \/ HeadWait \/ HeadSleep \/ HeadRequest \/ HeadErr
  BY <1>4, <1>14
  DEF HeadGetHeight, HeadWait, HeadSleep, HeadRequest, HeadErr, userVars
<1> QED
  BY <1>6, <1>7, <1>8, <1>9, <1>10, <1>11, <1>12, <1>13, <1>14
  DEF Next, TaskStep, BulkStep, HeadStep, UserStep

-----------------------------------------------------------------------------
\* The initial states satisfy the inductive invariant.
LEMMA InitInv == Init => InductiveInv
<1> SUFFICES ASSUME Init
             PROVE  InductiveInv
  OBVIOUS
<1> USE DEF Init
<1>1. /\ height \in Nat /\ Depth \in Nat /\ From \in Nat
      /\ 0 \in Epochs /\ MaxHeight \in Nat
  BY BoundAssumption, OffsetAssumption, RangeAssumption DEF Blocks, Epochs
<1>2. SaturatingSub(height, Depth) \in Nat /\ SaturatingSub(height, Depth) <= height
  BY <1>1, SaturatingSubFacts
<1>3. final \in Blocks /\ final <= height
  BY <1>1, <1>2 DEF Blocks
<1>4. TypeOK
  <2>1. chain \in [Blocks -> Epochs] /\ <<>> \in Seq(Item) /\ epoch \in Epochs
    BY <1>1
  <2> QED
    BY <1>1, <1>3, <2>1 DEF TypeOK
<1>5. ChainInv
  <2>1. SaturatingSub(0, Depth) = 0
    BY <1>1 DEF SaturatingSub
  <2> QED
    BY <1>1, <1>2, <1>3, <2>1 DEF ChainInv
<1>6. SettledInv
  BY SettledEmpty DEF SettledInv
<1>7. ShapeInv
  BY DEF ShapeInv
<1>8. InboxInv /\ QueueInv /\ EndInv
  BY Singletons DEF InboxInv, QueueInv, EndInv, Position, Sent
<1> QED
  BY <1>4, <1>5, <1>6, <1>7, <1>8 DEF InductiveInv

\* The invariant behind all of the provider's safety properties holds in every
\* state of start_stream, its task and chain_head_stream, whatever the chain,
\* the server and the consumer do.
THEOREM Inductive == Spec => []InductiveInv
<1>1. Init => InductiveInv
  BY InitInv
<1>2. InductiveInv /\ [Next]_vars => InductiveInv'
  BY TypeStep, ChainStepInv, SettledStep, ShapeStep, InboxStep, QueueStep, EndStep
  DEF InductiveInv
<1> QED
  BY <1>1, <1>2, PTL DEF Spec

\* Every variable keeps its type.
THEOREM TypeCorrect == Spec => []TypeOK
<1>1. InductiveInv => TypeOK
  BY DEF InductiveInv
<1> QED
  BY <1>1, Inductive, PTL

\* For every query, offset, chain and cut into responses, the caller gets the
\* blocks from from_block on exactly once and in order.
THEOREM ContiguousDelivery == Spec => []Contiguous
<1>1. InductiveInv => Contiguous
  BY DEF InductiveInv, QueueInv, Contiguous
<1> QED
  BY <1>1, Inductive, PTL

\* As long as no reorganisation is deeper than the rollback offset, no block
\* that reached the caller is ever abandoned by the chain.
THEOREM ReorgSafety == Spec => []ReorgSafe
<1>1. ASSUME InductiveInv
      PROVE  ReorgSafe
  <2>1. height \in Nat /\ final \in Nat /\ final <= height
    BY <1>1, StateFacts DEF InductiveInv, ChainInv
  <2>2. \A i \in 1..Len(delivered) : \A b \in Blocks :
           Covered(delivered[i], b) => b <= final /\ delivered[i].seen[b] = chain[b]
    BY <1>1 DEF InductiveInv, SettledInv, Settled, SettledItem
  <2>3. \A b \in Blocks : b <= final => b <= height
    BY <2>1, BoundAssumption DEF Blocks
  <2> QED
    BY <2>2, <2>3 DEF ReorgSafe
<1> QED
  BY <1>1, Inductive, PTL

\* A stream that ends without an error has delivered the whole range asked for.
THEOREM Completeness == Spec => []Complete
<1>1. ASSUME InductiveInv
      PROVE  Complete
  <2>1. SUFFICES ASSUME ended, ~Errored, ~StopOnHead
                 PROVE  ToBlock # None /\ Position = ToBlock + 1
    BY DEF Complete
  <2>2. pc = "done" /\ channel = <<>> /\ ~closed
    BY <1>1, <2>1 DEF InductiveInv, EndInv
  <2>3. original_to_block = fromBlock
    BY <1>1, <2>1, <2>2 DEF InductiveInv, EndInv
  <2>4. fromBlock = Position
    BY <1>1, <2>2, Singletons DEF InductiveInv, QueueInv, Sent
  <2>5. Position \in Nat
    BY <1>1, StateFacts DEF InductiveInv
  <2> QED
    BY <2>3, <2>4, <2>5, NoneAssumption DEF original_to_block
<1> QED
  BY <1>1, Inductive, PTL

-----------------------------------------------------------------------------
\* What the invariant above leaves open: where items end,
\* that an error is the last item, and what the bulk phase covered.

\* A response ends where the chain can, an error covers nothing, and neither
\* goes beyond the range asked for.
Fits(item) ==
    /\ item.ok => item.next <= MaxHeight + 1
    /\ ~item.ok => item.next = item.from
    /\ ToBlock # None => item.next <= ToBlock + 1

AllFit(s) == \A i \in 1..Len(s) : Fits(s[i])

\* Every request, and so every item, stays within the chain and the range.
RangeInv ==
    /\ AllFit(inbox) /\ AllFit(pending) /\ AllFit(channel)
    /\ ToBlock # None => /\ fromBlock <= ToBlock + 1
                         /\ cursor <= ToBlock + 1
                         /\ reqTo <= ToBlock + 1
    /\ seenHeight <= MaxHeight
    /\ pc = "head_request" => fromBlock <= MaxHeight

\* Before start_stream returns there is no stream, and afterwards the task
\* sends nothing after an error.
ErrorInv ==
    /\ ~Started => ~closed /\ ~ended /\ delivered = <<>> /\ channel = <<>>
    /\ \A i \in 1..Len(inbox) : inbox[i].ok
    /\ pc \in {"send", "head_send"} => pending[1].ok
    /\ ~closed =>
          /\ Errored => pc = "done" /\ channel = <<>>
          /\ channel # <<>> /\ ~channel[1].ok => pc = "done"

\* With stop_on_head the height is read once, the task never leaves the bulk
\* phase, and it ends where the client got to.
StopInv ==
    StopOnHead =>
        /\ pc \notin {"head_height", "head_wait", "head_sleep", "head_request",
                      "head_send"}
        /\ pc \notin {"chain_id", "height", "failed"} =>
              reqTo = make_to_block(original_to_block, seenHeight)
        /\ pc = "done" /\ ~closed =>
              \/ channel # <<>> /\ ~channel[1].ok
              \/ channel = <<>> /\ Errored
              \/ client = "closed" /\ cursor = fromBlock

PromiseInv == RangeInv /\ ErrorInv /\ StopInv

-----------------------------------------------------------------------------
\* Facts about requests and sequences of items.

\* The end of the range asked for, exclusive, and the constants in numbers.
LEMMA RangeFacts ==
    /\ From \in Nat /\ MaxHeight \in Nat /\ Offset \in Nat
    /\ ToBlock # None => /\ ToBlock \in Nat /\ From <= ToBlock + 1
                         /\ original_to_block = ToBlock + 1
                         /\ original_to_block # None
    /\ ToBlock = None => original_to_block = None
BY RangeAssumption, BoundAssumption, OffsetAssumption, NoneAssumption
DEF original_to_block

\* make_to_block stays within the range asked for.
LEMMA RequestInRange ==
    ASSUME NEW h \in Nat
    PROVE  ToBlock # None => make_to_block(original_to_block, h) <= ToBlock + 1
<1>1. SaturatingSub(h, Offset) \in Nat
  BY RangeFacts DEF SaturatingSub
<1> QED
  BY <1>1, RangeFacts DEF make_to_block, make_rollback_offset, Smaller

\* A response ends within what was requested and within the chain, unless it is
\* empty.
LEMMA ResponseEnds ==
    ASSUME TypeOK, NEW from \in Nat, NEW to \in Nat, from <= MaxHeight,
           NEW next \in NextBlocks(from, to)
    PROVE  /\ next \in Nat
           /\ next <= MaxHeight + 1
           /\ next <= to \/ next = from
<1>1. height \in Nat /\ height <= MaxHeight /\ MaxHeight \in Nat
  BY BoundAssumption DEF TypeOK, Blocks
<1> QED
  BY <1>1 DEF NextBlocks, Smaller

\* A response to a request within the range fits, and is not an error.
LEMMA ResponseFits ==
    ASSUME TypeOK, NEW from \in Nat, from <= MaxHeight,
           NEW next \in NextBlocks(from, reqTo),
           ToBlock # None => from <= ToBlock + 1 /\ reqTo <= ToBlock + 1
    PROVE  /\ Response(from, next) \in Item
           /\ Response(from, next).ok
           /\ Response(from, next).next = next
           /\ Fits(Response(from, next))
           /\ ToBlock # None => next <= ToBlock + 1
<1>1. reqTo \in Nat
  BY DEF TypeOK
<1>2. next \in Nat /\ next <= MaxHeight + 1 /\ (next <= reqTo \/ next = from)
  BY <1>1, ResponseEnds
<1>3. ToBlock # None => next <= ToBlock + 1
  BY <1>1, <1>2, RangeFacts
<1>4. Response(from, next) \in Item /\ Response(from, next).next = next
  BY <1>2, ItemFacts
<1>5. Response(from, next).ok
  BY DEF Response
<1> QED
  BY <1>2, <1>3, <1>4, <1>5 DEF Fits

\* An error fits wherever from_block is.
LEMMA FailureFits ==
    ASSUME TypeOK, NEW at \in Nat, ToBlock # None => at <= ToBlock + 1
    PROVE  Fits(Failure(at))
BY ItemFacts DEF Fits

\* A sequence that fits, and one more item that does.
LEMMA AllFitAppend ==
    ASSUME NEW s \in Seq(Item), NEW e \in Item, AllFit(s), Fits(e)
    PROVE  AllFit(Append(s, e))
<1> DEFINE t == Append(s, e)
<1>1. Len(t) = Len(s) + 1 /\ t[Len(s) + 1] = e /\ Len(s) \in Nat
  OBVIOUS
<1>2. \A i \in 1..Len(s) : t[i] = s[i]
  OBVIOUS
<1>3. \A i \in 1..Len(t) : i \in 1..Len(s) \/ t[i] = e
  BY <1>1
<1> HIDE DEF t
<1>4. \A i \in 1..Len(t) : Fits(t[i])
  BY <1>2, <1>3 DEF AllFit
<1> QED
  BY <1>4 DEF AllFit, t

\* The first item of a sequence that fits, and the others.
LEMMA AllFitTail ==
    ASSUME NEW s \in Seq(Item), s # <<>>, AllFit(s)
    PROVE  AllFit(Tail(s)) /\ Fits(Head(s)) /\ Head(s) \in Item
<1>1. Len(s) \in Nat \ {0} /\ Head(s) = s[1] /\ 1 \in 1..Len(s)
  BY EmptySeq
<1>2. /\ Tail(s) \in Seq(Item)
      /\ Len(Tail(s)) = Len(s) - 1
      /\ \A i \in 1..Len(Tail(s)) : Tail(s)[i] = s[i + 1]
  BY HeadTailProperties
<1>3. \A i \in 1..Len(Tail(s)) : i + 1 \in 1..Len(s)
  BY <1>1, <1>2
<1> QED
  BY <1>1, <1>2, <1>3 DEF AllFit

\* No item, and a single one.
LEMMA AllFitOne ==
    /\ AllFit(<<>>)
    /\ \A e : Fits(e) => AllFit(<<e>>)
BY DEF AllFit

\* What the consumer takes is the only item queued.
LEMMA ReceiveFacts ==
    ASSUME TypeOK, ShapeInv, Receive
    PROVE  /\ Len(channel) = 1
           /\ Head(channel) = channel[1] /\ channel[1] \in Item
           /\ channel' = <<>>
           /\ delivered' = Append(delivered, channel[1])
           /\ delivered' # <<>> /\ delivered'[Len(delivered')] = channel[1]
<1>1. channel \in Seq(Item) /\ delivered \in Seq(Item)
  BY DEF TypeOK
<1>2. /\ channel # <<>> /\ channel' = Tail(channel)
      /\ delivered' = Append(delivered, Head(channel))
  BY DEF Receive
<1>3. Len(channel) \in Nat \ {0}
  BY <1>1, <1>2, EmptySeq
<1>4. Len(channel) <= 1
  BY DEF ShapeInv
<1>5. \A n \in Nat \ {0} : n <= 1 => n = 1
  OBVIOUS
<1>6. Len(channel) = 1
  BY <1>3, <1>4, <1>5
<1>7. Tail(channel) = <<>> /\ Head(channel) = channel[1] /\ channel[1] \in Item
  BY <1>1, <1>6, Singletons
<1>8. delivered' # <<>> /\ delivered'[Len(delivered')] = channel[1]
  BY <1>1, <1>2, <1>7
<1> QED
  BY <1>2, <1>6, <1>7, <1>8

-----------------------------------------------------------------------------
\* Preservation, one part at a time.

\* No request and no item leaves the range or the chain.
LEMMA RangeStep ==
    ASSUME TypeOK, TypeOK', ShapeInv, RangeInv, [Next]_vars
    PROVE  RangeInv'
<1>0. /\ height \in Nat /\ height <= MaxHeight /\ MaxHeight \in Nat
      /\ fromBlock \in Nat /\ cursor \in Nat /\ reqTo \in Nat /\ seenHeight \in Nat
      /\ inbox \in Seq(Item) /\ pending \in Seq(Item) /\ channel \in Seq(Item)
  BY BoundAssumption DEF TypeOK, Blocks
<1>1. /\ AllFit(inbox) /\ AllFit(pending) /\ AllFit(channel)
      /\ ToBlock # None => /\ fromBlock <= ToBlock + 1
                           /\ cursor <= ToBlock + 1
                           /\ reqTo <= ToBlock + 1
      /\ seenHeight <= MaxHeight
      /\ pc = "head_request" => fromBlock <= MaxHeight
  BY DEF RangeInv
<1>2. CASE ClientFetch
  <2>1. PICK next \in NextBlocks(cursor, reqTo) :
           inbox' = Append(inbox, Response(cursor, next)) /\ cursor' = next
    BY <1>2 DEF ClientFetch
  <2>2. cursor <= MaxHeight
    BY <1>0, <1>2 DEF ClientFetch
  <2>3. /\ Response(cursor, next) \in Item /\ Fits(Response(cursor, next))
        /\ ToBlock # None => next <= ToBlock + 1
    BY <1>0, <1>1, <2>2, ResponseFits
  <2>4. AllFit(inbox')
    BY <1>0, <1>1, <2>1, <2>3, AllFitAppend
  <2>5. UNCHANGED <<pending, channel, fromBlock, reqTo, seenHeight, pc>>
    BY <1>2 DEF ClientFetch, taskVars, userVars
  <2> QED
    BY <1>1, <2>1, <2>3, <2>4, <2>5 DEF RangeInv, AllFit
<1>3. CASE GetHeight \/ HeadGetHeight
  <2>1. /\ seenHeight' = height
        /\ UNCHANGED <<inbox, pending, channel, fromBlock, cursor>>
        /\ reqTo' = reqTo \/ reqTo' = make_to_block(original_to_block, height)
        /\ pc' # "head_request"
    BY <1>3 DEF GetHeight, HeadGetHeight, clientVars, userVars
  <2>2. ToBlock # None => reqTo' <= ToBlock + 1
    BY <1>0, <1>1, <2>1, RequestInRange
  <2> QED
    BY <1>0, <1>1, <2>1, <2>2 DEF RangeInv, AllFit
<1>4. CASE HeadWait
  <2>1. UNCHANGED <<inbox, pending, channel, fromBlock, cursor, seenHeight>>
    BY <1>4 DEF HeadWait, clientVars, userVars
  <2>2. ToBlock # None => reqTo' <= ToBlock + 1
    BY <1>0, <1>1, <1>4, RequestInRange DEF HeadWait
  <2>3. pc' = "head_request" => fromBlock <= MaxHeight
    <3>1. SaturatingSub(seenHeight, Offset) \in Nat
          /\ SaturatingSub(seenHeight, Offset) <= seenHeight
      BY <1>0, RangeFacts DEF SaturatingSub
    <3>2. pc' = "head_request" => SaturatingSub(seenHeight, Offset) >= fromBlock
      BY <1>4 DEF HeadWait, make_rollback_offset
    <3> QED
      BY <1>0, <1>1, <3>1, <3>2
  <2> QED
    BY <1>1, <2>1, <2>2, <2>3 DEF RangeInv, AllFit
<1>5. CASE HeadRequest
  <2>1. PICK next \in NextBlocks(fromBlock, reqTo) :
           pending' = <<Response(fromBlock, next)>>
    BY <1>5 DEF HeadRequest
  <2>2. Fits(Response(fromBlock, next))
    BY <1>0, <1>1, <1>5, ResponseFits DEF HeadRequest
  <2>3. AllFit(pending')
    BY <2>1, <2>2, AllFitOne
  <2>4. /\ UNCHANGED <<inbox, channel, fromBlock, cursor, reqTo>>
        /\ seenHeight' \in {0, height} /\ pc' # "head_request"
    BY <1>5 DEF HeadRequest, clientVars, userVars
  <2> QED
    BY <1>0, <1>1, <2>3, <2>4 DEF RangeInv, AllFit
<1>6. CASE RecvOk
  <2>1. /\ AllFit(Tail(inbox)) /\ Fits(Head(inbox)) /\ Head(inbox) \in Item
    BY <1>0, <1>1, <1>6, AllFitTail DEF RecvOk
  <2>2. AllFit(<<Head(inbox)>>)
    BY <2>1, AllFitOne
  <2>3. ToBlock # None => Head(inbox).next <= ToBlock + 1
    BY <2>1 DEF Fits
  <2>4. /\ inbox' = Tail(inbox) /\ pending' = <<Head(inbox)>>
        /\ fromBlock' = Head(inbox).next /\ pc' # "head_request"
        /\ UNCHANGED <<channel, cursor, reqTo, seenHeight>>
    BY <1>6 DEF RecvOk, userVars
  <2> QED
    BY <1>1, <2>1, <2>2, <2>3, <2>4 DEF RangeInv, AllFit
<1>7. CASE RecvErr \/ HeadErr
  <2>1. /\ inbox' = inbox \/ (inbox # <<>> /\ inbox' = Tail(inbox))
        /\ pending' = <<Failure(fromBlock)>> /\ pc' # "head_request"
        /\ UNCHANGED <<channel, cursor, fromBlock, reqTo, seenHeight>>
    BY <1>7 DEF RecvErr, HeadErr, clientVars, userVars
  <2>2. AllFit(inbox')
    BY <1>0, <1>1, <2>1, AllFitTail
  <2>3. AllFit(pending')
    BY <1>0, <1>1, <2>1, FailureFits, AllFitOne
  <2> QED
    BY <1>1, <2>1, <2>2, <2>3 DEF RangeInv, AllFit
<1>8. CASE SendBulk \/ SendErr \/ HeadSend
  <2>1. /\ pending' = <<>> /\ pc' # "head_request"
        /\ channel' = pending \/ channel' = channel
        /\ inbox' = inbox \/ inbox' = <<>>
        /\ UNCHANGED <<cursor, reqTo, seenHeight>>
        /\ fromBlock' = fromBlock \/ (HeadSend /\ fromBlock' = pending[1].next)
    BY <1>8 DEF SendBulk, SendErr, HeadSend, Send, DropClient, clientVars
  <2>2. AllFit(pending') /\ AllFit(channel') /\ AllFit(inbox')
    BY <1>1, <2>1, AllFitOne
  <2>3. ToBlock # None => fromBlock' <= ToBlock + 1
    <3>1. HeadSend => 1 \in 1..Len(pending)
      BY DEF HeadSend, ShapeInv
    <3>2. HeadSend /\ ToBlock # None => pending[1].next <= ToBlock + 1
      BY <1>1, <3>1 DEF AllFit, Fits
    <3> QED
      BY <1>1, <2>1, <3>2
  <2> QED
    BY <1>1, <2>1, <2>2, <2>3 DEF RangeInv
<1>9. CASE Receive
  <2>1. AllFit(channel')
    BY <1>0, <1>1, <1>9, AllFitTail DEF Receive
  <2>2. UNCHANGED <<inbox, pending, cursor, fromBlock, reqTo, seenHeight, pc>>
    BY <1>9 DEF Receive, clientVars, taskVars
  <2> QED
    BY <1>1, <2>1, <2>2 DEF RangeInv, AllFit
<1>10. CASE Close
  <2>1. AllFit(channel')
    BY <1>10, AllFitOne DEF Close
  <2>2. UNCHANGED <<inbox, pending, cursor, fromBlock, reqTo, seenHeight, pc>>
    BY <1>10 DEF Close, clientVars, taskVars
  <2> QED
    BY <1>1, <2>1, <2>2 DEF RangeInv, AllFit
<1>11. CASE StreamArrow
  BY <1>1, <1>11 DEF StreamArrow, RangeInv, AllFit, userVars
<1>12. CASE /\ UNCHANGED <<inbox, pending, channel, cursor, fromBlock, reqTo,
                           seenHeight>>
            /\ pc' = "head_request" => pc = "head_request"
  BY <1>1, <1>12 DEF RangeInv, AllFit
<1>13. CASE ChainStep \/ ClientFail \/ ClientClose \/ ReceiveEnd \/ Over
            \/ UNCHANGED vars
  BY <1>12, <1>13
  DEF ChainStep, Grow, Reorg, ClientFail, ClientClose, ReceiveEnd, Over, vars,
      clientVars, taskVars, userVars
<1>14. CASE StartFail \/ GetChainId \/ RecvEnd \/ HeadSleep
  BY <1>12, <1>14
  DEF StartFail, GetChainId, RecvEnd, HeadSleep, clientVars, userVars
<1> QED
  BY <1>2, <1>3, <1>4, <1>5, <1>6, <1>7, <1>8, <1>9, <1>10, <1>11, <1>13, <1>14
  DEF Next, ClientStep, TaskStep, StartStep, BulkStep, HeadStep, UserStep

\* Nothing reaches the caller before start_stream returns or after an error.
LEMMA ErrorStep ==
    ASSUME TypeOK, TypeOK', ShapeInv, EndInv, ErrorInv, [Next]_vars
    PROVE  ErrorInv'
<1>0. /\ inbox \in Seq(Item) /\ pending \in Seq(Item) /\ channel \in Seq(Item)
      /\ delivered \in Seq(Item) /\ inbox' \in Seq(Item)
      /\ fromBlock \in Nat /\ cursor \in Nat
  BY DEF TypeOK
<1> DEFINE AllOk(s) == \A i \in 1..Len(s) : s[i].ok
           Last == ~closed =>
                      /\ Errored => pc = "done" /\ channel = <<>>
                      /\ channel # <<>> /\ ~channel[1].ok => pc = "done"
           NoStream == ~closed /\ ~ended /\ delivered = <<>> /\ channel = <<>>
           NoError == pc \in {"send", "head_send"} => pending[1].ok
<1>1. AllOk(inbox) /\ NoError /\ Last /\ (~Started => NoStream)
  BY DEF ErrorInv
<1>2. SUFFICES AllOk(inbox') /\ NoError' /\ Last' /\ (~Started' => NoStream')
  BY DEF ErrorInv
<1>3. AllOk(inbox')
  <2>1. CASE ClientFetch
    <3>1. PICK next \in NextBlocks(cursor, reqTo) :
             inbox' = Append(inbox, Response(cursor, next))
      BY <2>1 DEF ClientFetch
    <3>2. Response(cursor, next).ok
      BY DEF Response
    <3>3. /\ Len(inbox') = Len(inbox) + 1 /\ inbox'[Len(inbox) + 1] = Response(cursor, next)
          /\ \A i \in 1..Len(inbox) : inbox'[i] = inbox[i]
          /\ Len(inbox) \in Nat
      BY <1>0, <3>1
    <3> QED
      BY <1>1, <3>2, <3>3
  <2>2. CASE inbox # <<>> /\ inbox' = Tail(inbox)
    <3>1. /\ Len(Tail(inbox)) = Len(inbox) - 1
          /\ \A i \in 1..Len(Tail(inbox)) : Tail(inbox)[i] = inbox[i + 1]
          /\ Len(inbox) \in Nat
      BY <1>0, <2>2, HeadTailProperties
    <3>2. \A i \in 1..Len(Tail(inbox)) : i + 1 \in 1..Len(inbox)
      BY <3>1
    <3> QED
      BY <1>1, <2>2, <3>1, <3>2
  <2>3. CASE inbox' = <<>>
    BY <2>3
  <2>4. CASE inbox' = inbox
    BY <1>1, <2>4
  <2>5. \/ ClientFetch
        \/ inbox # <<>> /\ inbox' = Tail(inbox)
        \/ inbox' = <<>>
        \/ inbox' = inbox
    BY DEF Next, ChainStep, Grow, Reorg, ClientStep, ClientFail, ClientClose,
           TaskStep, StartStep, StartFail, GetChainId, GetHeight, StreamArrow,
           BulkStep, RecvOk, RecvErr, RecvEnd, SendBulk, SendErr, DropClient,
           HeadStep, HeadGetHeight, HeadWait, HeadSleep, HeadRequest, HeadErr,
           HeadSend, UserStep, Receive, ReceiveEnd, Close, Over, vars, clientVars
  <2> QED
    BY <2>1, <2>2, <2>3, <2>4, <2>5
<1>4. CASE /\ UNCHANGED <<pending, channel, closed, delivered, ended>>
           /\ pc' = pc
  BY <1>1, <1>3, <1>4 DEF Errored, Started
<1>5. CASE StartStep
  <2>1. /\ UNCHANGED <<channel, closed, delivered, ended>>
        /\ ~Started /\ pc' \notin {"send", "head_send"}
    BY <1>5 DEF StartStep, StartFail, GetChainId, GetHeight, StreamArrow,
                Started, userVars
  <2> QED
    BY <1>1, <1>3, <2>1 DEF Errored
<1>6. CASE RecvOk
  <2>1. /\ UNCHANGED <<channel, closed, delivered, ended>>
        /\ pc = "recv" /\ pc' = "send" /\ inbox # <<>> /\ pending' = <<Head(inbox)>>
    BY <1>6 DEF RecvOk, userVars
  <2>2. Head(inbox) = inbox[1] /\ 1 \in 1..Len(inbox)
    BY <1>0, <2>1, EmptySeq
  <2>3. pending'[1] = inbox[1] /\ inbox[1].ok
    BY <1>1, <2>1, <2>2
  <2>4. Last' /\ Started'
    BY <1>1, <2>1 DEF Errored, Started
  <2> QED
    BY <1>3, <2>3, <2>4
<1>7. CASE RecvErr \/ RecvEnd \/ HeadGetHeight \/ HeadWait \/ HeadSleep \/ HeadErr
  <2>1. /\ UNCHANGED <<channel, closed, delivered, ended>>
        /\ pc # "done" /\ Started' /\ pc' \notin {"send", "head_send"}
    BY <1>7 DEF RecvErr, RecvEnd, HeadGetHeight, HeadWait, HeadSleep, HeadErr,
                Started, userVars
  <2> QED
    BY <1>1, <1>3, <2>1 DEF Errored
<1>8. CASE HeadRequest
  <2>1. PICK next \in NextBlocks(fromBlock, reqTo) :
           pending' = <<Response(fromBlock, next)>>
    BY <1>8 DEF HeadRequest
  <2>2. pending'[1].ok
    BY <2>1 DEF Response
  <2>3. /\ UNCHANGED <<channel, closed, delivered, ended>>
        /\ pc # "done" /\ Started'
    BY <1>8 DEF HeadRequest, Started, userVars
  <2> QED
    BY <1>1, <1>3, <2>2, <2>3 DEF Errored
<1>9. CASE SendBulk \/ HeadSend
  <2>1. /\ UNCHANGED <<closed, delivered, ended>> /\ Started'
        /\ pc # "done" /\ pc' \notin {"send", "head_send"} /\ pending[1].ok
        /\ ~closed => channel' = pending
    BY <1>1, <1>9 DEF SendBulk, HeadSend, Send, Started
  <2> QED
    BY <1>1, <1>3, <2>1 DEF Errored
<1>10. CASE SendErr
  <2>1. /\ UNCHANGED <<closed, delivered, ended>> /\ pc = "send_err" /\ pc' = "done"
    BY <1>10 DEF SendErr, Send
  <2> QED
    BY <1>1, <1>3, <2>1 DEF Errored, Started
<1>11. CASE Receive
  <2>1. ~closed /\ channel # <<>> /\ UNCHANGED <<closed, pending, pc, ended>>
    BY <1>11 DEF Receive, taskVars
  <2>2. channel' = <<>> /\ delivered'[Len(delivered')] = channel[1]
    BY <1>11, ReceiveFacts
  <2>3. Started
    BY <1>1, <2>1
  <2> QED
    BY <1>1, <1>3, <2>1, <2>2, <2>3 DEF Errored, Started
<1>12. CASE ReceiveEnd
  <2>1. /\ UNCHANGED <<closed, pending, pc, channel, delivered>> /\ pc = "done"
    BY <1>12 DEF ReceiveEnd, taskVars
  <2> QED
    BY <1>1, <1>3, <2>1 DEF Errored, Started
<1>13. CASE Close
  BY <1>1, <1>3, <1>13 DEF Close, taskVars, Started
<1>14. CASE ChainStep \/ ClientStep \/ Over \/ UNCHANGED vars
  BY <1>4, <1>14
  DEF ChainStep, Grow, Reorg, ClientStep, ClientFetch, ClientFail, ClientClose,
      Over, vars, taskVars, userVars
<1> QED
  BY <1>5, <1>6, <1>7, <1>8, <1>9, <1>10, <1>11, <1>12, <1>13, <1>14
  DEF Next, TaskStep, BulkStep, HeadStep, UserStep

\* With stop_on_head the task returns to a listening caller with an error or where
\* the client stopped.
LEMMA StopStep ==
    ASSUME TypeOK, ShapeInv, InboxInv, StopInv, [Next]_vars
    PROVE  StopInv'
<1> SUFFICES ASSUME StopOnHead
             PROVE  StopInv'
  BY DEF StopInv
<1> DEFINE Bound == make_to_block(original_to_block, seenHeight)
           Stopped == \/ channel # <<>> /\ ~channel[1].ok
                      \/ channel = <<>> /\ Errored
                      \/ client = "closed" /\ cursor = fromBlock
           Bulk == pc \notin {"head_height", "head_wait", "head_sleep",
                              "head_request", "head_send"}
<1>1. /\ Bulk
      /\ pc \notin {"chain_id", "height", "failed"} => reqTo = Bound
      /\ pc = "done" /\ ~closed => Stopped
  BY DEF StopInv
<1>2. SUFFICES /\ Bulk'
               /\ pc' \notin {"chain_id", "height", "failed"} => reqTo' = Bound'
               /\ pc' = "done" /\ ~closed' => Stopped'
  BY DEF StopInv
<1>3. seenHeight' = seenHeight => Bound' = Bound
  BY DEF make_to_block, original_to_block
<1>4. CASE HeadStep
  BY <1>1, <1>4 DEF HeadStep, HeadGetHeight, HeadWait, HeadSleep, HeadRequest,
                    HeadErr, HeadSend
<1>5. CASE GetHeight
  <2>1. /\ pc' = "stream" /\ seenHeight' = height
        /\ reqTo' = make_to_block(original_to_block, height)
    BY <1>5 DEF GetHeight
  <2> QED
    BY <2>1 DEF make_to_block, original_to_block
<1>6. CASE StartFail \/ GetChainId
  BY <1>6 DEF StartFail, GetChainId
<1>7. CASE StreamArrow
  <2>1. /\ pc = "stream" /\ pc' = "recv" /\ client' = "open"
        /\ UNCHANGED <<reqTo, seenHeight>>
    BY <1>7 DEF StreamArrow
  <2> QED
    BY <1>1, <1>3, <2>1
<1>8. CASE ClientClose
  <2>1. /\ client' = "closed"
        /\ UNCHANGED <<cursor, reqTo, seenHeight, pc, channel, closed, delivered,
                       fromBlock>>
    BY <1>8 DEF ClientClose, taskVars, userVars
  <2> QED
    BY <1>1, <1>3, <2>1 DEF Errored
<1>9. CASE RecvOk \/ RecvErr
  <2>1. /\ pc = "recv" /\ pc' \in {"send", "send_err"}
        /\ UNCHANGED <<client, cursor, reqTo, seenHeight>>
    BY <1>9 DEF RecvOk, RecvErr
  <2> QED
    BY <1>1, <1>3, <2>1
<1>10. CASE RecvEnd
  <2>1. /\ pc = "recv" /\ pc' = "done" /\ inbox = <<>> /\ client = "closed"
        /\ UNCHANGED <<client, cursor, reqTo, seenHeight, fromBlock>>
    BY <1>10 DEF RecvEnd, clientVars
  <2>2. cursor = fromBlock
    BY <2>1, Singletons DEF InboxInv
  <2> QED
    BY <1>1, <1>3, <2>1, <2>2
<1>11. CASE SendBulk
  <2>1. /\ pc = "send" /\ UNCHANGED <<cursor, reqTo, seenHeight, closed>>
        /\ ~closed => pc' = "recv" /\ client' = client
        /\ closed => pc' = "done"
    BY <1>11 DEF SendBulk, Send
  <2> QED
    BY <1>1, <1>3, <2>1
<1>12. CASE SendErr
  <2>1. /\ pc = "send_err" /\ pc' = "done" /\ UNCHANGED <<reqTo, seenHeight, closed>>
        /\ ~closed => channel' = <<Failure(fromBlock)>>
    BY <1>12 DEF SendErr, Send, ShapeInv
  <2>2. ~Failure(fromBlock).ok
    BY DEF Failure
  <2>3. ~closed => channel' # <<>> /\ ~channel'[1].ok
    BY <2>1, <2>2
  <2> QED
    BY <1>1, <1>3, <2>1, <2>3
<1>13. CASE Receive
  <2>1. /\ ~closed /\ channel # <<>>
        /\ UNCHANGED <<closed, client, cursor, reqTo, seenHeight, fromBlock, pc>>
    BY <1>13 DEF Receive, taskVars, clientVars
  <2>2. /\ channel' = <<>>
        /\ delivered' # <<>> /\ delivered'[Len(delivered')] = channel[1]
    BY <1>13, ReceiveFacts
  <2>3. Stopped => Stopped'
    BY <2>1, <2>2 DEF Errored
  <2> QED
    BY <1>1, <1>3, <2>1, <2>3
<1>14. CASE Close
  BY <1>1, <1>3, <1>14 DEF Close, taskVars, clientVars
<1>15. CASE ClientFetch \/ ClientFail
  <2>1. /\ client # "closed"
        /\ UNCHANGED <<reqTo, seenHeight, pc, channel, closed, delivered, fromBlock>>
    BY <1>15 DEF ClientFetch, ClientFail, taskVars, userVars
  <2> QED
    BY <1>1, <1>3, <2>1 DEF Errored
<1>16. CASE ChainStep \/ ReceiveEnd \/ Over \/ UNCHANGED vars
  <2>1. UNCHANGED <<client, cursor, reqTo, seenHeight, pc, channel, closed,
                    delivered, fromBlock>>
    BY <1>16 DEF ChainStep, Grow, Reorg, ReceiveEnd, Over, vars, clientVars,
                 taskVars, userVars
  <2> QED
    BY <1>1, <1>3, <2>1 DEF Errored
<1> QED
  BY <1>4, <1>5, <1>6, <1>7, <1>8, <1>9, <1>10, <1>11, <1>12, <1>13, <1>14,
     <1>15, <1>16
  DEF Next, ClientStep, TaskStep, StartStep, BulkStep, UserStep

-----------------------------------------------------------------------------
\* The initial states satisfy the additional invariant.
LEMMA InitPromise == Init => PromiseInv
<1> SUFFICES ASSUME Init
             PROVE  PromiseInv
  OBVIOUS
<1>1. RangeInv
  BY AllFitOne, RangeFacts DEF Init, RangeInv
<1>2. ErrorInv
  BY DEF Init, ErrorInv, Errored
<1>3. StopInv
  BY DEF Init, StopInv
<1> QED
  BY <1>1, <1>2, <1>3 DEF PromiseInv

\* Items stay in range, errors come last, and stop_on_head stops with the client,
\* in every state of the provider.
THEOREM Promise == Spec => [](InductiveInv /\ PromiseInv)
<1>1. Init => PromiseInv
  BY InitPromise
<1>2. InductiveInv /\ InductiveInv' /\ PromiseInv /\ [Next]_vars => PromiseInv'
  BY RangeStep, ErrorStep, StopStep DEF InductiveInv, PromiseInv
<1> QED
  BY <1>1, <1>2, Inductive, PTL DEF Spec

\* The position of a caller who saw the end is where the task stopped.
LEMMA EndFacts ==
    ASSUME InductiveInv, pc = "done", channel = <<>>, ~closed
    PROVE  Position = fromBlock
BY Singletons DEF InductiveInv, QueueInv, Sent

\* With stop_on_head, a stream that ends without an error delivered every
\* requested block that was Offset below the height read at the start, unless the
\* client ended early, and none that was not asked for.
THEOREM CompletenessToHead == Spec => []CompleteToHead
<1>1. ASSUME InductiveInv, PromiseInv
      PROVE  CompleteToHead
  <2>1. SUFFICES ASSUME ended, ~Errored, StopOnHead
                 PROVE  /\ CutShort \/ \A b \in Blocks :
                              From <= b /\ (ToBlock = None \/ b <= ToBlock)
                                        /\ b + Offset <= seenHeight => b < Position
                        /\ ToBlock # None => Position <= ToBlock + 1
    BY DEF CompleteToHead
  <2>2. pc = "done" /\ channel = <<>> /\ ~closed
    BY <1>1, <2>1 DEF InductiveInv, EndInv
  <2>3. Position = fromBlock
    BY <1>1, <2>2, EndFacts
  <2>4. cursor = fromBlock /\ reqTo = make_to_block(original_to_block, seenHeight)
    BY <1>1, <2>1, <2>2 DEF PromiseInv, StopInv
  <2>5. fromBlock \in Nat /\ seenHeight \in Nat /\ reqTo \in Nat
    BY <1>1 DEF InductiveInv, TypeOK
  <2>6. ASSUME NEW b \in Blocks, ToBlock = None \/ b <= ToBlock,
               b + Offset <= seenHeight
        PROVE  b < reqTo
    <3>1. b \in Nat
      BY BoundAssumption DEF Blocks
    <3>2. SaturatingSub(seenHeight, Offset) \in Nat
          /\ b < SaturatingSub(seenHeight, Offset) + 1
      BY <2>5, <2>6, <3>1, RangeFacts DEF SaturatingSub
    <3> QED
      BY <2>4, <2>6, <3>1, <3>2, RangeFacts
      DEF make_to_block, make_rollback_offset, Smaller
  <2>7. CutShort \/ \A b \in Blocks : b < reqTo => b < fromBlock
    BY <2>4, <2>5, BoundAssumption DEF Blocks, CutShort
  <2>8. ToBlock # None => fromBlock <= ToBlock + 1
    BY <1>1 DEF PromiseInv, RangeInv
  <2> QED
    BY <2>3, <2>6, <2>7, <2>8
<1> QED
  BY <1>1, Promise, PTL

-----------------------------------------------------------------------------
\* A step of the provider never moves from_block back, and delivers nothing once
\* the stream is dropped.
LEMMA ForwardStep ==
    ASSUME InductiveInv, [Next]_vars
    PROVE  /\ fromBlock' >= fromBlock
           /\ closed => closed' /\ delivered' = delivered
<1>1. TypeOK /\ ShapeInv /\ InboxInv /\ QueueInv
  BY DEF InductiveInv
<1>2. fromBlock \in Nat /\ Sent \in Nat
  BY <1>1, StateFacts DEF TypeOK
<1>3. CASE UNCHANGED <<fromBlock, closed, delivered>>
  BY <1>2, <1>3
<1>4. CASE RecvOk
  <2>1. /\ pc = "recv" /\ inbox # <<>> /\ fromBlock' = Head(inbox).next
        /\ UNCHANGED <<closed, delivered>>
    BY <1>4 DEF RecvOk, userVars
  <2>2. fromBlock <= Head(inbox).next /\ Head(inbox) \in Item
    BY <1>1, <1>2, <2>1, ChainedTail DEF InboxInv, TypeOK
  <2>3. Head(inbox).next \in Nat
    BY <2>2 DEF Item
  <2> QED
    BY <1>2, <2>1, <2>2, <2>3
<1>5. CASE HeadSend
  <2>1. /\ pc = "head_send" /\ UNCHANGED <<closed, delivered>>
        /\ fromBlock' = IF closed THEN fromBlock ELSE pending[1].next
    BY <1>5 DEF HeadSend
  <2>2. CASE ~closed
    <3>1. Chained(pending, Sent) /\ fromBlock = Sent /\ Len(pending) = 1
      BY <1>1, <2>1, <2>2 DEF QueueInv, ShapeInv
    <3>2. pending # <<>> /\ Head(pending) = pending[1] /\ pending[1] \in Item
      BY <1>1, <3>1, Singletons DEF TypeOK
    <3>3. Sent <= pending[1].next
      BY <1>1, <1>2, <3>1, <3>2, ChainedTail DEF TypeOK
    <3>4. pending[1].next \in Nat
      BY <3>2 DEF Item
    <3> QED
      BY <1>2, <2>1, <2>2, <3>1, <3>3, <3>4
  <2> QED
    BY <1>2, <2>1, <2>2
<1>6. CASE UserStep
  BY <1>2, <1>6 DEF UserStep, Receive, ReceiveEnd, Close, taskVars
<1>7. CASE ChainStep \/ ClientStep \/ Over \/ UNCHANGED vars
  BY <1>3, <1>7
  DEF ChainStep, Grow, Reorg, ClientStep, ClientFetch, ClientFail, ClientClose,
      Over, vars, taskVars, userVars
<1>8. CASE StartStep \/ RecvErr \/ RecvEnd \/ SendBulk \/ SendErr
  BY <1>3, <1>8
  DEF StartStep, StartFail, GetChainId, GetHeight, StreamArrow, RecvErr, RecvEnd,
      SendBulk, SendErr, userVars
<1>9. CASE HeadGetHeight \/ HeadWait \/ HeadSleep \/ HeadRequest \/ HeadErr
  BY <1>3, <1>9
  DEF HeadGetHeight, HeadWait, HeadSleep, HeadRequest, HeadErr, userVars
<1> QED
  BY <1>4, <1>5, <1>6, <1>7, <1>8, <1>9 DEF Next, TaskStep, BulkStep, HeadStep

\* from_block never moves back, across the hand-over from stream_arrow to
\* chain_head_stream and every poll, and a dropped stream delivers nothing more.
THEOREM ForwardOnly == Spec => NeverBack
<1>1. InductiveInv /\ [Next]_vars =>
         [/\ fromBlock' >= fromBlock
          /\ closed => closed' /\ delivered' = delivered]_vars
  BY ForwardStep
<1> QED
  BY <1>1, Inductive, PTL DEF Spec, NeverBack

-----------------------------------------------------------------------------
\* The refinement of ProviderStream.

\* The abstract status, case by case.
LEMMA StatusFacts ==
    /\ pc = "failed" => abstractStatus = "refused"
    /\ pc # "failed" /\ closed => abstractStatus = "dropped"
    /\ pc # "failed" /\ ~closed /\ ended => abstractStatus = "ended"
    /\ pc # "failed" /\ ~closed /\ ~ended /\ Errored => abstractStatus = "failed"
    /\ pc # "failed" /\ ~closed /\ ~ended /\ ~Errored => abstractStatus = "open"
BY Zenon DEF abstractStatus

\* The same for the next state.
LEMMA NextStatusFacts ==
    /\ pc' = "failed" => abstractStatus' = "refused"
    /\ pc' # "failed" /\ closed' => abstractStatus' = "dropped"
    /\ pc' # "failed" /\ ~closed' /\ ended' => abstractStatus' = "ended"
    /\ pc' # "failed" /\ ~closed' /\ ~ended' /\ Errored' => abstractStatus' = "failed"
    /\ pc' # "failed" /\ ~closed' /\ ~ended' /\ ~Errored' => abstractStatus' = "open"
BY Zenon DEF abstractStatus

\* A step that neither delivers, ends nor drops the stream is a stutter.
LEMMA HiddenStep ==
    ASSUME TypeOK, UNCHANGED <<delivered, closed, ended>>,
           pc' = "failed" <=> pc = "failed"
    PROVE  UNCHANGED <<Position, abstractStatus>>
<1>1. Position' = Position /\ (Errored' <=> Errored)
  BY DEF Position, Errored
<1>2. CASE pc = "failed"
  BY <1>1, <1>2, StatusFacts, NextStatusFacts
<1>3. CASE pc # "failed" /\ closed
  BY <1>1, <1>3, StatusFacts, NextStatusFacts
<1>4. CASE pc # "failed" /\ ~closed /\ ended
  BY <1>1, <1>4, StatusFacts, NextStatusFacts
<1>5. CASE pc # "failed" /\ ~closed /\ ~ended
  BY <1>1, <1>5, StatusFacts, NextStatusFacts
<1> QED
  BY <1>1, <1>2, <1>3, <1>4, <1>5

\* The consumer takes an item: a chunk of the abstract stream, or its failure.
LEMMA ReceiveRefines ==
    ASSUME InductiveInv, PromiseInv, Receive
    PROVE  Abstract!Deliver \/ Abstract!Fail
<1>1. TypeOK /\ ShapeInv /\ QueueInv /\ EndInv /\ RangeInv /\ ErrorInv
  BY DEF InductiveInv, PromiseInv
<1>2. /\ ~closed /\ channel # <<>> /\ UNCHANGED <<closed, ended, pc>>
  BY DEF Receive, taskVars
<1>3. /\ Len(channel) = 1 /\ Head(channel) = channel[1] /\ channel[1] \in Item
      /\ delivered' # <<>> /\ delivered'[Len(delivered')] = channel[1]
  BY <1>1, ReceiveFacts
<1> DEFINE item == channel[1]
<1>4. ~ended /\ ~Errored /\ pc # "failed"
  BY <1>1, <1>2 DEF EndInv, ErrorInv, Started
<1>5. abstractStatus = "open"
  BY <1>2, <1>4, StatusFacts
<1>6. Position' = item.next /\ (Errored' <=> ~item.ok)
  BY <1>3 DEF Position, EndOf, Errored
<1>7. item.from = Position /\ Position <= item.next /\ Position \in Nat
  <2>1. Position \in Nat /\ channel \in Seq(Item)
    BY <1>1, StateFacts DEF TypeOK
  <2>2. Chained(channel, Position)
    BY <1>1, <1>2 DEF QueueInv
  <2> QED
    BY <1>2, <1>3, <2>1, <2>2, ChainedTail
<1>8. Fits(item) /\ item.next \in Nat
  <2>1. Fits(item)
    BY <1>1, <1>3 DEF RangeInv, AllFit
  <2>2. item.next \in Nat
    BY <1>3 DEF Item
  <2> QED
    BY <2>1, <2>2
<1> HIDE DEF item
<1>9. CASE item.ok
  <2>1. abstractStatus' = "open"
    BY <1>2, <1>4, <1>6, <1>9, NextStatusFacts
  <2>2. item.next \in 0 .. MaxHeight + 1 /\ item.next >= Position
    BY <1>7, <1>8, <1>9, BoundAssumption DEF Fits
  <2>3. Abstract!Requested(item.next)
    BY <1>8 DEF Fits, Abstract!Requested
  <2>4. Abstract!Deliver
    BY <1>5, <1>6, <2>1, <2>2, <2>3 DEF Abstract!Deliver
  <2> QED
    BY <2>4
<1>10. CASE ~item.ok
  <2>1. abstractStatus' = "failed"
    BY <1>2, <1>4, <1>6, <1>10, NextStatusFacts
  <2>2. Position' = Position
    BY <1>6, <1>7, <1>8, <1>10 DEF Fits
  <2>3. Abstract!Fail
    BY <1>5, <2>1, <2>2 DEF Abstract!Fail
  <2> QED
    BY <2>3
<1> QED
  BY <1>9, <1>10

\* The consumer sees the end: the abstract stream has failed, or has nothing
\* left to deliver.
LEMMA EndRefines ==
    ASSUME InductiveInv, PromiseInv, ReceiveEnd
    PROVE  Abstract!End
<1>1. /\ ~closed /\ ~ended /\ channel = <<>> /\ pc = "done" /\ ended'
      /\ UNCHANGED <<closed, pc, delivered>>
  BY DEF ReceiveEnd, taskVars
<1>2. Position' = Position
  BY <1>1 DEF Position
<1>3. abstractStatus' = "ended"
  BY <1>1, NextStatusFacts
<1>4. Errored \/ StopOnHead \/ original_to_block = fromBlock
  BY <1>1 DEF InductiveInv, EndInv
<1>5. Position = fromBlock /\ Position \in Nat
  BY <1>1, EndFacts, StateFacts DEF InductiveInv
<1>6. CASE Errored
  <2>1. abstractStatus = "failed"
    BY <1>1, <1>6, StatusFacts
  <2> QED
    BY <1>2, <1>3, <2>1 DEF Abstract!End
<1>7. CASE ~Errored
  <2>1. abstractStatus = "open"
    BY <1>1, <1>7, StatusFacts
  <2>2. StopOnHead \/ (ToBlock # None /\ Position = ToBlock + 1)
    BY <1>4, <1>5, <1>7, RangeFacts, NoneAssumption
  <2> QED
    BY <1>2, <1>3, <2>1, <2>2 DEF Abstract!End
<1> QED
  BY <1>6, <1>7

\* The caller drops the stream.
LEMMA CloseRefines ==
    ASSUME Close
    PROVE  Abstract!Drop
<1>1. /\ pc # "failed" /\ ~closed /\ ~ended /\ closed'
      /\ UNCHANGED <<pc, delivered, ended>>
  BY DEF Close, Started, taskVars
<1>2. Position' = Position
  BY <1>1 DEF Position
<1>3. abstractStatus' = "dropped"
  BY <1>1, NextStatusFacts
<1>4. abstractStatus \in {"open", "failed"}
  BY <1>1, StatusFacts
<1> QED
  BY <1>2, <1>3, <1>4 DEF Abstract!Drop

\* start_stream returns an error.
LEMMA StartFailRefines ==
    ASSUME PromiseInv, StartFail
    PROVE  Abstract!Refuse
<1>1. /\ pc \in {"chain_id", "height", "stream"} /\ pc' = "failed"
      /\ UNCHANGED <<closed, delivered, ended>>
  BY DEF StartFail, userVars
<1>2. ~closed /\ ~ended /\ delivered = <<>>
  BY <1>1 DEF PromiseInv, ErrorInv, Started
<1>3. Position = From /\ Position' = Position /\ ~Errored
  BY <1>1, <1>2 DEF Position, EndOf, Errored
<1>4. abstractStatus = "open" /\ abstractStatus' = "refused"
  BY <1>1, <1>2, <1>3, StatusFacts, NextStatusFacts
<1> QED
  BY <1>3, <1>4 DEF Abstract!Refuse

\* Every other step is hidden from the consumer.
LEMMA OtherStepsHidden ==
    ASSUME TypeOK, [Next]_vars, ~StartFail, ~UserStep
    PROVE  UNCHANGED <<Position, abstractStatus>>
<1>1. CASE ChainStep \/ ClientStep \/ Over \/ UNCHANGED vars
  BY <1>1, HiddenStep
  DEF ChainStep, Grow, Reorg, ClientStep, ClientFetch, ClientFail, ClientClose,
      Over, vars, taskVars, userVars
<1>2. CASE GetChainId \/ GetHeight \/ StreamArrow
  BY <1>2, HiddenStep DEF GetChainId, GetHeight, StreamArrow, userVars
<1>3. CASE BulkStep
  BY <1>3, HiddenStep
  DEF BulkStep, RecvOk, RecvErr, RecvEnd, SendBulk, SendErr, Send, userVars
<1>4. CASE HeadStep
  BY <1>4, HiddenStep
  DEF HeadStep, HeadGetHeight, HeadWait, HeadSleep, HeadRequest, HeadErr,
      HeadSend, Send, userVars
<1> QED
  BY <1>1, <1>2, <1>3, <1>4 DEF Next, TaskStep, StartStep

\* The HyperSync provider, with its task, its client and its channel, does only
\* what a ProviderStream may do: it delivers the requested blocks in order, ends
\* when nothing is left, and sends nothing after an error.
THEOREM Refinement == Spec => ImplementsProviderStream
<1>1. Init => Abstract!Init
  <2>1. SUFFICES ASSUME Init
                 PROVE  Abstract!Init
    OBVIOUS
  <2>2. pc # "failed" /\ ~closed /\ ~ended /\ delivered = <<>>
    BY <2>1 DEF Init
  <2>3. Position = From /\ ~Errored
    BY <2>2 DEF Position, EndOf, Errored
  <2> QED
    BY <2>2, <2>3, StatusFacts DEF Abstract!Init
<1>2. InductiveInv /\ PromiseInv /\ [Next]_vars => [Abstract!Next]_(Abstract!vars)
  <2>1. SUFFICES ASSUME InductiveInv, PromiseInv, [Next]_vars
                 PROVE  [Abstract!Next]_(Abstract!vars)
    OBVIOUS
  <2>2. CASE UserStep
    BY <2>1, <2>2, ReceiveRefines, EndRefines, CloseRefines
    DEF UserStep, Abstract!Next
  <2>3. CASE StartFail
    BY <2>1, <2>3, StartFailRefines DEF Abstract!Next
  <2>4. CASE ~UserStep /\ ~StartFail
    BY <2>1, <2>4, OtherStepsHidden DEF InductiveInv, Abstract!vars
  <2> QED
    BY <2>2, <2>3, <2>4
<1> QED
  BY <1>1, <1>2, Promise, PTL DEF Spec, ImplementsProviderStream, Abstract!Spec
=============================================================================
