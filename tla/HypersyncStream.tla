--------------------------- MODULE HypersyncStream ---------------------------
(***************************************************************************)
(* The streaming half of the HyperSync provider                            *)
(* (src/ingest/src/provider/hypersync.rs): start_stream, the task it       *)
(* spawns, chain_head_stream, and the bounded channel to the consumer,     *)
(* running against a chain that grows and reorganises.                     *)
(*                                                                         *)
(* A block is its number; what distinguishes two blocks of one number is   *)
(* the fork (epoch) they belong to.  The rows of a response are abstracted *)
(* to the range of blocks the response covers and the fork each of them    *)
(* was read from.                                                          *)
(***************************************************************************)
EXTENDS Integers, Sequences

CONSTANTS
    From,         \* query.from_block
    ToBlock,      \* query.to_block, or None; the code takes it as inclusive
    None,         \* Option::None
    StopOnHead,   \* cfg.stop_on_head
    Offset,       \* the rollback offset (200 in the code)
    Depth,        \* how far below its highest tip the chain may reorganise
    Prefetch,     \* how many responses the client buffers ahead of recv()
    MaxHeight,    \* bound: the chain grows no further
    MaxEpoch      \* bound: number of reorganisations

ASSUME NoneAssumption == None \notin Nat
ASSUME RangeAssumption ==
    /\ From \in Nat
    /\ ToBlock # None => ToBlock \in Nat /\ From <= ToBlock + 1
ASSUME OffsetAssumption == Offset \in Nat /\ Depth \in Nat /\ Depth <= Offset
ASSUME BoundAssumption ==
    /\ MaxHeight \in Nat
    /\ MaxEpoch \in Nat
    /\ Prefetch \in Nat \ {0}
    /\ StopOnHead \in BOOLEAN

VARIABLES
    \* the chain
    height,     \* number of the tip
    epoch,      \* current fork
    chain,      \* chain[b]: the fork block b belongs to
    final,      \* highest block that no reorganisation can reach any more
    \* hypersync_client's stream_arrow: an ordered prefetcher
    client,     \* "idle", "open", "failed" (an Err is queued last), "closed"
    cursor,     \* first block it has not fetched
    inbox,      \* responses fetched, not yet received by the task
    \* start_stream and its task
    pc,
    seenHeight, \* the local `height`
    fromBlock,  \* evm_query.from_block
    reqTo,      \* evm_query.to_block, always Some after start_stream
    pending,    \* the item being sent: a sequence of at most one item
    \* the channel and its consumer
    channel,    \* mpsc::channel(1)
    closed,     \* the consumer dropped the stream
    delivered,  \* history: the items the consumer received
    ended       \* the consumer saw the end of the stream

chainVars  == <<height, epoch, chain, final>>
clientVars == <<client, cursor, inbox>>
taskVars   == <<pc, seenHeight, fromBlock, reqTo, pending>>
userVars   == <<channel, closed, delivered, ended>>
vars == <<height, epoch, chain, final, client, cursor, inbox, pc, seenHeight,
          fromBlock, reqTo, pending, channel, closed, delivered, ended>>

Blocks == 0..MaxHeight
Epochs == 0..MaxEpoch

\* What travels: a response covering from <= b < next, seen[b] being the fork
\* block b was read from, or an error, which covers nothing.
Item == [ok : BOOLEAN, from : Nat, next : Nat, seen : [Blocks -> Epochs]]

Smaller(a, b) == IF a <= b THEN a ELSE b
Larger(a, b) == IF a >= b THEN a ELSE b
\* Mutant: a plain subtraction.
PlainSub(a, b) == a - b
SaturatingSub(a, b) == IF a >= b THEN a - b ELSE 0

Response(from, next) ==
    [ok |-> TRUE, from |-> from, next |-> next,
     seen |-> [b \in Blocks |-> IF from <= b /\ b < next THEN chain[b] ELSE 0]]
Failure(at) ==
    [ok |-> FALSE, from |-> at, next |-> at, seen |-> [b \in Blocks |-> 0]]

-----------------------------------------------------------------------------
\* The chain (external).  It grows by a block or drops its tip down to a block
\* that is not final, to be refilled on a new fork.
Grow ==
    /\ height < MaxHeight
    /\ height' = height + 1
    /\ chain' = [chain EXCEPT ![height + 1] = epoch]
    /\ final' = Larger(final, SaturatingSub(height + 1, Depth))
    /\ UNCHANGED <<epoch, clientVars, taskVars, userVars>>

Reorg ==
    /\ epoch < MaxEpoch
    /\ \E b \in final .. height - 1 : height' = b
    /\ epoch' = epoch + 1
    /\ UNCHANGED <<chain, final, clientVars, taskVars, userVars>>

-----------------------------------------------------------------------------
\* The server (external): it answers a query for from <= b < to with any
\* non-empty prefix of the blocks it has, and says where to go on.
NextBlocks(from, to) ==
    LET end == Smaller(to, height + 1)
    IN  IF from < end THEN from + 1 .. end ELSE {from}

\* stream_arrow (external): contiguous responses, in order, until reqTo.
ClientFetch ==
    /\ client = "open"
    /\ cursor < reqTo
    /\ Len(inbox) < Prefetch
    /\ cursor <= height
    /\ \E next \in NextBlocks(cursor, reqTo) :
          /\ inbox' = Append(inbox, Response(cursor, next))
          /\ cursor' = next
    /\ UNCHANGED <<chainVars, client, taskVars, userVars>>

ClientFail ==
    /\ client = "open"
    /\ client' = "failed"
    /\ UNCHANGED <<chainVars, cursor, inbox, taskVars, userVars>>

\* It ends, at reqTo or, when its own task dies, before: recv() tells no difference.
ClientClose ==
    /\ client = "open"
    /\ client' = "closed"
    /\ UNCHANGED <<chainVars, cursor, inbox, taskVars, userVars>>

-----------------------------------------------------------------------------
\* start_stream

\* Mutant: the inclusive bound is passed on as it is.
inclusive_to_block == ToBlock

\* query_to_hypersync: the bound becomes exclusive.
original_to_block == IF ToBlock = None THEN None ELSE ToBlock + 1

make_rollback_offset == Offset

\* Mutant: one block above the safe height is requested.
make_to_block_above(to, h) ==
    LET safe_height == SaturatingSub(h, make_rollback_offset)
    IN  IF to = None THEN safe_height + 2 ELSE Smaller(to, safe_height + 2)

make_to_block(to, h) ==
    LET safe_height == SaturatingSub(h, make_rollback_offset)
    IN  IF to = None THEN safe_height + 1 ELSE Smaller(to, safe_height + 1)

\* An await before the spawn failed: start_stream returns Err.
StartFail ==
    /\ pc \in {"chain_id", "height", "stream"}
    /\ pc' = "failed"
    /\ UNCHANGED <<chainVars, clientVars, seenHeight, fromBlock, reqTo,
                   pending, userVars>>

GetChainId ==
    /\ pc = "chain_id"
    /\ pc' = "height"
    /\ UNCHANGED <<chainVars, clientVars, seenHeight, fromBlock, reqTo,
                   pending, userVars>>

\* Mutant: the query's own to_block is forgotten.
GetHeightUnbounded ==
    /\ pc = "height"
    /\ seenHeight' = height
    /\ reqTo' = make_to_block(None, height)
    /\ pc' = "stream"
    /\ UNCHANGED <<chainVars, clientVars, fromBlock, pending, userVars>>

GetHeight ==
    /\ pc = "height"
    /\ seenHeight' = height
    /\ reqTo' = make_to_block(original_to_block, height)
    /\ pc' = "stream"
    /\ UNCHANGED <<chainVars, clientVars, fromBlock, pending, userVars>>

StreamArrow ==
    /\ pc = "stream"
    /\ client' = "open"
    /\ cursor' = fromBlock
    /\ pc' = "recv"
    /\ UNCHANGED <<chainVars, inbox, seenHeight, fromBlock, reqTo, pending,
                   userVars>>

-----------------------------------------------------------------------------
\* The spawned task: bulk phase.

\* Mutant: from_block is not advanced.
RecvOkStale ==
    /\ pc = "recv"
    /\ inbox # <<>>
    /\ inbox' = Tail(inbox)
    /\ pending' = <<Head(inbox)>>
    /\ pc' = "send"
    /\ UNCHANGED <<chainVars, client, cursor, seenHeight, fromBlock, reqTo,
                   userVars>>

\* recv() yields a response that map_response accepts.
RecvOk ==
    /\ pc = "recv"
    /\ inbox # <<>>
    /\ inbox' = Tail(inbox)
    /\ fromBlock' = Head(inbox).next
    /\ pending' = <<Head(inbox)>>
    /\ pc' = "send"
    /\ UNCHANGED <<chainVars, client, cursor, seenHeight, reqTo, userVars>>

\* recv() yields an Err, or a response that map_response rejects.
RecvErr ==
    /\ pc = "recv"
    /\ \/ inbox # <<>> /\ inbox' = Tail(inbox)
       \/ inbox = <<>> /\ client = "failed" /\ UNCHANGED inbox
    /\ pending' = <<Failure(fromBlock)>>
    /\ pc' = "send_err"
    /\ UNCHANGED <<chainVars, client, cursor, seenHeight, fromBlock, reqTo,
                   userVars>>

\* Mutant: the head phase starts again from the original query.
RecvEndOriginalQuery ==
    /\ pc = "recv"
    /\ inbox = <<>>
    /\ client = "closed"
    /\ pc' = IF original_to_block = fromBlock \/ StopOnHead
                THEN "done" ELSE "head_height"
    /\ fromBlock' = From
    /\ UNCHANGED <<chainVars, clientVars, seenHeight, reqTo, pending, userVars>>

\* recv() yields None: done, or on to the head.
RecvEnd ==
    /\ pc = "recv"
    /\ inbox = <<>>
    /\ client = "closed"
    /\ pc' = IF original_to_block = fromBlock \/ StopOnHead
                THEN "done" ELSE "head_height"
    /\ UNCHANGED <<chainVars, clientVars, seenHeight, fromBlock, reqTo,
                   pending, userVars>>

\* tx.send(item).await resumes: with a free slot it queues the item, without a
\* receiver it fails.  `next` is where the task goes on after a success.
Send(next) ==
    \/ /\ ~closed
       /\ channel = <<>>
       /\ channel' = pending
       /\ pc' = next
    \/ /\ closed
       /\ pc' = "done"
       /\ UNCHANGED channel

\* Returning from the task drops the client's receiver, which stops it.
DropClient ==
    /\ client' = "closed"
    /\ inbox' = <<>>

SendBulk ==
    /\ pc = "send"
    /\ Send("recv")
    /\ pending' = <<>>
    /\ IF closed THEN DropClient ELSE UNCHANGED <<client, inbox>>
    /\ UNCHANGED <<chainVars, cursor, seenHeight, fromBlock, reqTo, closed,
                   delivered, ended>>

\* Mutant: the task goes on after an error.
SendErrAndGoOn ==
    /\ pc = "send_err"
    /\ Send("recv")
    /\ pending' = <<>>
    /\ DropClient
    /\ UNCHANGED <<chainVars, cursor, seenHeight, fromBlock, reqTo, closed,
                   delivered, ended>>

\* The result of this send is ignored (.ok()) and the task returns.
SendErr ==
    /\ pc = "send_err"
    /\ Send("done")
    /\ pending' = <<>>
    /\ DropClient
    /\ UNCHANGED <<chainVars, cursor, seenHeight, fromBlock, reqTo, closed,
                   delivered, ended>>

-----------------------------------------------------------------------------
\* chain_head_stream.

HeadGetHeight ==
    /\ pc = "head_height"
    /\ seenHeight' = height
    /\ pc' = "head_wait"
    /\ UNCHANGED <<chainVars, clientVars, fromBlock, reqTo, pending, userVars>>

\* Mutant: waits until the safe height is above from_block.
HeadWaitLonger ==
    /\ pc = "head_wait"
    /\ \/ /\ SaturatingSub(seenHeight, make_rollback_offset) <= fromBlock
          /\ pc' = "head_sleep"
          /\ UNCHANGED reqTo
       \/ /\ SaturatingSub(seenHeight, make_rollback_offset) > fromBlock
          /\ reqTo' = make_to_block(original_to_block, seenHeight)
          /\ pc' = "head_request"
    /\ UNCHANGED <<chainVars, clientVars, seenHeight, fromBlock, pending,
                   userVars>>

\* The test of the inner while loop, and what follows it up to the next await.
HeadWait ==
    /\ pc = "head_wait"
    /\ \/ /\ SaturatingSub(seenHeight, make_rollback_offset) < fromBlock
          /\ pc' = "head_sleep"
          /\ UNCHANGED reqTo
       \/ /\ SaturatingSub(seenHeight, make_rollback_offset) >= fromBlock
          /\ reqTo' = make_to_block(original_to_block, seenHeight)
          /\ pc' = "head_request"
    /\ UNCHANGED <<chainVars, clientVars, seenHeight, fromBlock, pending,
                   userVars>>

\* Mutant: the height is not read again.
HeadSleepOnly ==
    /\ pc = "head_sleep"
    /\ pc' = "head_wait"
    /\ UNCHANGED <<chainVars, clientVars, seenHeight, fromBlock, reqTo,
                   pending, userVars>>

\* The poll interval passes.
HeadSleep ==
    /\ pc = "head_sleep"
    /\ pc' = "head_height"
    /\ UNCHANGED <<chainVars, clientVars, seenHeight, fromBlock, reqTo,
                   pending, userVars>>

\* get_arrow answers; its archive_height, absent (0) or not, is kept for the
\* loop's next turn.  from_block moves only after the send.
HeadRequest ==
    /\ pc = "head_request"
    /\ \E next \in NextBlocks(fromBlock, reqTo) :
          pending' = <<Response(fromBlock, next)>>
    /\ seenHeight' \in {0, height}
    /\ pc' = "head_send"
    /\ UNCHANGED <<chainVars, clientVars, fromBlock, reqTo, userVars>>

\* get_height, get_arrow or map_response failed: the ? leaves the loop and the
\* caller sends the error.
HeadErr ==
    /\ pc \in {"head_height", "head_request"}
    /\ pending' = <<Failure(fromBlock)>>
    /\ pc' = "send_err"
    /\ UNCHANGED <<chainVars, clientVars, seenHeight, fromBlock, reqTo,
                   userVars>>

\* Mutant: a failed send is retried with a new request.
HeadSendRetry ==
    /\ pc = "head_send"
    /\ \/ Send(IF original_to_block = pending[1].next THEN "done" ELSE "head_wait")
          /\ ~closed
       \/ closed /\ pc' = "head_wait" /\ UNCHANGED channel
    /\ fromBlock' = IF closed THEN fromBlock ELSE pending[1].next
    /\ pending' = <<>>
    /\ UNCHANGED <<chainVars, clientVars, seenHeight, reqTo, closed, delivered,
                   ended>>

\* Mutant: takes the whole request as answered.
HeadSendSkip ==
    /\ pc = "head_send"
    /\ Send(IF original_to_block = reqTo THEN "done" ELSE "head_wait")
    /\ fromBlock' = IF closed THEN fromBlock ELSE reqTo
    /\ pending' = <<>>
    /\ UNCHANGED <<chainVars, clientVars, seenHeight, reqTo, closed, delivered,
                   ended>>

HeadSend ==
    /\ pc = "head_send"
    /\ Send(IF original_to_block = pending[1].next THEN "done" ELSE "head_wait")
    /\ fromBlock' = IF closed THEN fromBlock ELSE pending[1].next
    /\ pending' = <<>>
    /\ UNCHANGED <<chainVars, clientVars, seenHeight, reqTo, closed, delivered,
                   ended>>

-----------------------------------------------------------------------------
\* The consumer of the ReceiverStream.
Started == pc \notin {"chain_id", "height", "stream", "failed"}

Receive ==
    /\ ~closed
    /\ channel # <<>>
    /\ delivered' = Append(delivered, Head(channel))
    /\ channel' = Tail(channel)
    /\ UNCHANGED <<chainVars, clientVars, taskVars, closed, ended>>

\* The sender is gone and nothing is queued.
ReceiveEnd ==
    /\ ~closed
    /\ ~ended
    /\ channel = <<>>
    /\ pc = "done"
    /\ ended' = TRUE
    /\ UNCHANGED <<chainVars, clientVars, taskVars, channel, closed, delivered>>

\* The caller drops the stream; what is queued is dropped with it.
Close ==
    /\ Started
    /\ ~closed
    /\ ~ended
    /\ closed' = TRUE
    /\ channel' = <<>>
    /\ UNCHANGED <<chainVars, clientVars, taskVars, delivered, ended>>

-----------------------------------------------------------------------------
Init ==
    /\ height \in Blocks
    /\ epoch = 0
    /\ chain = [b \in Blocks |-> 0]
    /\ final = SaturatingSub(height, Depth)
    /\ client = "idle"
    /\ cursor = From
    /\ inbox = <<>>
    /\ pc = "chain_id"
    /\ seenHeight = 0
    /\ fromBlock = From
    /\ reqTo = 0
    /\ pending = <<>>
    /\ channel = <<>>
    /\ closed = FALSE
    /\ delivered = <<>>
    /\ ended = FALSE

ChainStep == Grow \/ Reorg
ClientStep == ClientFetch \/ ClientFail \/ ClientClose
StartStep == GetChainId \/ GetHeight \/ StreamArrow \/ StartFail
BulkStep == RecvOk \/ RecvErr \/ RecvEnd \/ SendBulk \/ SendErr
HeadStep == HeadGetHeight \/ HeadWait \/ HeadSleep \/ HeadRequest \/ HeadErr
            \/ HeadSend
TaskStep == StartStep \/ BulkStep \/ HeadStep
UserStep == Receive \/ ReceiveEnd \/ Close

\* The stream is over: nothing is left but the chain.
Over ==
    /\ pc = "failed" \/ (pc = "done" /\ (ended \/ closed))
    /\ UNCHANGED vars

Next == ChainStep \/ ClientStep \/ TaskStep \/ UserStep \/ Over

Spec == Init /\ [][Next]_vars

\* tokio runs a task that can run, the server answers, the chain grows, and a
\* caller that keeps the stream keeps pulling.  Nobody is obliged to fail, to
\* reorganise or to drop the stream.
Fairness ==
    /\ WF_vars(Grow)
    /\ WF_vars(ClientFetch \/ ClientClose)
    /\ WF_vars(TaskStep)
    /\ WF_vars(Receive \/ ReceiveEnd)

FairSpec == Spec /\ Fairness

-----------------------------------------------------------------------------
\* Properties.

\* The first block after the items of s, which start at block a.
EndOf(s, a) == IF s = <<>> THEN a ELSE s[Len(s)].next

\* The items of s cover, without gap, overlap or reordering, the blocks from a
\* up to EndOf(s, a).
Chained(s, a) ==
    \A i \in 1..Len(s) :
        /\ s[i].from = (IF i = 1 THEN a ELSE s[i - 1].next)
        /\ s[i].from <= s[i].next

Covered(item, b) == item.from <= b /\ b < item.next

Position == EndOf(delivered, From)
Errored == delivered # <<>> /\ ~delivered[Len(delivered)].ok

\* The type of every variable of the provider, the client and the chain.
TypeOK ==
    /\ height \in Blocks
    /\ epoch \in Epochs
    /\ chain \in [Blocks -> Epochs]
    /\ final \in Blocks
    /\ client \in {"idle", "open", "failed", "closed"}
    /\ cursor \in Nat
    /\ inbox \in Seq(Item)
    /\ pc \in {"chain_id", "height", "stream", "failed", "recv", "send",
               "send_err", "head_height", "head_wait", "head_sleep",
               "head_request", "head_send", "done"}
    /\ seenHeight \in Nat
    /\ fromBlock \in Nat
    /\ reqTo \in Nat
    /\ pending \in Seq(Item)
    /\ channel \in Seq(Item)
    /\ closed \in BOOLEAN
    /\ delivered \in Seq(Item)
    /\ ended \in BOOLEAN

\* The caller gets every block exactly once and in order: what it received
\* covers From .. Position - 1 without gap or overlap, across the hand-over from
\* stream_arrow to chain_head_stream and every poll of the head.
Contiguous == Chained(delivered, From)

\* No block the caller received is later abandoned by the chain: the rollback
\* offset keeps every request, however stale the height it was computed from,
\* below the blocks a reorganisation can reach.
ReorgSafe ==
    \A i \in 1..Len(delivered) : \A b \in Blocks :
        Covered(delivered[i], b) =>
            b <= height /\ delivered[i].seen[b] = chain[b]

\* A stream that ends without an error has delivered the whole range asked for,
\* all of From .. ToBlock and nothing beyond it, even if stream_arrow ended early:
\* with last_block reaching to_block, as the test simple_start_stream of
\* src/ingest/src/lib.rs wants it.
Complete ==
    ended /\ ~Errored /\ ~StopOnHead =>
        ToBlock # None /\ Position = ToBlock + 1

\* What the documentation says of to_block (src/python/tiders_core/ingest/evm.py),
\* that it is exclusive: no response delivered covers it.
ToBlockExclusive ==
    ToBlock # None =>
        \A i \in 1..Len(delivered) : ~Covered(delivered[i], ToBlock)

\* An exception: stream_arrow ended before the end of its request.
CutShort == cursor < reqTo

\* With stop_on_head, a stream that ends without an error has delivered every
\* requested block that was Offset below the height seen when it started, unless
\* stream_arrow ended early, which the task takes for completion; and none that
\* was not asked for.
CompleteToHead ==
    ended /\ ~Errored /\ StopOnHead =>
        /\ CutShort \/ \A b \in Blocks :
              From <= b /\ (ToBlock = None \/ b <= ToBlock)
                        /\ b + Offset <= seenHeight => b < Position
        /\ ToBlock # None => Position <= ToBlock + 1

\* from_block never moves back, so no block is requested twice, and once the
\* caller dropped the stream nothing more is delivered.
NeverBack ==
    [][/\ fromBlock' >= fromBlock
       /\ closed => closed' /\ delivered' = delivered]_vars

\* A stream with a to_block ends for a caller that keeps pulling.
StreamEnds == <>(ended \/ closed \/ pc = "failed")

\* A caller that drops the stream frees the task, wherever the task is: the
\* drop is noticed at the next send.
DropNoticed == closed ~> pc = "done"

\* Following the head: a block that is Offset deep reaches a caller that keeps
\* pulling, unless the stream fails.
KeepsUp ==
    \A b \in Blocks :
        (From <= b /\ b + Offset <= height)
            ~> (b < Position \/ Errored \/ closed \/ pc = "failed")

-----------------------------------------------------------------------------
\* The inductive invariant behind Contiguous, ReorgSafe and Complete.

\* The block after everything that was sent.
Sent == EndOf(channel, Position)

\* An item, or every item of s, covers only blocks that are final (at most f)
\* and that were read from the fork the chain c is on.
SettledItem(item, c, f) ==
    \A b \in Blocks : Covered(item, b) => b <= f /\ item.seen[b] = c[b]

Settled(s, c, f) == \A i \in 1..Len(s) : SettledItem(s[i], c, f)

\* Nothing at or below the final block can change, and any height the code saw,
\* now or earlier, is at most Depth above it: so a request ends at a final block.
ChainInv ==
    /\ final <= height
    /\ SaturatingSub(height, Depth) <= final
    /\ SaturatingSub(seenHeight, Depth) <= final
    /\ reqTo <= final + 1

SettledInv ==
    /\ Settled(inbox, chain, final)
    /\ Settled(pending, chain, final)
    /\ Settled(channel, chain, final)
    /\ Settled(delivered, chain, final)

\* An item is being sent exactly in the sending states, the channel holds one
\* item at most, and the client runs only once it is started.
ShapeInv ==
    /\ Len(pending) = (IF pc \in {"send", "send_err", "head_send"} THEN 1 ELSE 0)
    /\ Len(channel) <= 1
    /\ pc = "send_err" => pending = <<Failure(fromBlock)>>
    /\ pc \in {"chain_id", "height", "stream"} =>
          client = "idle" /\ inbox = <<>> /\ fromBlock = From

\* What was fetched follows what was received.
InboxInv ==
    pc \in {"recv", "send"} =>
        Chained(inbox, fromBlock) /\ cursor = EndOf(inbox, fromBlock)

\* While the caller holds the stream, delivered, queued and pending items
\* follow each other, and from_block is where they end: after the item being
\* sent in the bulk phase, before it in chain_head_stream.
QueueInv ==
    /\ Chained(delivered, From)
    /\ ~closed =>
          /\ Chained(channel, Position)
          /\ Chained(pending, Sent)
          /\ fromBlock = (IF pc = "send" THEN EndOf(pending, Sent) ELSE Sent)

\* A task that returned to a caller that still listens either reported an
\* error or was done.
EndInv ==
    /\ ended => pc = "done" /\ channel = <<>> /\ ~closed
    /\ pc = "done" /\ ~closed =>
          \/ channel # <<>> /\ ~channel[1].ok
          \/ channel = <<>> /\ Errored
          \/ StopOnHead
          \/ original_to_block = fromBlock

\* The seven parts together are preserved by every step.
InductiveInv ==
    /\ TypeOK
    /\ ChainInv
    /\ SettledInv
    /\ ShapeInv
    /\ InboxInv
    /\ QueueInv
    /\ EndInv

-----------------------------------------------------------------------------
\* What the consumer sees, in the terms of ProviderStream.
abstractStatus ==
    CASE pc = "failed" -> "refused"
      [] pc # "failed" /\ closed -> "dropped"
      [] pc # "failed" /\ ~closed /\ ended -> "ended"
      [] pc # "failed" /\ ~closed /\ ~ended /\ Errored -> "failed"
      [] OTHER -> "open"

Abstract == INSTANCE ProviderStream WITH
    Positions <- 0 .. MaxHeight + 1,
    position <- Position,
    status <- abstractStatus

\* The HyperSync provider implements the promise of a ProviderStream.
ImplementsProviderStream == Abstract!Spec
=============================================================================
