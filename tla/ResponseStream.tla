---------------------------- MODULE ResponseStream ----------------------------
(***************************************************************************)
(* The caller's end of a stream: the per-chunk work that start_stream      *)
(* (src/ingest/src/lib.rs) attaches to a provider's stream, run on the     *)
(* rayon pool, and the Python object ResponseStream                        *)
(* (src/python/src/ingest.rs) through which a caller pulls it.             *)
(*                                                                         *)
(* The provider is ProviderStream.  The rows of a chunk are abstracted to  *)
(* the numbers of the blocks they belong to.                               *)
(***************************************************************************)
EXTENDS Integers, FiniteSetsExt

CONSTANTS
    From, ToBlock, None, StopOnHead, Positions,  \* see ProviderStream
    Rows,   \* blocks of which the provider returns rows
    Kept    \* those of them with a row that the local query keeps

ASSUME RowsAssumption == Kept \subseteq Rows /\ Rows \subseteq Nat
ASSUME PositionsAssumption == Positions \subseteq Nat /\ From \in Positions

VARIABLES
    position, status, \* the provider's stream
    inner,      \* self.inner is Some
    calling,    \* a future of next() is alive and holds the object
    work,       \* the chunk held by the `then` adapter, or None
    last_block, \* self.last_block
    \* history
    returned,   \* blocks with rows handed to the caller
    lost,       \* kept blocks of chunks the caller got an error for
    seen,       \* highest block of the chunks handed to the caller, or None
    raised      \* the caller got an error

P == INSTANCE ProviderStream

provider == <<position, status>>
history  == <<returned, lost, seen, raised>>
vars == <<position, status, inner, calling, work, last_block, returned, lost,
          seen, raised>>

Span(from, next) == from .. next - 1

\* The work on one chunk: "running" on the pool, or finished: "ok", or "err" if
\* the provider (good = FALSE) or run_query failed.  A panic on the pool aborts
\* the process: it leaves no state to speak of.
Work == [state : {"running", "ok", "err"}, from : Nat, next : Nat, good : BOOLEAN]

ASSUME NoneAssumption == None \notin Nat /\ None \notin Work

MaxOrNone(S) == IF S = {} THEN None ELSE Max(S)

\* Mutant: the chunk's last block, rather than the last one with a row.
chunk_end(w) == w.next - 1

\* The query asks for a block-number column (EvmQuery shows what happens
\* otherwise), so the rows of the chunk tell its highest block.
extract_last_block(w) == MaxOrNone(Rows \cap Span(w.from, w.next))

-----------------------------------------------------------------------------
\* next() is called.  A call on a finished or closed stream returns None at once
\* and changes nothing.
CallNext ==
    /\ inner
    /\ ~calling
    /\ calling' = TRUE
    /\ UNCHANGED <<provider, inner, work, last_block, history>>

\* Polling the stream takes the provider's next item and spawns the pool's task.
Pull ==
    /\ calling
    /\ work = None
    /\ \/ P!Deliver /\ work' = [state |-> "running", from |-> position,
                                next |-> position', good |-> TRUE]
       \/ P!Fail /\ work' = [state |-> "running", from |-> position,
                             next |-> position, good |-> FALSE]
    /\ UNCHANGED <<inner, calling, last_block, history>>

\* The provider's stream is exhausted: next() forgets it and returns None.
PullEnd ==
    /\ calling
    /\ work = None
    /\ P!End
    /\ inner' = FALSE
    /\ calling' = FALSE
    /\ UNCHANGED <<work, last_block, history>>

\* Mutant: the result of a failed task is never sent.
RayonHangs ==
    /\ work # None
    /\ work.state = "running"
    /\ \/ work.good /\ work' = [work EXCEPT !.state = "ok"]
       \/ UNCHANGED work
    /\ UNCHANGED <<provider, inner, calling, last_block, history>>

\* The pool's task finishes, whether or not anyone awaits it.
RayonDone ==
    /\ work # None
    /\ work.state = "running"
    /\ \/ work.good /\ work' = [work EXCEPT !.state = "ok"]
       \/ work' = [work EXCEPT !.state = "err"]
    /\ UNCHANGED <<provider, inner, calling, last_block, history>>

Raise(w) ==
    /\ raised' = TRUE
    /\ lost' = lost \cup (Kept \cap Span(w.from, w.next))
    /\ UNCHANGED <<returned, seen>>

\* The item is an error: it is raised, and the stream stays usable.
ReturnErr ==
    /\ calling
    /\ work # None
    /\ work.state = "err"
    /\ Raise(work)
    /\ calling' = FALSE
    /\ work' = None
    /\ UNCHANGED <<provider, inner, last_block>>

\* Mutant: the last chunk's block replaces the highest one.
AdvanceAlways(w) ==
    last_block' = extract_last_block(w)

\* last_block moves up to the chunk's highest block, if it has one.
Advance(w) ==
    last_block' = MaxOrNone({extract_last_block(w), last_block} \ {None})

\* last_block is advanced, then the tables are converted one by one.
ReturnOk ==
    /\ calling
    /\ work # None
    /\ work.state = "ok"
    /\ Advance(work)
    /\ \/ /\ returned' = returned \cup (Kept \cap Span(work.from, work.next))
          /\ seen' = MaxOrNone({extract_last_block(work), seen} \ {None})
          /\ UNCHANGED <<lost, raised>>
       \/ Raise(work)
    /\ calling' = FALSE
    /\ work' = None
    /\ UNCHANGED <<provider, inner>>

\* Mutant: a cancelled call takes the chunk in progress with it.
CancelDropsChunk ==
    /\ calling
    /\ calling' = FALSE
    /\ work' = None
    /\ UNCHANGED <<provider, inner, last_block, history>>

\* The caller cancels the task that awaits next(): the future is dropped, the
\* chunk in progress stays in the adapter for the next call.
Cancel ==
    /\ calling
    /\ calling' = FALSE
    /\ UNCHANGED <<provider, inner, work, last_block, history>>

\* close(): refused by the borrow check while next() is pending.
Close ==
    /\ inner
    /\ ~calling
    /\ P!Drop
    /\ inner' = FALSE
    /\ work' = None
    /\ UNCHANGED <<calling, last_block, history>>

Init ==
    /\ P!Init
    /\ inner = TRUE
    /\ calling = FALSE
    /\ work = None
    /\ last_block = None
    /\ returned = {}
    /\ lost = {}
    /\ seen = None
    /\ raised = FALSE

\* A call on a stream that is over.
CallOver == ~inner /\ UNCHANGED vars

Next == CallNext \/ Pull \/ PullEnd \/ RayonDone \/ ReturnErr \/ ReturnOk
        \/ Cancel \/ Close \/ CallOver

\* The provider answers, the pool runs what it is given, and a future that is
\* awaited is polled.  The caller owes nothing.
Fairness ==
    /\ WF_vars(Pull \/ PullEnd)
    /\ WF_vars(RayonDone)
    /\ WF_vars(ReturnErr \/ ReturnOk)

Spec == Init /\ [][Next]_vars /\ Fairness

-----------------------------------------------------------------------------
\* Every variable keeps its type.
TypeOK ==
    /\ position \in Positions
    /\ status \in {"open", "failed", "ended", "dropped"}
    /\ inner \in BOOLEAN /\ calling \in BOOLEAN /\ raised \in BOOLEAN
    /\ work = None \/ work \in Work
    /\ last_block \in Rows \cup {None} /\ seen \in Rows \cup {None}
    /\ returned \subseteq Kept /\ lost \subseteq Kept

InWork == IF work = None THEN {} ELSE Kept \cap Span(work.from, work.next)

\* No chunk disappears, however the caller cancels and retries next(): every row
\* the provider delivered was handed over, is still in the adapter, was lost to
\* an error the caller saw, or went with a close().
NoSilentLoss ==
    status # "dropped" =>
        Kept \cap Span(From, position) = returned \cup lost \cup InWork

\* As long as no call raised, last_block tells exactly how far the caller got: a
\* new query from last_block + 1 repeats no row and misses none.
ExactResume ==
    ~raised => returned = {b \in Kept : last_block # None /\ From <= b /\ b <= last_block}

\* A pending next() returns (or is cancelled).
NextReturns == calling ~> ~calling

\* What the documentation of last_block says: it is the highest block already
\* returned to the caller.
LastBlockIsReturned == last_block = seen
=============================================================================
