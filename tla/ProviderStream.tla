---------------------------- MODULE ProviderStream ----------------------------
(***************************************************************************)
(* What a ProviderStream (src/ingest/src/lib.rs) promises whoever pulls    *)
(* it: the requested blocks once each and in order, cut into chunks at     *)
(* arbitrary places, then an end; or an error, and then an end.            *)
(* HypersyncStream implements it; ResponseStream relies on it.             *)
(***************************************************************************)
EXTENDS Integers

CONSTANTS
    From,        \* query.from_block
    ToBlock,     \* query.to_block, inclusive, or None
    None,
    StopOnHead,  \* cfg.stop_on_head
    Positions    \* where a chunk may end

VARIABLES
    position,    \* first block not yet delivered
    status       \* "open", "failed", "ended", "dropped", "refused"

vars == <<position, status>>

Requested(p) == ToBlock = None \/ p <= ToBlock + 1

Init ==
    /\ position = From
    /\ status = "open"

\* A chunk covering position .. position' - 1; it may be empty.
Deliver ==
    /\ status = "open"
    /\ \E p \in Positions :
          /\ p >= position
          /\ Requested(p)
          /\ position' = p
    /\ UNCHANGED status

Fail ==
    /\ status = "open"
    /\ status' = "failed"
    /\ UNCHANGED position

\* A stream that has not failed ends only when it has nothing left to deliver:
\* at to_block, or at the head when that is where it was told to stop.
End ==
    /\ \/ status = "failed"
       \/ status = "open" /\ (StopOnHead \/ (ToBlock # None /\ position = ToBlock + 1))
    /\ status' = "ended"
    /\ UNCHANGED position

Drop ==
    /\ status \in {"open", "failed"}
    /\ status' = "dropped"
    /\ UNCHANGED position

\* start_stream returns an error instead of a stream.
Refuse ==
    /\ status = "open"
    /\ position = From
    /\ status' = "refused"
    /\ UNCHANGED position

Next == Deliver \/ Fail \/ End \/ Drop \/ Refuse

Spec == Init /\ [][Next]_vars
=============================================================================
