----------------------------- MODULE MCReaders ------------------------------
(* Values for model checking Readers.                                      *)
EXTENDS MCAuctionSystem, Readers

AheadOrAtOnce == QuickAuction \cup ShortAuction

\* 1.00, 2.00 and 3.00.
LadderAmounts == {1004, 2000, 3000}

\* Bounds.  An auction that is listed ahead of its start gets one bid, one that
\* starts at once two; more than that only for a client that pages through the
\* history: then two bids also where the start is repeated after a crash, and
\* three, or a bid of 2.00, before time passes and anything fails.
Bidding == {r \in Requests : pc[r] # "idle"}

Ahead == \E a \in Auctions : row[a].start > 0

Paging == /\ doing \in {"nothing", "paging"} /\ shown = NothingShown
          /\ closeTodo = {} /\ closeCur = NoAuction /\ closeDone = NothingDone
          /\ \A a \in Auctions : row[a].status \notin Settled

Calm == now = 0 /\ faults = 0

FewBids ==
    /\ Cardinality(Bidding) > 1 /\ Ahead => Paging
    /\ Cardinality(Bidding) > 2 => Paging /\ Calm
    /\ \A r \in Requests : req[r].amount = 2000 => Paging /\ Calm

ReadersButStreams == <<AllButStreams, readerVars, late>>

=============================================================================
