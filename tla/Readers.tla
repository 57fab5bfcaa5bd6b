------------------------------ MODULE Readers -------------------------------
(***************************************************************************)
(* A client that reads while others bid and the scheduler works: it walks  *)
(* through the pages of GET /auctions/{id}/history by next_cursor, and it  *)
(* asks for GET /auctions/{id}, whose answer is put together from three    *)
(* reads.  Readers change nothing of AuctionSystem.                        *)
(***************************************************************************)
EXTENDS AuctionSystem

CONSTANTS
    PageSize,       \* the limit of a history request
    StartingPrice   \* starting_price of the auctions, in cents

ASSUME ReadersAssumption == PageSize \in Nat \ {0} /\ StartingPrice \in Nat \ {0}

VARIABLES
    doing,  \* what the client waits for
    walk,   \* its walk through the history, until it asks for a view
    view,   \* what the view in progress has read so far
    shown,  \* its latest complete view, until it turns to the history
    late    \* history: whether a close has read the hash, and a bid came after

readerVars == <<doing, walk, view, shown>>
allVars == <<vars, readerVars, late>>

Doings == {"nothing", "paging", "counting", "asking"}

(* due: the bids in the history when the walk began.                       *)
Walk == [auction : Auctions \cup {NoAuction}, got : Seq(Requests),
         due : SUBSET Requests, ended : BOOLEAN]

NoWalk == [auction |-> NoAuction, got |-> << >>, due |-> {}, ended |-> FALSE]

View == [auction : Auctions \cup {NoAuction}, row : Row, bids : SUBSET Requests]

NoView == [auction |-> NoAuction, row |-> NoRow, bids |-> {}]

(* live: price and state come from the hash.                               *)
Shown == [auction : Auctions \cup {NoAuction}, state : HashState \cup {"UPCOMING"},
          price : Nat, live : BOOLEAN]

NothingShown == [auction |-> NoAuction, state |-> "none", price |-> 0,
                 live |-> FALSE]

(* Types.                                                                  *)
ReadersTypeOK ==
    /\ doing \in Doings /\ walk \in Walk /\ view \in View /\ shown \in Shown
    /\ late \in [Auctions -> {"open", "read", "late"}]
    /\ doing = "paging" => walk.got # << >> /\ ~walk.ended
    /\ doing \in {"counting", "asking"} => view.auction \in Auctions

-----------------------------------------------------------------------------
(* get_bid_history: one query over committed rows for each page.           *)

History(a) == {r \in Requests : bidRow[r].status = "ACCEPTED" /\ req[r].auction = a}

(* Mutant of Below: the bid at the cursor is included.                     *)
UpTo(S, cursor) == {r \in S : bidRow[r].seq <= cursor}

Below(S, cursor) == {r \in S : bidRow[r].seq < cursor}

(* ORDER BY sequence_num DESC LIMIT n; equal numbers come in any order.    *)
Newest(S, n) ==
    LET k == IF Cardinality(S) < n THEN Cardinality(S) ELSE n
        Descends(s) == \A i, j \in 1..k : i < j =>
                          /\ s[i] # s[j]
                          /\ bidRow[s[i]].seq >= bidRow[s[j]].seq
        IsTop(s) == \A r \in S \ {s[i] : i \in 1..k} : \A i \in 1..k :
                          bidRow[r].seq <= bidRow[s[i]].seq
    IN  {s \in [1..k -> S] : Descends(s) /\ IsTop(s)}

(* One row more than the limit is asked for: it tells if there is a next   *)
(* page, whose cursor is the number of this page's last bid.               *)
Page(w, rows) ==
    LET more == Cardinality(rows) > PageSize
    IN  /\ \E page \in Newest(rows, PageSize) :
              walk' = [w EXCEPT !.got = @ \o page, !.ended = ~more]
        /\ doing' = IF more THEN "paging" ELSE "nothing"
        /\ shown' = NothingShown
        /\ UNCHANGED view

FirstPage(a) ==
    /\ doing = "nothing" /\ row[a].status # "absent"
    /\ Page([NoWalk EXCEPT !.auction = a, !.due = History(a)], History(a))

NextPage ==
    /\ doing = "paging"
    /\ Page(walk, Below(History(walk.auction), bidRow[walk.got[Len(walk.got)]].seq))

-----------------------------------------------------------------------------
(* get_auction_detail: the row, the accepted bids, then the hash.          *)

ViewRow(a) ==
    /\ doing = "nothing" /\ row[a].status # "absent"
    /\ view' = [auction |-> a, row |-> row[a], bids |-> {}]
    /\ doing' = "counting"
    /\ walk' = NoWalk
    /\ UNCHANGED shown

ViewBids ==
    /\ doing = "counting"
    /\ view' = [view EXCEPT !.bids = History(view.auction)]
    /\ doing' = "asking"
    /\ UNCHANGED <<walk, shown>>

(* Mutant of Merge: the row is believed.                                   *)
MergeRow(a) ==
    [auction |-> a, live |-> FALSE,
     state |-> view.row.status,
     price |-> IF view.row.price # 0 THEN view.row.price ELSE StartingPrice]

(* The hash is believed where there is one.                                *)
Merge(a) ==
    LET h == hash[a]
        live == h.state # "none"
    IN  [auction |-> a, live |-> live,
         state |-> IF live THEN h.state ELSE view.row.status,
         price |-> IF live THEN h.price
                   ELSE IF view.row.price # 0 THEN view.row.price
                   ELSE StartingPrice]

ViewHash ==
    /\ doing = "asking"
    /\ shown' = Merge(view.auction)
    /\ doing' = "nothing" /\ view' = NoView
    /\ UNCHANGED walk

(* HGETALL raises, and so does the route.  A reader's failure changes      *)
(* nothing for others and is not counted among the faults.                 *)
ViewHashError ==
    /\ doing = "asking"
    /\ shown' = NothingShown
    /\ doing' = "nothing" /\ view' = NoView
    /\ UNCHANGED walk

-----------------------------------------------------------------------------

(* A bid that the script accepts after a close has read the hash.          *)
Watch == late' = [a \in Auctions |->
             IF late[a] = "read" /\ log'[a] # log[a] THEN "late"
             ELSE IF late[a] = "open" /\ closeCur' = a THEN "read"
             ELSE late[a]]

ReadersInit == Init /\ doing = "nothing" /\ walk = NoWalk /\ view = NoView
                    /\ shown = NothingShown
                    /\ late = [a \in Auctions |-> "open"]

Read == \/ NextPage \/ ViewBids \/ ViewHash \/ ViewHashError
        \/ \E a \in Auctions : FirstPage(a) \/ ViewRow(a)

ReadersNext ==
    \/ Next /\ Watch /\ UNCHANGED readerVars
    \/ Read /\ UNCHANGED <<vars, late>>

ReadersSpec == ReadersInit /\ [][ReadersNext]_allVars

-----------------------------------------------------------------------------
(* Properties.                                                             *)

(* A walk shows bids newest first and none twice, and when it comes to the *)
(* last page it has shown every bid that was in the history when it began, *)
(* although bids commit between its pages and in another order than their  *)
(* numbers.  Two bids have one number only if the count of the hash has    *)
(* begun anew (wiped): then a cursor that falls between the two skips one. *)
WalkIsComplete ==
    LET got == walk.got
        n(i) == bidRow[got[i]].seq
        anew == wiped[walk.auction]
    IN  /\ \A i, j \in 1..Len(got) : i < j => /\ got[i] # got[j]
                                              /\ n(i) >= n(j)
                                              /\ n(i) = n(j) => anew
        /\ walk.ended => \A r \in walk.due : \E i \in 1..Len(got) :
              got[i] = r \/ (anew /\ n(i) = bidRow[r].seq)

Answered == doing = "asking" /\ doing' # "asking" /\ shown'.auction # NoAuction

(* The price in a view covers every bid the same view counts: the hash is  *)
(* read last, and a bid is in the hash before it is in the history.        *)
PriceCoversBids ==
    [][Answered /\ ~wiped[view.auction] =>
          \A r \in view.bids : Offer(r) <= shown'.price]_readerVars

(* Two views of one client never go back: an auction once shown as settled *)
(* is not shown running again, one shown running is not shown as upcoming, *)
(* and the price from the hash does not fall, through failed and repeated  *)
(* starts and closes, as long as Redis keeps its data.                     *)
Rank(state) == CASE state = "UPCOMING" -> 1 [] state = "ACTIVE" -> 2 [] OTHER -> 3

ViewsMoveForward ==
    [][LET a == shown.auction
       IN  a # NoAuction /\ shown'.auction = a =>
              /\ Rank(shown.state) <= Rank(shown'.state)
              /\ shown.live /\ ~wiped[a] => shown'.live /\ shown.price <= shown'.price]_shown

(* What a view shows of a settled auction is what the table will record:   *)
(* before the commit the hash already says so, and even if that commit is  *)
(* lost and the close repeated the outcome stays, unless the script had    *)
(* accepted a bid after a close had read the hash.                         *)
ShownOutcomeIsKept ==
    LET a == shown.auction
    IN  shown.state \in Settled /\ row[a].status \in Settled
        /\ ~wiped[a] /\ late[a] # "late"
           => /\ row[a].status = shown.state
              /\ shown.live => row[a].price = shown.price

(* The highest of all accepted bids counts, to the last, unless the script *)
(* had accepted one after a close had read the hash, or the hash was wiped *)
(* of bids: the recorded price is not below any of them, and if it exceeds *)
(* the reserve the auction is sold, however often its close was repeated.  *)
HighestBidCounts ==
    \A a \in Auctions :
        row[a].status \in Settled /\ ~wiped[a] /\ late[a] # "late" =>
            /\ \A i \in 1..Len(log[a]) : Offer(log[a][i].req) <= row[a].price
            /\ row[a].price > row[a].reserve => row[a].status = "SOLD"

(* Without a fault an auction whose row is settled is shown as settled.    *)
SettledRowIsShown ==
    [][Answered /\ faults = 0 /\ view.row.status \in Settled
          => shown'.state = view.row.status]_readerVars

=============================================================================
