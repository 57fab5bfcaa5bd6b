------------------------ MODULE AuctionSystemProofs ------------------------
(***************************************************************************)
(* Theorems about AuctionSystem, for every set of auctions, requests,      *)
(* prices and schedules, every batch size and any number of faults.        *)
(***************************************************************************)
EXTENDS AuctionSystem, BidScriptProofs, TLAPS

(* Each group of variables keeps its type when it does not change.         *)
LEMMA Frames ==
  /\ ClockOK /\ UNCHANGED clockVars => ClockOK'
  /\ DbOK /\ UNCHANGED dbVars => DbOK'
  /\ RedisOK /\ UNCHANGED redisVars => RedisOK'
  /\ RequestsOK /\ UNCHANGED reqVars => RequestsOK'
  /\ StartsOK /\ UNCHANGED startVars => StartsOK'
  /\ ClosesOK /\ UNCHANGED closeVars => ClosesOK'
  /\ HistoryOK /\ UNCHANGED ghostVars => HistoryOK'
<1>1. ClockOK /\ UNCHANGED clockVars => ClockOK'
  BY DEF ClockOK, clockVars
<1>2. DbOK /\ UNCHANGED dbVars => DbOK'
  BY DEF DbOK, dbVars
<1>3. RedisOK /\ UNCHANGED redisVars => RedisOK'
  BY DEF RedisOK, redisVars
<1>4. RequestsOK /\ UNCHANGED reqVars => RequestsOK'
  BY DEF RequestsOK, reqVars
<1>5. StartsOK /\ UNCHANGED startVars => StartsOK'
  BY DEF StartsOK, startVars
<1>6. ClosesOK /\ UNCHANGED closeVars => ClosesOK'
  BY DEF ClosesOK, closeVars
<1>7. HistoryOK /\ UNCHANGED ghostVars => HistoryOK'
  BY DEF HistoryOK, ghostVars
<1> QED
  BY <1>1, <1>2, <1>3, <1>4, <1>5, <1>6, <1>7

(* The fault budget and the clock keep their bounds.                       *)
LEMMA ClockSteps ==
  ASSUME ClockOK
  PROVE  /\ NoFault => ClockOK'
         /\ \A k : Fault(k) => ClockOK'
         /\ Tick => ClockOK'
  BY AuctionSystemAssumption DEF ClockOK, NoFault, clockVars, Fault, Tick

LEMMA NoHashType == NoHash \in Hash
  BY DEF NoHash, Hash, HashState

LEMMA NothingDoneType == NothingDone \in [Auctions -> Outcome]
  BY DEF NothingDone, NoOutcome, Outcome, AnyBidder

(* A request that takes a step of its own keeps the requests well typed.   *)
LEMMA RequestStep ==
  ASSUME RequestsOK, NEW r \in Requests,
         NEW l \in PCs, pc' = [pc EXCEPT ![r] = l],
         pc[r] \notin {"idle", "done"}, UNCHANGED req,
         res' \in [Requests -> Res], told' \in [Requests -> Tolds]
  PROVE  RequestsOK'
  BY DEF RequestsOK

LEMMA TypeInit == Init => TypeOK
<1> SUFFICES ASSUME Init PROVE TypeOK
  OBVIOUS
<1>1. ClockOK
  BY AuctionSystemAssumption DEF Init, ClockOK
<1>2. DbOK
  BY DEF Init, DbOK, NoRow, Row, BidRow, AnyBidder
<1>3. RedisOK
  BY NoHashType DEF Init, RedisOK
<1>4. RequestsOK
  BY DEF Init, RequestsOK, PCs, Tolds, Res, NoRes
<1>5. StartsOK /\ HistoryOK
  BY DEF Init, StartsOK, HistoryOK
<1>6. ClosesOK
  BY NoHashType, NothingDoneType DEF Init, ClosesOK
<1> QED
  BY <1>1, <1>2, <1>3, <1>4, <1>5, <1>6 DEF TypeOK

-----------------------------------------------------------------------------
(* Listing an auction.                                                     *)

LEMMA NewRowType ==
  ASSUME NEW sc \in Schedules, NEW reserve \in Reserves, NEW inc \in Increments
  PROVE  /\ NewRow(sc, reserve, inc) \in Row
         /\ HashOf(NewRow(sc, reserve, inc)) \in Hash
<1>1. /\ sc.start \in Nat /\ sc.end \in Nat
      /\ Cents(reserve) \in Nat /\ Cents(inc) \in Nat
  BY CentsType, AuctionSystemAssumption
<1> DEFINE new == NewRow(sc, reserve, inc)
<1>3. new \in Row
  BY <1>1 DEF NewRow, Row, AnyBidder
<1>4. new.end \in Nat /\ new.inc \in Nat
  BY <1>1 DEF NewRow
<1> HIDE DEF new
<1>5. HashOf(new) \in Hash
  BY <1>4, InitHashType, NoHashType DEF HashOf
<1> QED
  BY <1>3, <1>5 DEF new

LEMMA CreateType ==
  ASSUME TypeOK, NEW a \in Auctions,
         CreateAuction(a) \/ CreateAuctionLosesCommit(a)
  PROVE  TypeOK'
<1>1. ClockOK'
  BY ClockSteps DEF TypeOK, CreateAuction, CreateAuctionLosesCommit
<1>2. DbOK' /\ RedisOK'
  <2>1. CASE CreateAuction(a)
    BY <2>1, NewRowType DEF CreateAuction, TypeOK, DbOK, RedisOK
  <2>2. CASE CreateAuctionLosesCommit(a)
    BY <2>2, NewRowType DEF CreateAuctionLosesCommit, TypeOK, DbOK, RedisOK, dbVars
  <2> QED
    BY <2>1, <2>2
<1>3. RequestsOK' /\ StartsOK' /\ ClosesOK' /\ HistoryOK'
  BY Frames DEF TypeOK, CreateAuction, CreateAuctionLosesCommit
<1> QED
  BY <1>1, <1>2, <1>3 DEF TypeOK

-----------------------------------------------------------------------------
(* Serving a request.                                                      *)

(* A step that changes the clock by at most a fault, one request, and      *)
(* nothing else but possibly its stored answer.                            *)
LEMMA ServeType ==
  ASSUME TypeOK, NEW r \in Requests, NEW l \in PCs,
         pc[r] \notin {"idle", "done"}, Goto(r, l),
         NoFault \/ \E k : Fault(k),
         UNCHANGED <<dbVars, redisVars, req, startVars, closeVars, ghostVars>>,
         res' \in [Requests -> Res], told' \in [Requests -> Tolds]
  PROVE  TypeOK'
<1>1. ClockOK'
  BY ClockSteps DEF TypeOK
<1>2. RequestsOK'
  BY RequestStep DEF TypeOK, Goto
<1>3. DbOK' /\ RedisOK' /\ StartsOK' /\ ClosesOK' /\ HistoryOK'
  BY Frames DEF TypeOK
<1> QED
  BY <1>1, <1>2, <1>3 DEF TypeOK

LEMMA ReceiveType ==
  ASSUME TypeOK, NEW r \in Requests, Receive(r)
  PROVE  TypeOK'
<1>1. PICK q \in [auction : Auctions, bidder : Bidders, amount : Amounts,
                  proxy : ProxyChoices, ts : {now}] :
          /\ req' = [req EXCEPT ![r] = q]
          /\ IF row[q.auction].status = "absent"
             THEN Answer(r, "NOT_FOUND")
             ELSE Goto(r, "received") /\ UNCHANGED told
  BY DEF Receive
<1>2. q \in Req
  BY AuctionSystemAssumption DEF Req, TypeOK, ClockOK
<1>3. RequestsOK'
  <2>1. req' \in [Requests -> Req \cup {NoReq}] /\ req'[r] \in Req
    BY <1>1, <1>2 DEF TypeOK, RequestsOK
  <2>2. \A p \in Requests \ {r} : req'[p] = req[p] /\ pc'[p] = pc[p]
    BY <1>1 DEF TypeOK, RequestsOK, Answer, Goto
  <2>3. /\ pc' \in [Requests -> PCs]
        /\ told' \in [Requests -> Tolds]
        /\ res' \in [Requests -> Res]
    BY <1>1 DEF TypeOK, RequestsOK, Answer, Goto, PCs, Tolds, Receive
  <2> QED
    BY <2>1, <2>2, <2>3 DEF TypeOK, RequestsOK
<1>4. ClockOK' /\ DbOK' /\ RedisOK' /\ StartsOK' /\ ClosesOK' /\ HistoryOK'
  BY ClockSteps, Frames DEF TypeOK, Receive
<1> QED
  BY <1>3, <1>4 DEF TypeOK

(* What trimming leaves: the last entries, in their order, and all of them *)
(* unless StreamLimit are left.                                            *)
LEMMA TrimKeeps ==
  ASSUME NEW S, NEW s \in Seq(S), NEW t \in Trimmed(s)
  PROVE  /\ t \in Seq(S)
         /\ \E i \in 0..Len(s) - 1 : /\ Len(t) = Len(s) - i
                                     /\ \A k \in 1..Len(t) : t[k] = s[k + i]
                                     /\ (i = 0 \/ Len(t) >= StreamLimit)
<1>1. PICK j \in 1..Len(s) : /\ t = SubSeq(s, j, Len(s))
                             /\ (j = 1 \/ Len(s) - j >= StreamLimit - 1)
  BY DEF Trimmed
<1>2. /\ t \in Seq(S) /\ Len(t) = Len(s) - (j - 1)
      /\ \A k \in 1..Len(t) : t[k] = s[k + (j - 1)]
  BY <1>1
<1>3. j - 1 \in 0..Len(s) - 1 /\ (j - 1 = 0 \/ Len(t) >= StreamLimit)
  BY <1>1, <1>2, AuctionSystemAssumption
<1> QED
  BY <1>2, <1>3

LEMMA AppendType ==
  ASSUME TypeOK, NEW r \in Requests, AppendStream(r) \/ AppendStreamError(r)
  PROVE  TypeOK'
<1>1. CASE AppendStream(r)
  <2>1. RequestsOK'
    BY <1>1, RequestStep DEF TypeOK, RequestsOK, AppendStream, Goto, PCs
  <2>2. req[r].auction \in Auctions
    BY <1>1 DEF TypeOK, RequestsOK, AppendStream, Req
  <2>3. RedisOK'
    <3>1. stream' \in [Auctions -> Seq(Requests)]
      <4> DEFINE a == req[r].auction
      <4>1. PICK s \in Trimmed(Append(stream[a], r)) : stream' = [stream EXCEPT ![a] = s]
        BY <1>1 DEF AppendStream
      <4>2. /\ stream \in [Auctions -> Seq(Requests)]
            /\ Append(stream[a], r) \in Seq(Requests)
        BY <2>2 DEF TypeOK, RedisOK
      <4>3. s \in Seq(Requests)
        BY <4>2, TrimKeeps
      <4> QED
        BY <2>2, <4>1, <4>2, <4>3
    <3> QED
      BY <1>1, <3>1 DEF TypeOK, RedisOK, AppendStream
  <2>4. ClockOK' /\ DbOK' /\ StartsOK' /\ ClosesOK' /\ HistoryOK'
    BY <1>1, ClockSteps, Frames DEF TypeOK, AppendStream
  <2> QED
    BY <2>1, <2>3, <2>4 DEF TypeOK
<1>2. CASE AppendStreamError(r)
  BY <1>2, ServeType DEF AppendStreamError, TypeOK, RequestsOK, PCs, redisVars
<1> QED
  BY <1>1, <1>2

(* The script keeps the types of what it writes.                           *)
LEMMA AcceptType ==
  ASSUME TypeOK, NEW r \in Requests, req[r] \in Req, Accept(r),
         UNCHANGED <<stream, scriptReady, seen, wiped>>
  PROVE  RedisOK' /\ HistoryOK'
<1> DEFINE q == req[r]
           raised == Raise(hash[q.auction], q.bidder, Cents(q.amount))
           e == [req |-> r, seq |-> raised.seq]
<1>1. /\ q.auction \in Auctions /\ q.bidder \in Bidders
      /\ Cents(q.amount) \in Nat
  BY CentsType, AuctionSystemAssumption DEF Req
<1>2. hash[q.auction] \in Hash
  BY <1>1 DEF TypeOK, RedisOK
<1>3. hash' = [hash EXCEPT ![q.auction] = raised]
  BY DEF Accept
<1>4. log' = [log EXCEPT ![q.auction] = Append(@, e)]
  BY DEF Accept
<1> HIDE DEF q
<1>5. raised \in Hash
  BY <1>1, <1>2, RaiseType
<1> HIDE DEF raised
<1>6. e \in Entry
  BY <1>5 DEF Entry, Hash
<1> HIDE DEF e
<1>7. RedisOK'
  BY <1>1, <1>3, <1>5 DEF TypeOK, RedisOK
<1>8. log[q.auction] \in Seq(Entry)
  BY <1>1 DEF TypeOK, HistoryOK
<1>9. Append(log[q.auction], e) \in Seq(Entry)
  BY <1>6, <1>8
<1>10. log' \in [Auctions -> Seq(Entry)]
  BY <1>4, <1>9 DEF TypeOK, HistoryOK
<1> QED
  BY <1>7, <1>10 DEF TypeOK, HistoryOK

LEMMA EvaluateType ==
  ASSUME TypeOK, NEW r \in Requests,
         EvaluateAccepts(r) \/ EvaluateRejects(r) \/ EvaluateError(r)
  PROVE  TypeOK'
<1>1. pc[r] = "appended" /\ req[r] \in Req
  BY DEF EvaluateAccepts, EvaluateRejects, EvaluateError, TypeOK, RequestsOK
<1>2. CASE EvaluateAccepts(r)
  <2>1. hash[req[r].auction].seq + 1 \in Nat
    BY <1>1 DEF Req, TypeOK, RedisOK, Hash
  <2>2. res' \in [Requests -> Res]
    BY <1>2, <2>1 DEF EvaluateAccepts, TypeOK, RequestsOK, Res
  <2>3. RequestsOK'
    BY <1>1, <1>2, <2>2, RequestStep
    DEF EvaluateAccepts, TypeOK, RequestsOK, Goto, PCs
  <2>4. RedisOK' /\ HistoryOK'
    BY <1>1, <1>2, AcceptType DEF EvaluateAccepts
  <2>5. ClockOK' /\ DbOK' /\ StartsOK' /\ ClosesOK'
    BY <1>2, ClockSteps, Frames DEF TypeOK, EvaluateAccepts
  <2> QED
    BY <2>3, <2>4, <2>5 DEF TypeOK
<1>3. CASE EvaluateRejects(r)
  <2>1. VerdictOn(r) \in Rejections \cup {"ACCEPTED"}
    BY VerdictType DEF VerdictOn
  <2>2. res' \in [Requests -> Res]
    BY <1>3, <2>1 DEF EvaluateRejects, TypeOK, RequestsOK, Res
  <2>3. told' \in [Requests -> Tolds]
    BY <1>3 DEF EvaluateRejects, TypeOK, RequestsOK
  <2> QED
    BY <1>1, <1>3, <2>2, <2>3, ServeType DEF EvaluateRejects, PCs
<1>4. CASE EvaluateError(r)
  <2>1. RequestsOK'
    BY <1>1, <1>4, RequestStep
    DEF EvaluateError, Answer, Goto, TypeOK, RequestsOK, PCs, Tolds
  <2>2. DbOK' /\ StartsOK' /\ ClosesOK'
    BY <1>4, Frames DEF TypeOK, EvaluateError
  <2>3. ClockOK'
    BY <1>4, ClockSteps DEF TypeOK, EvaluateError
  <2>4. RedisOK' /\ HistoryOK'
    <3>1. CASE UNCHANGED <<hash, log>>
      BY <1>4, <3>1, Frames DEF TypeOK, EvaluateError, redisVars, ghostVars
    <3>2. CASE Accept(r)
      BY <1>1, <1>4, <3>2, AcceptType DEF EvaluateError
    <3> QED
      BY <1>4, <3>1, <3>2 DEF EvaluateError
  <2> QED
    BY <2>1, <2>2, <2>3, <2>4 DEF TypeOK
<1> QED
  BY <1>2, <1>3, <1>4

LEMMA ReadBackType ==
  ASSUME TypeOK, NEW r \in Requests, ReadBack(r) \/ ReadBackError(r)
  PROVE  TypeOK'
<1>1. pc[r] = "rejected" /\ req[r].auction \in Auctions
  BY DEF ReadBack, ReadBackError, TypeOK, RequestsOK, Req
<1>2. hash[req[r].auction].seq \in Nat
  BY <1>1 DEF TypeOK, RedisOK, Hash
<1>3. CASE ReadBack(r)
  <2>1. res' \in [Requests -> Res] /\ told' \in [Requests -> Tolds]
    BY <1>2, <1>3 DEF ReadBack, TypeOK, RequestsOK, Res
  <2> QED
    BY <1>1, <1>3, <2>1, ServeType DEF ReadBack, PCs
<1>4. CASE ReadBackError(r)
  <2>1. res' \in [Requests -> Res] /\ told' \in [Requests -> Tolds]
    BY <1>4 DEF ReadBackError, Answer, TypeOK, RequestsOK, Tolds
  <2> QED
    BY <1>1, <1>4, <2>1, ServeType DEF ReadBackError, Answer, PCs
<1> QED
  BY <1>3, <1>4

LEMMA PersistType ==
  ASSUME TypeOK, NEW r \in Requests,
         Persist(r) \/ InsertProxy(r) \/ ReplyBeforeCommit(r)
  PROVE  TypeOK'
<1>1. pc[r] \notin {"idle", "done"}
  BY DEF Persist, InsertProxy, ReplyBeforeCommit
<1>2. /\ res' \in [Requests -> Res]
      /\ told' \in [Requests -> Tolds]
  <2>1. CASE Persist(r)
    BY <2>1 DEF Persist, Answer, TypeOK, RequestsOK, Tolds
  <2>2. CASE InsertProxy(r)
    <3>1. CASE ProxyKey(r) \in proxy
      BY <2>2, <3>1 DEF InsertProxy, Answer, TypeOK, RequestsOK, Tolds
    <3>2. CASE ProxyKey(r) \notin proxy
      <4>1. res' = [res EXCEPT ![r].inserts = TRUE] /\ told' = told
        BY <2>2, <3>2 DEF InsertProxy
      <4> QED
        BY <4>1 DEF TypeOK, RequestsOK, Res
    <3> QED
      BY <3>1, <3>2
  <2>3. CASE ReplyBeforeCommit(r)
    BY <2>3 DEF ReplyBeforeCommit, StatusOf, TypeOK, RequestsOK, Tolds
  <2> QED
    BY <2>1, <2>2, <2>3
<1>3. \E l \in PCs : Goto(r, l)
  BY DEF Persist, InsertProxy, ReplyBeforeCommit, Answer, PCs
<1>4. /\ NoFault
      /\ UNCHANGED <<dbVars, redisVars, req, startVars, closeVars, ghostVars>>
  BY DEF Persist, InsertProxy, ReplyBeforeCommit
<1> QED
  BY <1>1, <1>2, <1>3, <1>4, ServeType

LEMMA CommitBidType ==
  ASSUME TypeOK, NEW r \in Requests, CommitBid(r) \/ CommitBidError(r)
  PROVE  TypeOK'
<1>1. pc[r] \notin {"idle", "done"} /\ req[r] \in Req
  BY DEF CommitBid, CommitBidError, AtCommit, TypeOK, RequestsOK
<1>2. res' \in [Requests -> Res]
  BY DEF CommitBid, CommitBidError, Release, TypeOK, RequestsOK, Res
<1>3. told' \in [Requests -> Tolds]
  BY DEF CommitBid, CommitBidError, Answer, StatusOf, TypeOK, RequestsOK, Tolds
<1>4. Goto(r, "done") /\ "done" \in PCs
  BY DEF CommitBid, CommitBidError, Answer, PCs
<1>5. CASE CommitBid(r)
  <2>1. RequestsOK'
    BY <1>1, <1>2, <1>3, <1>4, <1>5, RequestStep DEF CommitBid, Goto, TypeOK
  <2>2. DbOK'
    <3>1. [status |-> StatusOf(r), seq |-> SeqToStore(r)] \in BidRow
      BY DEF StatusOf, SeqToStore, BidRow, TypeOK, RequestsOK, Res
    <3>2. bidRow' \in [Requests -> BidRow]
      BY <1>5, <3>1 DEF CommitBid, TypeOK, DbOK
    <3>3. ProxyKey(r) \in Auctions \X Bidders
      BY <1>1 DEF ProxyKey, Req
    <3>4. proxy' \subseteq Auctions \X Bidders
      BY <1>5, <3>3 DEF CommitBid, TypeOK, DbOK
    <3> QED
      BY <1>5, <3>2, <3>4 DEF CommitBid, TypeOK, DbOK
  <2>3. ClockOK' /\ RedisOK' /\ StartsOK' /\ ClosesOK' /\ HistoryOK'
    BY <1>5, ClockSteps, Frames DEF TypeOK, CommitBid
  <2> QED
    BY <2>1, <2>2, <2>3 DEF TypeOK
<1>6. CASE CommitBidError(r)
  BY <1>1, <1>2, <1>3, <1>4, <1>6, ServeType DEF CommitBidError
<1> QED
  BY <1>5, <1>6

-----------------------------------------------------------------------------
(* The start job.                                                          *)

LEMMA StartType ==
  ASSUME TypeOK, NEW a \in Auctions, StartAuction(a) \/ StartAuctionError(a)
  PROVE  TypeOK'
<1>1. StartsOK'
  BY DEF TypeOK, StartsOK, StartAuction, StartAuctionError, MarkStarted
<1>2. ClockOK'
  BY ClockSteps DEF TypeOK, StartAuction, StartAuctionError
<1>3. DbOK' /\ RequestsOK' /\ ClosesOK'
  BY Frames DEF TypeOK, StartAuction, StartAuctionError
<1>4. UNCHANGED <<stream, scriptReady, log, seen>>
  BY DEF StartAuction, StartAuctionError
<1>5. CASE InitKey(a)
  <2>1. InitHash(row[a].end, row[a].inc) \in Hash
    BY InitHashType DEF TypeOK, DbOK, Row
  <2>2. hash' \in [Auctions -> Hash]
    BY <1>5, <2>1 DEF InitKey, TypeOK, RedisOK
  <2>3. wiped' \in [Auctions -> BOOLEAN]
    <3>1. Forgets(a) \in BOOLEAN
      BY DEF Forgets, TypeOK, HistoryOK
    <3> QED
      BY <1>5, <3>1 DEF InitKey, TypeOK, HistoryOK
  <2> QED
    BY <1>1, <1>2, <1>3, <1>4, <2>2, <2>3 DEF TypeOK, RedisOK, HistoryOK
<1>6. CASE UNCHANGED <<hash, wiped>>
  BY <1>1, <1>2, <1>3, <1>4, <1>6 DEF TypeOK, RedisOK, HistoryOK
<1> QED
  BY <1>5, <1>6 DEF StartAuction, StartAuctionError

LEMMA StartBatchType ==
  ASSUME TypeOK, PollStarts \/ CommitStarts \/ CommitStartsError
  PROVE  TypeOK'
<1>1. StartsOK'
  BY DEF PollStarts, CommitStarts, CommitStartsError, Batches, DueStarts,
         TypeOK, StartsOK
<1>2. DbOK'
  <2>1. CASE CommitStarts
    <3>1. row' \in [Auctions -> Row]
      BY <2>1 DEF CommitStarts, TypeOK, DbOK, Row
    <3> QED
      BY <2>1, <3>1 DEF CommitStarts, TypeOK, DbOK
  <2>2. CASE PollStarts \/ CommitStartsError
    BY <2>2, Frames DEF PollStarts, CommitStartsError, TypeOK
  <2> QED
    BY <2>1, <2>2
<1>3. ClockOK'
  BY ClockSteps DEF PollStarts, CommitStarts, CommitStartsError, TypeOK
<1>4. RedisOK' /\ RequestsOK' /\ ClosesOK' /\ HistoryOK'
  BY Frames DEF PollStarts, CommitStarts, CommitStartsError, TypeOK
<1> QED
  BY <1>1, <1>2, <1>3, <1>4 DEF TypeOK

-----------------------------------------------------------------------------
(* The close job.                                                          *)

LEMMA CloseReadType ==
  ASSUME TypeOK, NEW a \in Auctions, CloseRead(a) \/ CloseReadError(a)
  PROVE  TypeOK'
<1>1. ClockOK' /\ DbOK' /\ RedisOK' /\ RequestsOK' /\ StartsOK'
  BY ClockSteps, Frames DEF TypeOK, CloseRead, CloseReadError
<1>2. ClosesOK'
  BY DEF TypeOK, ClosesOK, RedisOK, CloseRead, CloseReadError, Turn
<1>3. HistoryOK'
  <2>1. CASE CloseRead(a)
    <3>1. Len(log[a]) \in Nat
      BY DEF TypeOK, HistoryOK
    <3> QED
      BY <2>1, <3>1 DEF CloseRead, TypeOK, HistoryOK
  <2>2. CASE CloseReadError(a)
    BY <2>2, Frames DEF CloseReadError, TypeOK
  <2> QED
    BY <2>1, <2>2
<1> QED
  BY <1>1, <1>2, <1>3 DEF TypeOK

(* What a close leaves in the session is an outcome: a sale with a bidder  *)
(* as its winner, or no sale and no winner.                                *)
LEMMA SettlementType ==
  ASSUME NEW a \in Auctions, NEW h \in Hash, row[a] \in Row
  PROVE  /\ Settlement(a, h) \in Outcome
         /\ Settlement(a, h).status \in Settled
         /\ Settlement(a, h).status = "SOLD"
              => Settlement(a, h).winner \in Bidders
         /\ Settlement(a, h).status = "UNSOLD"
              => Settlement(a, h).winner = NoBidder
<1>1. /\ h.leader \in Bidders \cup {NoBidder} /\ h.price \in Nat
      /\ row[a].price \in Nat
  BY DEF Hash, Row
<1>2. CASE h.leader = NoBidder
  BY <1>1, <1>2 DEF Settlement, Outcome, AnyBidder, Settled
<1>3. CASE h.leader # NoBidder /\ MeetsReserve(h.price, row[a].reserve)
  BY <1>1, <1>3 DEF Settlement, Outcome, AnyBidder, Settled
<1>4. CASE h.leader # NoBidder /\ ~MeetsReserve(h.price, row[a].reserve)
  BY <1>1, <1>4 DEF Settlement, Outcome, AnyBidder, Settled
<1> QED
  BY <1>2, <1>3, <1>4

LEMMA CloseApplyType ==
  ASSUME TypeOK, CloseApply \/ CloseApplyError
  PROVE  TypeOK'
<1> DEFINE o == Settlement(closeCur, closeSnap)
<1>1. closeCur \in Auctions /\ closeSnap \in Hash /\ row[closeCur] \in Row
  BY DEF CloseApply, CloseApplyError, SettleCurrent, TypeOK, ClosesOK, DbOK
<1>2. o \in Outcome /\ o.status \in Settled
  BY <1>1, SettlementType
<1>3. closeDone' = [closeDone EXCEPT ![closeCur] = o]
  BY DEF CloseApply, CloseApplyError, SettleCurrent
<1>4. MarkClosed => hash' = [hash EXCEPT ![closeCur].state = o.status]
  BY DEF MarkClosed
<1> HIDE DEF o
<1>5. ClosesOK'
  BY <1>2, <1>3, NoHashType
  DEF CloseApply, CloseApplyError, SettleCurrent, TypeOK, ClosesOK
<1>6. hash' \in [Auctions -> Hash]
  <2>1. CASE UNCHANGED hash
    BY <2>1 DEF TypeOK, RedisOK
  <2>2. CASE MarkClosed
    <3>1. [hash[closeCur] EXCEPT !.state = o.status] \in Hash
      BY <1>1, <1>2 DEF TypeOK, RedisOK, Hash, HashState
    <3> QED
      BY <1>1, <1>4, <2>2, <3>1 DEF TypeOK, RedisOK
  <2> QED
    BY <2>1, <2>2 DEF CloseApply, CloseApplyError
<1>7. RedisOK'
  BY <1>6 DEF CloseApply, CloseApplyError, TypeOK, RedisOK
<1>8. ClockOK' /\ DbOK' /\ RequestsOK' /\ StartsOK' /\ HistoryOK'
  BY ClockSteps, Frames DEF TypeOK, CloseApply, CloseApplyError
<1> QED
  BY <1>5, <1>7, <1>8 DEF TypeOK

LEMMA AbandonType == ClosesOK /\ AbandonCloses => ClosesOK'
  BY NoHashType, NothingDoneType DEF ClosesOK, AbandonCloses

LEMMA CloseBatchType ==
  ASSUME TypeOK, PollCloses \/ CloseFlushFails \/ CommitCloses \/ CommitClosesError
  PROVE  TypeOK'
<1>1. ClosesOK'
  <2>1. CASE PollCloses
    BY <2>1 DEF PollCloses, Batches, DueCloses, TypeOK, ClosesOK
  <2>2. CASE CloseFlushFails \/ CommitCloses \/ CommitClosesError
    BY <2>2, AbandonType
    DEF CloseFlushFails, CommitCloses, CommitClosesError, TypeOK
  <2> QED
    BY <2>1, <2>2
<1>2. DbOK'
  <2>1. CASE CommitCloses
    <3>1. ASSUME NEW a \in Auctions, closeDone[a].status # "none"
          PROVE  [row[a] EXCEPT !.status = closeDone[a].status,
                                !.price  = closeDone[a].price,
                                !.winner = closeDone[a].winner] \in Row
      <4>1. /\ closeDone[a].status \in Settled
            /\ closeDone[a].price \in Nat
            /\ closeDone[a].winner \in AnyBidder
        BY <3>1 DEF TypeOK, ClosesOK, Outcome
      <4>2. row[a] \in Row
        BY DEF TypeOK, DbOK
      <4> QED
        BY <4>1, <4>2 DEF Row
    <3>2. row' \in [Auctions -> Row]
      BY <2>1, <3>1 DEF CommitCloses, TypeOK, DbOK
    <3> QED
      BY <2>1, <3>2 DEF CommitCloses, TypeOK, DbOK
  <2>2. CASE PollCloses \/ CloseFlushFails \/ CommitClosesError
    BY <2>2, Frames DEF PollCloses, CloseFlushFails, CommitClosesError, TypeOK
  <2> QED
    BY <2>1, <2>2
<1>3. ClockOK'
  BY ClockSteps
  DEF PollCloses, CloseFlushFails, CommitCloses, CommitClosesError, TypeOK
<1>4. RedisOK' /\ RequestsOK' /\ StartsOK' /\ HistoryOK'
  BY Frames
  DEF PollCloses, CloseFlushFails, CommitCloses, CommitClosesError, TypeOK
<1> QED
  BY <1>1, <1>2, <1>3, <1>4 DEF TypeOK

-----------------------------------------------------------------------------
(* Time and crashes.                                                       *)

LEMMA CrashType ==
  ASSUME TypeOK, Tick \/ AppCrash \/ RedisLoss
  PROVE  TypeOK'
<1>1. CASE Tick
  BY <1>1, ClockSteps, Frames DEF Tick, TypeOK
<1>2. CASE AppCrash
  <2>1. res' \in [Requests -> Res]
    BY <1>2 DEF AppCrash, TypeOK, RequestsOK, Res
  <2>2. /\ pc' \in [Requests -> PCs]
        /\ told' \in [Requests -> Tolds]
        /\ \A r \in Requests : pc'[r] \in {"idle", "done"}
    BY <1>2 DEF AppCrash, InFlight, TypeOK, RequestsOK, PCs, Tolds
  <2>3. RequestsOK'
    BY <1>2, <2>1, <2>2 DEF AppCrash, TypeOK, RequestsOK
  <2>4. StartsOK' /\ RedisOK'
    BY <1>2 DEF AppCrash, TypeOK, StartsOK, RedisOK
  <2>5. ClosesOK'
    BY <1>2, AbandonType DEF AppCrash, TypeOK
  <2>6. ClockOK' /\ DbOK' /\ HistoryOK'
    BY <1>2, ClockSteps, Frames DEF AppCrash, TypeOK
  <2> QED
    BY <2>3, <2>4, <2>5, <2>6 DEF TypeOK
<1>3. CASE RedisLoss
  <2>1. RedisOK'
    <3>1. hash' \in [Auctions -> Hash]
      BY <1>3, NoHashType DEF RedisLoss
    <3>2. << >> \in Seq(Requests)
      OBVIOUS
    <3>3. stream' \in [Auctions -> Seq(Requests)]
      BY <1>3, <3>2 DEF RedisLoss
    <3>4. scriptReady' \in BOOLEAN
      BY <1>3 DEF RedisLoss
    <3> QED
      BY <3>1, <3>3, <3>4 DEF RedisOK
  <2>2. HistoryOK'
    BY <1>3 DEF RedisLoss, TypeOK, HistoryOK, Forgets
  <2>3. ClockOK' /\ DbOK' /\ RequestsOK' /\ StartsOK' /\ ClosesOK'
    BY <1>3, ClockSteps, Frames DEF RedisLoss, TypeOK
  <2> QED
    BY <2>1, <2>2, <2>3 DEF TypeOK
<1> QED
  BY <1>1, <1>2, <1>3

LEMMA TypeStep == TypeOK /\ [Next]_vars => TypeOK'
<1> SUFFICES ASSUME TypeOK, [Next]_vars PROVE TypeOK'
  OBVIOUS
<1>1. CASE Tick \/ AppCrash \/ RedisLoss
  BY <1>1, CrashType
<1>2. ASSUME NEW a \in Auctions, CreateAuction(a) \/ CreateAuctionLosesCommit(a)
      PROVE  TypeOK'
  BY <1>2, CreateType
<1>3. ASSUME NEW r \in Requests, Receive(r) \/ Serve(r) \/ ServeFault(r)
      PROVE  TypeOK'
  BY <1>3, ReceiveType, AppendType, EvaluateType, ReadBackType, PersistType,
     CommitBidType
  DEF Serve, ServeFault
<1>4. CASE StartJob
  BY <1>4, StartType, StartBatchType DEF StartJob
<1>5. CASE CloseJob
  BY <1>5, CloseReadType, CloseApplyType, CloseBatchType DEF CloseJob
<1>6. CASE JobFault
  BY <1>6, StartType, StartBatchType, CloseReadType, CloseApplyType,
     CloseBatchType
  DEF JobFault
<1>7. CASE UNCHANGED vars
  BY <1>7, Frames DEF vars, TypeOK
<1> QED
  BY <1>1, <1>2, <1>3, <1>4, <1>5, <1>6, <1>7 DEF Next

(* Rows, hashes, requests, sessions of the jobs and history keep their     *)
(* types for any number of auctions, requests and faults.                  *)
THEOREM TypeCorrect == Spec => []TypeOK
<1> QED
  BY TypeInit, TypeStep, PTL DEF Spec

-----------------------------------------------------------------------------
(* The lifecycle.                                                          *)

(* The inductive invariant of the jobs: since only one instance of each    *)
(* runs, every auction a job has selected is still in the state its query  *)
(* asked for when the job commits, crash or not; and what a close has left *)
(* in its session is a proper outcome.                                     *)
StartsHold == \A a \in startTodo \cup startDone : row[a].status = "UPCOMING"

ClosesHold ==
    /\ \A a \in closeTodo : row[a].status = "ACTIVE"
    /\ closeCur # NoAuction => row[closeCur].status = "ACTIVE"
    /\ \A a \in Auctions : closeDone[a].status # "none" =>
           /\ row[a].status = "ACTIVE"
           /\ closeDone[a].status = "SOLD" => closeDone[a].winner \in Bidders
           /\ closeDone[a].status = "UNSOLD" => closeDone[a].winner = NoBidder

JobsHold == StartsHold /\ ClosesHold

LEMMA JobsInit == Init => JobsHold
  BY DEF Init, JobsHold, StartsHold, ClosesHold, NothingDone, NoOutcome

(* Requests, time, Redis and a listing that is lost leave jobs and rows.   *)
LEMMA JobsFrame ==
  ASSUME JobsHold, UNCHANGED <<row, startVars, closeVars>>
  PROVE  JobsHold'
  BY DEF JobsHold, StartsHold, ClosesHold, startVars, closeVars

LEMMA RequestsLeaveJobs ==
  ASSUME NEW r \in Requests, Receive(r) \/ Serve(r) \/ ServeFault(r)
  PROVE  UNCHANGED <<row, startVars, closeVars>>
<1>1. CASE Receive(r)
  BY <1>1 DEF Receive, dbVars
<1>2. CASE Serve(r)
  BY <1>2 DEF Serve, AppendStream, EvaluateAccepts, EvaluateRejects, ReadBack,
     Persist, InsertProxy, ReplyBeforeCommit, CommitBid, dbVars
<1>3. CASE ServeFault(r)
  BY <1>3 DEF ServeFault, AppendStreamError, EvaluateError, ReadBackError,
     CommitBidError, dbVars
<1> QED
  BY <1>1, <1>2, <1>3

LEMMA JobsCreate ==
  ASSUME TypeOK, JobsHold, NEW a \in Auctions, CreateAuction(a)
  PROVE  JobsHold'
<1>1. row[a].status = "absent"
  BY DEF CreateAuction, Listable
<1>2. \A b \in Auctions \ {a} : row'[b] = row[b]
  BY DEF CreateAuction, TypeOK, DbOK
<1>3. UNCHANGED <<startTodo, startDone, closeTodo, closeCur, closeDone>>
  BY DEF CreateAuction, startVars, closeVars
<1>4. StartsHold'
  BY <1>1, <1>2, <1>3 DEF JobsHold, StartsHold, TypeOK, StartsOK
<1>5. ClosesHold'
  BY <1>1, <1>2, <1>3 DEF JobsHold, ClosesHold, TypeOK, ClosesOK
<1> QED
  BY <1>4, <1>5 DEF JobsHold

LEMMA JobsStart ==
  ASSUME TypeOK, JobsHold,
         \/ StartJob \/ CommitStartsError
         \/ \E a \in Auctions : StartAuctionError(a)
  PROVE  JobsHold'
<1>1. CASE PollStarts
  <2>1. StartsHold'
    BY <1>1 DEF PollStarts, StartsIdle, Batches, DueStarts, StartsHold, dbVars
  <2>2. ClosesHold'
    BY <1>1 DEF PollStarts, JobsHold, ClosesHold, dbVars, closeVars
  <2> QED
    BY <2>1, <2>2 DEF JobsHold
<1>2. ASSUME NEW a \in Auctions, StartAuction(a) \/ StartAuctionError(a)
      PROVE  JobsHold'
  <2>1. MarkStarted(a) /\ UNCHANGED <<row, closeVars>>
    BY <1>2 DEF StartAuction, StartAuctionError, dbVars
  <2> QED
    BY <2>1 DEF MarkStarted, JobsHold, StartsHold, ClosesHold, closeVars
<1>3. CASE CommitStarts
  <2>1. startTodo' = {} /\ startDone' = {} /\ UNCHANGED closeVars
    BY <1>3 DEF CommitStarts, StartsReady
  <2>2. \A a \in Auctions : row[a].status = "ACTIVE" => row'[a] = row[a]
    BY <1>3 DEF CommitStarts, JobsHold, StartsHold
  <2> QED
    BY <2>1, <2>2
    DEF JobsHold, StartsHold, ClosesHold, closeVars, TypeOK, ClosesOK
<1>4. CASE CommitStartsError
  BY <1>4 DEF CommitStartsError, StartsReady, JobsHold, StartsHold, ClosesHold,
     dbVars, closeVars
<1> QED
  BY <1>1, <1>2, <1>3, <1>4 DEF StartJob

(* Abandoning a batch leaves nothing to hold.                              *)
LEMMA JobsAbandon ==
  ASSUME StartsHold', AbandonCloses
  PROVE  JobsHold'
  BY DEF JobsHold, ClosesHold, AbandonCloses, NothingDone, NoOutcome

LEMMA JobsClose ==
  ASSUME TypeOK, JobsHold,
         \/ CloseJob \/ CommitClosesError \/ CloseApplyError
         \/ \E a \in Auctions : CloseReadError(a)
  PROVE  JobsHold'
<1>1. CASE PollCloses
  <2>1. StartsHold'
    BY <1>1 DEF PollCloses, JobsHold, StartsHold, dbVars, startVars
  <2>2. ClosesHold'
    BY <1>1 DEF PollCloses, ClosesIdle, Batches, DueCloses, JobsHold, ClosesHold,
       dbVars
  <2> QED
    BY <2>1, <2>2 DEF JobsHold
<1>2. ASSUME NEW a \in Auctions, CloseRead(a) \/ CloseReadError(a)
      PROVE  JobsHold'
  <2>1. /\ Turn(a) /\ UNCHANGED <<row, startVars, closeDone>>
        /\ closeCur' \in {a, closeCur}
    BY <1>2 DEF CloseRead, CloseReadError, dbVars
  <2> QED
    BY <2>1 DEF Turn, JobsHold, StartsHold, ClosesHold, startVars
<1>3. CASE CloseApply \/ CloseApplyError
  <2>1. /\ SettleCurrent /\ UNCHANGED <<row, startVars, closeTodo>>
    BY <1>3 DEF CloseApply, CloseApplyError, dbVars
  <2>2. /\ closeCur \in Auctions /\ closeSnap \in Hash /\ row[closeCur] \in Row
        /\ closeDone \in [Auctions -> Outcome]
    BY <2>1 DEF SettleCurrent, TypeOK, ClosesOK, DbOK
  <2> DEFINE o == Settlement(closeCur, closeSnap)
  <2>3. /\ o.status = "SOLD" => o.winner \in Bidders
        /\ o.status = "UNSOLD" => o.winner = NoBidder
    BY <2>2, SettlementType
  <2>4. closeDone' = [closeDone EXCEPT ![closeCur] = o] /\ closeCur' = NoAuction
    BY <2>1 DEF SettleCurrent
  <2>5. row[closeCur].status = "ACTIVE"
    BY <2>1 DEF SettleCurrent, JobsHold, ClosesHold
  <2> HIDE DEF o
  <2>6. ClosesHold'
    BY <2>1, <2>2, <2>3, <2>4, <2>5 DEF JobsHold, ClosesHold
  <2>7. StartsHold'
    BY <2>1 DEF JobsHold, StartsHold, startVars
  <2> QED
    BY <2>6, <2>7 DEF JobsHold
<1>4. CASE CloseFlushFails \/ CommitClosesError
  <2>1. StartsHold' /\ AbandonCloses
    BY <1>4 DEF CloseFlushFails, CommitClosesError, JobsHold, StartsHold, dbVars,
       startVars
  <2> QED
    BY <2>1, JobsAbandon
<1>5. CASE CommitCloses
  <2>1. \A a \in Auctions : row[a].status = "UPCOMING" => row'[a] = row[a]
    BY <1>5 DEF CommitCloses, JobsHold, ClosesHold
  <2>2. StartsHold' /\ AbandonCloses
    BY <1>5, <2>1 DEF CommitCloses, JobsHold, StartsHold, startVars, TypeOK, StartsOK
  <2> QED
    BY <2>2, JobsAbandon
<1> QED
  BY <1>1, <1>2, <1>3, <1>4, <1>5 DEF CloseJob

LEMMA JobsStep == TypeOK /\ JobsHold /\ [Next]_vars => JobsHold'
<1> SUFFICES ASSUME TypeOK, JobsHold, [Next]_vars PROVE JobsHold'
  OBVIOUS
<1>1. CASE Tick \/ RedisLoss \/ UNCHANGED vars
  BY <1>1, JobsFrame DEF Tick, RedisLoss, vars, dbVars
<1>2. ASSUME NEW a \in Auctions, CreateAuction(a) \/ CreateAuctionLosesCommit(a)
      PROVE  JobsHold'
  BY <1>2, JobsCreate, JobsFrame DEF CreateAuctionLosesCommit, dbVars
<1>3. ASSUME NEW r \in Requests, Receive(r) \/ Serve(r) \/ ServeFault(r)
      PROVE  JobsHold'
  BY <1>3, RequestsLeaveJobs, JobsFrame
<1>4. CASE StartJob \/ CloseJob \/ JobFault
  BY <1>4, JobsStart, JobsClose DEF JobFault
<1>5. CASE AppCrash
  <2>1. StartsHold' /\ AbandonCloses
    BY <1>5 DEF AppCrash, StartsHold
  <2> QED
    BY <2>1, JobsAbandon
<1> QED
  BY <1>1, <1>2, <1>3, <1>4, <1>5 DEF Next

(* What a job has selected stays as its query found it until it commits.   *)
THEOREM JobsCorrect == Spec => [](TypeOK /\ JobsHold)
<1>1. Init => TypeOK /\ JobsHold
  BY TypeInit, JobsInit
<1>2. TypeOK /\ JobsHold /\ [Next]_vars => (TypeOK /\ JobsHold)'
  BY TypeStep, JobsStep
<1> QED
  BY <1>1, <1>2, PTL DEF Spec

-----------------------------------------------------------------------------

(* A step that leaves the rows alone is a stutter of the table.            *)
LEMMA TableStutter == UNCHANGED row => UNCHANGED Table!vars
  BY DEF Table!vars

LEMMA TableInit == Init => Table!Init
  BY DEF Init, Table!Init, NoRow

(* Only three actions write committed auction rows.                        *)
LEMMA RowWriters ==
  ASSUME [Next]_vars
  PROVE  \/ UNCHANGED row
         \/ CommitStarts \/ CommitCloses
         \/ \E a \in Auctions : CreateAuction(a)
<1>1. CASE Tick \/ AppCrash \/ RedisLoss \/ UNCHANGED vars
  BY <1>1 DEF Tick, AppCrash, RedisLoss, vars, dbVars
<1>2. ASSUME NEW a \in Auctions, CreateAuctionLosesCommit(a)
      PROVE  UNCHANGED row
  BY <1>2 DEF CreateAuctionLosesCommit, dbVars
<1>3. ASSUME NEW r \in Requests, Receive(r) \/ Serve(r) \/ ServeFault(r)
      PROVE  UNCHANGED row
  BY <1>3, RequestsLeaveJobs
<1>4. CASE StartJob \/ CloseJob
  BY <1>4 DEF StartJob, CloseJob, PollStarts, StartAuction, PollCloses,
     CloseRead, CloseApply, CloseFlushFails, dbVars
<1>5. CASE JobFault
  BY <1>5 DEF JobFault, StartAuctionError, CommitStartsError, CloseReadError,
     CloseApplyError, CommitClosesError, dbVars
<1> QED
  BY <1>1, <1>2, <1>3, <1>4, <1>5 DEF Next

(* An id that has not been listed has no data yet.                         *)
BlankRows == \A a \in Auctions : row[a].status = "absent" => row[a] = NoRow

LEMMA BlankStep == TypeOK /\ JobsHold /\ BlankRows /\ [Next]_vars => BlankRows'
<1> SUFFICES ASSUME TypeOK, JobsHold, BlankRows, [Next]_vars PROVE BlankRows'
  OBVIOUS
<1>1. CASE UNCHANGED row
  BY <1>1 DEF BlankRows
<1>2. CASE CommitStarts
  <2>1. \A a \in Auctions \ startDone : row'[a] = row[a]
    BY <1>2 DEF CommitStarts
  <2>2. \A a \in Auctions \cap startDone : row'[a].status = "ACTIVE"
    BY <1>2 DEF CommitStarts, TypeOK, DbOK, Row
  <2> QED
    BY <2>1, <2>2 DEF BlankRows
<1>3. CASE CommitCloses
  <2>1. \A a \in Auctions : closeDone[a].status = "none" => row'[a] = row[a]
    BY <1>3 DEF CommitCloses
  <2>2. \A a \in Auctions : closeDone[a].status # "none" =>
            row'[a].status = closeDone[a].status
    BY <1>3 DEF CommitCloses, TypeOK, DbOK, Row
  <2>3. \A a \in Auctions : closeDone[a].status \in {"none"} \cup Settled
    BY DEF TypeOK, ClosesOK, Outcome
  <2> QED
    BY <2>1, <2>2, <2>3 DEF BlankRows, Settled
<1>4. ASSUME NEW a \in Auctions, CreateAuction(a) PROVE BlankRows'
  <2>1. PICK sc \in Schedules, reserve \in Reserves, inc \in Increments :
           row' = [row EXCEPT ![a] = NewRow(sc, reserve, inc)]
    BY <1>4 DEF CreateAuction
  <2>2. NewRow(sc, reserve, inc).status # "absent"
    BY DEF NewRow
  <2>3. /\ row'[a].status # "absent"
        /\ \A b \in Auctions \ {a} : row'[b] = row[b]
    BY <2>1, <2>2 DEF TypeOK, DbOK
  <2> QED
    BY <2>3 DEF BlankRows
<1> QED
  BY <1>1, <1>2, <1>3, <1>4, RowWriters

-----------------------------------------------------------------------------
(* The three writers as steps of the lifecycle.                            *)

LEMMA TableCreate ==
  ASSUME TypeOK, BlankRows, NEW a \in Auctions, CreateAuction(a)
  PROVE  Table!List(a)
<1>1. PICK sc \in Schedules, reserve \in Reserves, inc \in Increments :
         row' = [row EXCEPT ![a] = NewRow(sc, reserve, inc)]
  BY DEF CreateAuction
<1> DEFINE new == NewRow(sc, reserve, inc)
<1>2. /\ new.status \in {"UPCOMING", "ACTIVE"}
      /\ new.price = 0 /\ new.winner = NoBidder
  BY DEF NewRow
<1>3. /\ row \in [Auctions -> Row]
      /\ row[a].status = "absent" /\ row[a].price = 0 /\ row[a].winner = NoBidder
  BY DEF TypeOK, DbOK, CreateAuction, Listable, BlankRows, NoRow
<1>4. row' = [row EXCEPT ![a] = new]
  BY <1>1
<1> HIDE DEF new
<1>5. row'[a] = new /\ \A b \in Auctions \ {a} : row'[b] = row[b]
  BY <1>3, <1>4
<1>6. [b \in Auctions |-> row[b].status][a] = "absent"
  BY <1>3
<1>7. [b \in Auctions |-> row'[b].status] =
         [[b \in Auctions |-> row[b].status] EXCEPT ![a] = new.status]
  BY <1>5
<1>8. /\ [b \in Auctions |-> row'[b].price] = [b \in Auctions |-> row[b].price]
      /\ [b \in Auctions |-> row'[b].winner] = [b \in Auctions |-> row[b].winner]
  BY <1>2, <1>3, <1>5
<1> QED
  BY <1>2, <1>6, <1>7, <1>8 DEF Table!List

LEMMA TableStarts ==
  ASSUME TypeOK, JobsHold, CommitStarts
  PROVE  Table!Open(startDone)
<1>1. /\ \A a \in startDone : row[a].status = "UPCOMING"
      /\ startDone \subseteq Auctions
  BY DEF JobsHold, StartsHold, TypeOK, StartsOK
<1>2. \A a \in Auctions :
         /\ row'[a].status = IF a \in startDone THEN "ACTIVE" ELSE row[a].status
         /\ row'[a].price = row[a].price
         /\ row'[a].winner = row[a].winner
  BY DEF CommitStarts, TypeOK, DbOK, Row
<1> QED
  BY <1>1, <1>2 DEF Table!Open

LEMMA TableCloses ==
  ASSUME TypeOK, JobsHold, CommitCloses
  PROVE  Table!Settle({a \in Auctions : closeDone[a].status # "none"})
<1> DEFINE S == {a \in Auctions : closeDone[a].status # "none"}
<1>1. \A a \in Auctions \ S : row'[a] = row[a]
  BY DEF CommitCloses
<1>2. \A a \in S : /\ row'[a].status = closeDone[a].status
                   /\ row'[a].price = closeDone[a].price
                   /\ row'[a].winner = closeDone[a].winner
  BY DEF CommitCloses, TypeOK, DbOK, Row
<1>3. \A a \in S : /\ row[a].status = "ACTIVE"
                   /\ closeDone[a].price \in Nat
                   /\ \/ /\ closeDone[a].status = "SOLD"
                         /\ closeDone[a].winner \in Bidders
                      \/ /\ closeDone[a].status = "UNSOLD"
                         /\ closeDone[a].winner = NoBidder
  BY DEF JobsHold, ClosesHold, TypeOK, ClosesOK, Outcome, Settled
<1>4. S \subseteq Auctions
  OBVIOUS
<1> HIDE DEF S
<1>5. Table!Settle(S)
  BY <1>1, <1>2, <1>3, <1>4 DEF Table!Settle
<1> QED
  BY <1>5 DEF S

LEMMA TableStep ==
  TypeOK /\ JobsHold /\ BlankRows /\ [Next]_vars => [Table!Next]_(Table!vars)
<1> SUFFICES ASSUME TypeOK, JobsHold, BlankRows, [Next]_vars
             PROVE  [Table!Next]_(Table!vars)
  OBVIOUS
<1>1. CASE UNCHANGED row
  BY <1>1, TableStutter
<1>2. CASE CommitStarts
  <2>1. startDone \in SUBSET Auctions
    BY DEF TypeOK, StartsOK
  <2>2. Table!Open(startDone)
    BY <1>2, TableStarts
  <2>3. \E S \in SUBSET Auctions : Table!Open(S) \/ Table!Settle(S)
    BY <2>1, <2>2 DEF Table!Open
  <2> QED
    BY <2>3 DEF Table!Next
<1>3. CASE CommitCloses
  <2> DEFINE S == {a \in Auctions : closeDone[a].status # "none"}
  <2>1. S \in SUBSET Auctions
    OBVIOUS
  <2>2. Table!Settle(S)
    BY <1>3, TableCloses
  <2> HIDE DEF S
  <2>3. \E T \in SUBSET Auctions : Table!Open(T) \/ Table!Settle(T)
    BY <2>1, <2>2 DEF Table!Settle
  <2> QED
    BY <2>3 DEF Table!Next
<1>4. ASSUME NEW a \in Auctions, CreateAuction(a)
      PROVE  [Table!Next]_(Table!vars)
  BY <1>4, TableCreate DEF Table!Next
<1> QED
  BY <1>1, <1>2, <1>3, <1>4, RowWriters

(* The auction table implements its lifecycle for any number of auctions,  *)
(* any batch size and any sequence of faults: a row is opened once and     *)
(* settled once, a sale has a winner, and a settled row is final.          *)
THEOREM LifecycleCorrect == Spec => LifecycleSpec
<1>1. Init => TypeOK /\ JobsHold /\ BlankRows
  BY TypeInit, JobsInit DEF Init, BlankRows
<1>2. TypeOK /\ JobsHold /\ BlankRows /\ [Next]_vars
         => (TypeOK /\ JobsHold /\ BlankRows)'
  BY TypeStep, JobsStep, BlankStep
<1>3. Spec => [](TypeOK /\ JobsHold /\ BlankRows)
  BY <1>1, <1>2, PTL DEF Spec
<1> QED
  BY <1>3, TableInit, TableStep, PTL DEF Spec, Table!Spec, LifecycleSpec

=============================================================================
