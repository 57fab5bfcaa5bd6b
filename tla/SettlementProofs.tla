-------------------------- MODULE SettlementProofs --------------------------
(***************************************************************************)
(* Theorems about AuctionSystem that relate the hash, the rows and the     *)
(* history: bids are accepted in time, a settled hash stays settled, and a *)
(* sale rests on a bid the script accepted, for every set of auctions,     *)
(* requests, prices and schedules and any number of faults.                *)
(***************************************************************************)
EXTENDS AuctionSystemProofs

(* The script accepts a request's bid; its reply may be lost.              *)
BidAccepted(r) ==
    /\ pc[r] = "appended" /\ VerdictOn(r) = "ACCEPTED" /\ Accept(r)
    /\ Goto(r, "judged") \/ Goto(r, "done")
    /\ UNCHANGED <<row, startVars, closeVars>>

(* What writes the hashes and the history of accepted bids.                *)
LEMMA HashWriters ==
  ASSUME [Next]_vars
  PROVE  \/ UNCHANGED <<hash, log>>
         \/ \E a \in Auctions : CreateAuction(a) \/ CreateAuctionLosesCommit(a)
         \/ \E r \in Requests : BidAccepted(r)
         \/ \E a \in Auctions : /\ a \in startTodo /\ InitKey(a)
                                /\ UNCHANGED <<row, log, closeVars>>
         \/ SettleCurrent /\ MarkClosed /\ UNCHANGED <<row, log>>
         \/ RedisLoss
<1>1. CASE Tick \/ AppCrash \/ UNCHANGED vars
  BY <1>1 DEF Tick, AppCrash, vars, redisVars, ghostVars
<1>2. ASSUME NEW r \in Requests, Receive(r)
      PROVE  UNCHANGED <<hash, log>>
  BY <1>2 DEF Receive, redisVars, ghostVars
<1>3. ASSUME NEW r \in Requests, Serve(r) \/ ServeFault(r)
      PROVE  UNCHANGED <<hash, log>> \/ BidAccepted(r)
  <2>1. CASE EvaluateAccepts(r)
    BY <2>1 DEF EvaluateAccepts, BidAccepted, dbVars
  <2>2. CASE EvaluateError(r)
    BY <2>2 DEF EvaluateError, Answer, BidAccepted, dbVars
  <2> QED
    BY <1>3, <2>1, <2>2
    DEF Serve, ServeFault, AppendStream, EvaluateRejects, ReadBack, Persist,
        InsertProxy, ReplyBeforeCommit, CommitBid, AppendStreamError,
        ReadBackError, CommitBidError, redisVars, ghostVars
<1>4. CASE \/ PollStarts \/ CommitStarts \/ CommitStartsError
           \/ PollCloses \/ CloseFlushFails \/ CommitCloses \/ CommitClosesError
           \/ \E a \in Auctions : CloseRead(a) \/ CloseReadError(a)
  BY <1>4 DEF PollStarts, CommitStarts, CommitStartsError, PollCloses,
     CloseFlushFails, CommitCloses, CommitClosesError, CloseRead,
     CloseReadError, redisVars, ghostVars
<1>5. ASSUME NEW a \in Auctions, StartAuction(a) \/ StartAuctionError(a)
      PROVE  \/ UNCHANGED <<hash, log>>
             \/ a \in startTodo /\ InitKey(a) /\ UNCHANGED <<row, log, closeVars>>
  BY <1>5 DEF StartAuction, StartAuctionError, MarkStarted, dbVars
<1>6. CASE CloseApply \/ CloseApplyError
  BY <1>6 DEF CloseApply, CloseApplyError, dbVars, ghostVars
<1> QED
  BY <1>1, <1>2, <1>3, <1>4, <1>5, <1>6 DEF Next, StartJob, CloseJob, JobFault

(* What fills the jobs' queues.                                            *)
LEMMA TodoWriters ==
  ASSUME [Next]_vars
  PROVE  /\ startTodo' \subseteq startTodo \/ PollStarts
         /\ closeTodo' \subseteq closeTodo \/ PollCloses
<1>1. CASE Tick \/ AppCrash \/ RedisLoss \/ UNCHANGED vars
  BY <1>1 DEF Tick, AppCrash, AbandonCloses, RedisLoss, vars, startVars, closeVars
<1>2. ASSUME NEW a \in Auctions, CreateAuction(a) \/ CreateAuctionLosesCommit(a)
      PROVE  UNCHANGED <<startTodo, closeTodo>>
  BY <1>2 DEF CreateAuction, CreateAuctionLosesCommit, startVars, closeVars
<1>3. ASSUME NEW r \in Requests, Receive(r) \/ Serve(r) \/ ServeFault(r)
      PROVE  UNCHANGED <<startTodo, closeTodo>>
  BY <1>3, RequestsLeaveJobs DEF startVars, closeVars
<1>4. CASE StartJob
  BY <1>4 DEF StartJob, PollStarts, CommitStarts, StartAuction, MarkStarted,
     closeVars
<1>5. CASE CloseJob
  BY <1>5 DEF CloseJob, PollCloses, CloseApply, CloseFlushFails, CommitCloses,
     AbandonCloses, CloseRead, Turn, startVars
<1>6. CASE JobFault
  BY <1>6 DEF JobFault, CommitStartsError, CommitClosesError, CloseApplyError,
     StartAuctionError, CloseReadError, MarkStarted, AbandonCloses, Turn,
     startVars, closeVars
<1> QED
  BY <1>1, <1>2, <1>3, <1>4, <1>5, <1>6 DEF Next

(* Time does not go back.                                                  *)
LEMMA TimePasses ==
  ASSUME TypeOK, [Next]_vars
  PROVE  now \in Nat /\ now' \in Nat /\ now <= now'
<1>1. now \in Nat /\ now' \in Nat
  BY TypeStep, AuctionSystemAssumption DEF TypeOK, ClockOK
<1>2. now' = now \/ now' = now + 1
  BY DEF Next, Tick, CreateAuction, CreateAuctionLosesCommit, Receive, Serve,
     ServeFault, AppendStream, AppendStreamError, EvaluateAccepts,
     EvaluateRejects, EvaluateError, ReadBack, ReadBackError, Persist,
     InsertProxy, ReplyBeforeCommit, CommitBid, CommitBidError, StartJob,
     CloseJob, JobFault, PollStarts, StartAuction, StartAuctionError,
     CommitStarts, CommitStartsError, PollCloses, CloseRead, CloseReadError,
     CloseApply, CloseApplyError, CloseFlushFails, CommitCloses,
     CommitClosesError, AppCrash, RedisLoss, NoFault, Fault, clockVars, vars
<1> QED
  BY <1>1, <1>2

(* A listed row keeps its schedule and its reserve, and its state only     *)
(* moves on.                                                               *)
LEMMA RowsMoveOn ==
  ASSUME TypeOK, JobsHold, [Next]_vars, NEW a \in Auctions,
         row[a].status # "absent"
  PROVE  /\ row'[a].status # "absent"
         /\ row[a].status # "UPCOMING" => row'[a].status # "UPCOMING"
         /\ row'[a].start = row[a].start /\ row'[a].end = row[a].end
         /\ row'[a].reserve = row[a].reserve /\ row'[a].inc = row[a].inc
<1>1. row \in [Auctions -> Row]
  BY DEF TypeOK, DbOK
<1>2. CASE CommitStarts
  <2>1. row'[a] = IF a \in startDone THEN [row[a] EXCEPT !.status = "ACTIVE"]
                  ELSE row[a]
    BY <1>2 DEF CommitStarts
  <2> QED
    BY <1>1, <2>1 DEF Row
<1>3. CASE CommitCloses
  <2>1. closeDone[a].status \in {"none"} \cup Settled
    BY DEF TypeOK, ClosesOK, Outcome
  <2>2. row'[a] = IF closeDone[a].status = "none" THEN row[a]
                  ELSE [row[a] EXCEPT !.status = closeDone[a].status,
                                      !.price  = closeDone[a].price,
                                      !.winner = closeDone[a].winner]
    BY <1>3 DEF CommitCloses
  <2> QED
    BY <1>1, <2>1, <2>2 DEF Row, Settled
<1>4. ASSUME NEW b \in Auctions, CreateAuction(b)
      PROVE  row'[a] = row[a]
  BY <1>1, <1>4 DEF CreateAuction, Listable
<1> QED
  BY <1>2, <1>3, <1>4, RowWriters

(* A request keeps its arguments once it has been received, and it is      *)
(* being served only from its reception on.                                *)
LEMMA RequestsStay ==
  ASSUME TypeOK, [Next]_vars, NEW r \in Requests
  PROVE  /\ pc[r] # "idle" => req'[r] = req[r] /\ pc'[r] # "idle"
         /\ pc'[r] \notin {"idle", "done"}
               => pc[r] \notin {"idle", "done"} \/ Receive(r)
<1>1. pc \in [Requests -> PCs] /\ req \in [Requests -> Req \cup {NoReq}]
  BY DEF TypeOK, RequestsOK
<1>2. CASE UNCHANGED reqVars
  BY <1>2 DEF reqVars
<1>3. CASE AppCrash
  BY <1>1, <1>3 DEF AppCrash, InFlight
<1>4. ASSUME NEW q \in Requests, Receive(q)
      PROVE  /\ pc[r] # "idle" => req'[r] = req[r] /\ pc'[r] # "idle"
             /\ pc'[r] \notin {"idle", "done"}
                  => pc[r] \notin {"idle", "done"} \/ Receive(r)
  BY <1>1, <1>4 DEF Receive, Answer, Goto
<1>5. ASSUME NEW q \in Requests, Serve(q) \/ ServeFault(q)
      PROVE  /\ req' = req /\ pc[q] \notin {"idle", "done"}
             /\ \E l \in PCs \ {"idle"} : pc' = [pc EXCEPT ![q] = l]
  <2>1. pc[q] \notin {"idle", "done"} /\ req' = req
    BY <1>5 DEF Serve, ServeFault, AppendStream, AppendStreamError,
       EvaluateAccepts, EvaluateRejects, EvaluateError, ReadBack, ReadBackError,
       Persist, InsertProxy, ReplyBeforeCommit, CommitBid, CommitBidError, AtCommit
  <2>2. \E l \in PCs \ {"idle"} : pc' = [pc EXCEPT ![q] = l]
    BY <1>5 DEF Serve, ServeFault, AppendStream, AppendStreamError,
       EvaluateAccepts, EvaluateRejects, EvaluateError, ReadBack, ReadBackError,
       Persist, InsertProxy, ReplyBeforeCommit, CommitBid, CommitBidError,
       Answer, Goto, PCs
  <2> QED
    BY <2>1, <2>2
<1>6. CASE \E q \in Requests : Serve(q) \/ ServeFault(q)
  BY <1>1, <1>5, <1>6
<1>7. CASE \/ Tick \/ RedisLoss \/ UNCHANGED vars
           \/ StartJob \/ CloseJob \/ JobFault
           \/ \E a \in Auctions : CreateAuction(a) \/ CreateAuctionLosesCommit(a)
  BY <1>2, <1>7 DEF Tick, CreateAuction, CreateAuctionLosesCommit, StartJob,
     CloseJob, JobFault, PollStarts, StartAuction, StartAuctionError,
     CommitStarts, CommitStartsError, PollCloses, CloseRead, CloseReadError,
     CloseApply, CloseApplyError, CloseFlushFails, CommitCloses,
     CommitClosesError, RedisLoss, vars
<1> QED
  BY <1>3, <1>4, <1>6, <1>7 DEF Next

-----------------------------------------------------------------------------
(* Times.                                                                  *)

(* The inductive invariant.  A hash opened with a row has the row's end    *)
(* truncated to the second, or none (0); it takes bids only once the row's *)
(* start has come; and it is not marked before the row has been opened.    *)
HashFits ==
    \A a \in Auctions :
        /\ hash[a].state \in Settled => row[a].status \notin {"absent", "UPCOMING"}
        /\ row[a].status # "absent" =>
              /\ hash[a].end \in {0, Seconds(row[a].end)}
              /\ hash[a].state = "ACTIVE" => row[a].start <= now

DueHold == /\ \A a \in startTodo : row[a].start <= now
           /\ \A a \in closeTodo : row[a].end <= now

ServedRows ==
    \A r \in Requests :
        pc[r] \notin {"idle", "done"} => row[req[r].auction].status # "absent"

TimesHold == HashFits /\ DueHold /\ ServedRows

LEMMA TimesInit == Init => TimesHold
  BY DEF Init, TimesHold, HashFits, DueHold, ServedRows, NoHash, NoRow, Settled

LEMMA DueStep ==
  ASSUME TypeOK, JobsHold, DueHold, [Next]_vars
  PROVE  DueHold'
<1>1. /\ now \in Nat /\ now' \in Nat /\ now <= now'
      /\ row \in [Auctions -> Row]
      /\ startTodo \subseteq Auctions /\ closeTodo \subseteq Auctions
  BY TimePasses DEF TypeOK, DbOK, StartsOK, ClosesOK
<1>2. \A a \in Auctions : row[a].start \in Nat /\ row[a].end \in Nat
  BY <1>1 DEF Row
<1>3. \A a \in startTodo' : a \in Auctions /\ row'[a].start <= now'
  <2>1. CASE PollStarts
    BY <1>1, <2>1 DEF PollStarts, Batches, DueStarts, NoFault, clockVars, dbVars
  <2>2. CASE startTodo' \subseteq startTodo
    <3> SUFFICES ASSUME NEW a \in startTodo'
                 PROVE  a \in Auctions /\ row'[a].start <= now'
      OBVIOUS
    <3>1. a \in Auctions /\ row[a].status # "absent" /\ row[a].start <= now
      BY <1>1, <2>2 DEF JobsHold, StartsHold, DueHold
    <3>2. row'[a].start = row[a].start
      BY <3>1, RowsMoveOn
    <3> QED
      BY <1>1, <1>2, <3>1, <3>2
  <2> QED
    BY <2>1, <2>2, TodoWriters
<1>4. \A a \in closeTodo' : a \in Auctions /\ row'[a].end <= now'
  <2>1. CASE PollCloses
    BY <1>1, <2>1 DEF PollCloses, Batches, DueCloses, NoFault, clockVars, dbVars
  <2>2. CASE closeTodo' \subseteq closeTodo
    <3> SUFFICES ASSUME NEW a \in closeTodo'
                 PROVE  a \in Auctions /\ row'[a].end <= now'
      OBVIOUS
    <3>1. a \in Auctions /\ row[a].status # "absent" /\ row[a].end <= now
      BY <1>1, <2>2 DEF JobsHold, ClosesHold, DueHold
    <3>2. row'[a].end = row[a].end
      BY <3>1, RowsMoveOn
    <3> QED
      BY <1>1, <1>2, <3>1, <3>2
  <2> QED
    BY <2>1, <2>2, TodoWriters
<1> QED
  BY <1>3, <1>4 DEF DueHold

LEMMA ServedStep ==
  ASSUME TypeOK, JobsHold, ServedRows, [Next]_vars
  PROVE  ServedRows'
<1> SUFFICES ASSUME NEW r \in Requests, pc'[r] \notin {"idle", "done"}
             PROVE  row'[req'[r].auction].status # "absent"
  BY DEF ServedRows
<1>1. CASE pc[r] \notin {"idle", "done"}
  <2>1. /\ req'[r] = req[r] /\ req[r].auction \in Auctions
        /\ row[req[r].auction].status # "absent"
    BY <1>1, RequestsStay DEF ServedRows, TypeOK, RequestsOK, Req
  <2> QED
    BY <2>1, RowsMoveOn
<1>2. CASE Receive(r)
  <2>1. PICK q \in [auction : Auctions, bidder : Bidders, amount : Amounts,
                    proxy : ProxyChoices, ts : {now}] :
            /\ req' = [req EXCEPT ![r] = q]
            /\ IF row[q.auction].status = "absent"
               THEN Answer(r, "NOT_FOUND")
               ELSE Goto(r, "received") /\ UNCHANGED told
    BY <1>2 DEF Receive
  <2>2. req'[r] = q /\ row[q.auction].status # "absent"
    BY <2>1 DEF TypeOK, RequestsOK, Answer, Goto
  <2> QED
    BY <1>2, <2>2 DEF Receive, dbVars
<1> QED
  BY <1>1, <1>2, RequestsStay

(* What an accepted bid tells of the hash before and after it.             *)
LEMMA AcceptedBid ==
  ASSUME TypeOK, NEW r \in Requests, BidAccepted(r)
  PROVE  LET a == req[r].auction
         IN  /\ req[r] \in Req /\ a \in Auctions
             /\ hash[a].state = "ACTIVE" /\ Seconds(req[r].ts) < hash[a].end
             /\ hash'[a].state = "ACTIVE" /\ hash'[a].end = hash[a].end
             /\ hash'[a].leader = req[r].bidder /\ hash'[a].price = Offer(r)
             /\ hash'[a].seq = hash[a].seq + 1 /\ hash'[a].inc = hash[a].inc
             /\ Offer(r) >= hash[a].price + hash[a].inc
             /\ \A b \in Auctions \ {a} : hash'[b] = hash[b] /\ log'[b] = log[b]
             /\ log'[a] = Append(log[a], [req |-> r, seq |-> hash[a].seq + 1])
<1> DEFINE q == req[r]
           a == q.auction
<1>1. q \in Req
  BY DEF BidAccepted, TypeOK, RequestsOK
<1>2. /\ a \in Auctions /\ q.bidder \in Bidders /\ q.ts \in Nat
      /\ Cents(q.amount) \in Nat
  BY <1>1, CentsType, AuctionSystemAssumption DEF Req
<1>3. hash \in [Auctions -> Hash] /\ log \in [Auctions -> Seq(Entry)]
  BY DEF TypeOK, RedisOK, HistoryOK
<1>4. Verdict(hash[a], q.bidder, Cents(q.amount), q.ts) = "ACCEPTED"
  BY DEF BidAccepted, VerdictOn
<1> DEFINE raised == Raise(hash[a], q.bidder, Cents(q.amount))
<1>5. /\ hash' = [hash EXCEPT ![a] = raised]
      /\ log' = [log EXCEPT ![a] = Append(@, [req |-> r, seq |-> raised.seq])]
  BY DEF BidAccepted, Accept
<1>6. Offer(r) = Cents(q.amount)
  BY DEF Offer
<1> HIDE DEF q
<1>7. hash[a] \in Hash
  BY <1>2, <1>3
<1>8. /\ raised.state = hash[a].state /\ raised.end = hash[a].end
      /\ raised.leader = q.bidder /\ raised.price = Cents(q.amount)
      /\ raised.seq = hash[a].seq + 1 /\ raised.inc = hash[a].inc
  BY <1>2, <1>7, RaiseType
<1>9. /\ hash[a].state = "ACTIVE" /\ Seconds(q.ts) < hash[a].end
      /\ Cents(q.amount) >= hash[a].price + hash[a].inc
  BY <1>2, <1>4, <1>7, AcceptedMeans
<1> HIDE DEF raised
<1>10. /\ hash'[a] = raised /\ \A b \in Auctions \ {a} : hash'[b] = hash[b]
       /\ log'[a] = Append(log[a], [req |-> r, seq |-> raised.seq])
       /\ \A b \in Auctions \ {a} : log'[b] = log[b]
  BY <1>2, <1>3, <1>5
<1> QED
  BY <1>1, <1>2, <1>6, <1>8, <1>9, <1>10 DEF q

(* A listing writes the hash that fits its row.                            *)
LEMMA CreatedHash ==
  ASSUME TypeOK, NEW a \in Auctions,
         CreateAuction(a) \/ CreateAuctionLosesCommit(a)
  PROVE  /\ \A b \in Auctions \ {a} : hash'[b] = hash[b]
         /\ hash'[a].state \in {"none", "ACTIVE"} /\ hash'[a].leader = NoBidder
         /\ hash'[a].seq = 0
         /\ row[a].status = "absent" /\ UNCHANGED log
         /\ CreateAuction(a) =>
               /\ hash'[a].end \in {0, Seconds(row'[a].end)}
               /\ hash'[a].state = "ACTIVE" => /\ row'[a].start <= now
                                               /\ hash'[a].inc = row'[a].inc
<1>1. PICK sc \in Schedules, reserve \in Reserves, inc \in Increments :
         LET new == NewRow(sc, reserve, inc)
         IN  /\ hash' = [hash EXCEPT ![a] = HashOf(new)]
             /\ CreateAuction(a) => row' = [row EXCEPT ![a] = new]
  <2>1. CASE CreateAuction(a)
    BY <2>1 DEF CreateAuction
  <2>2. CASE CreateAuctionLosesCommit(a) /\ ~CreateAuction(a)
    BY <2>2 DEF CreateAuctionLosesCommit
  <2> QED
    BY <2>1, <2>2
<1> DEFINE new == NewRow(sc, reserve, inc)
<1>2. hash'[a] = HashOf(new) /\ (CreateAuction(a) => row'[a] = new)
  BY <1>1 DEF TypeOK, RedisOK, DbOK
<1>3. \A b \in Auctions \ {a} : hash'[b] = hash[b]
  BY <1>1 DEF TypeOK, RedisOK
<1>4. row[a].status = "absent" /\ UNCHANGED log
  BY DEF CreateAuction, CreateAuctionLosesCommit, Listable, ghostVars
<1>5. new.status = "ACTIVE" => new.start <= now
  BY DEF NewRow
<1> HIDE DEF new
<1>6. /\ HashOf(new).state \in {"none", "ACTIVE"} /\ HashOf(new).leader = NoBidder
      /\ HashOf(new).end \in {0, Seconds(new.end)}
      /\ HashOf(new).state = "ACTIVE" => /\ new.status = "ACTIVE"
                                         /\ HashOf(new).inc = new.inc
      /\ HashOf(new).seq = 0
  BY DEF HashOf, InitHash, NoHash
<1> QED
  BY <1>2, <1>3, <1>4, <1>5, <1>6

(* A start writes a fresh hash with the row's end.                         *)
LEMMA OpenedHash ==
  ASSUME TypeOK, NEW a \in Auctions, InitKey(a)
  PROVE  /\ \A b \in Auctions \ {a} : hash'[b] = hash[b]
         /\ hash'[a].state = "ACTIVE" /\ hash'[a].leader = NoBidder
         /\ hash'[a].end = Seconds(row[a].end)
         /\ hash'[a].seq = 0 /\ hash'[a].inc = row[a].inc
  BY DEF InitKey, InitHash, TypeOK, RedisOK

(* A close marks one hash and leaves the rest of it.                       *)
LEMMA MarkedHash ==
  ASSUME TypeOK, JobsHold, SettleCurrent, MarkClosed
  PROVE  /\ closeCur \in Auctions /\ row[closeCur].status = "ACTIVE"
         /\ \A b \in Auctions \ {closeCur} : hash'[b] = hash[b]
         /\ hash'[closeCur].state \in Settled
         /\ hash'[closeCur].end = hash[closeCur].end
         /\ hash'[closeCur].leader = hash[closeCur].leader
         /\ hash'[closeCur].price = hash[closeCur].price
         /\ hash'[closeCur].seq = hash[closeCur].seq
<1>1. closeCur \in Auctions /\ row[closeCur].status = "ACTIVE"
  BY DEF SettleCurrent, TypeOK, ClosesOK, JobsHold, ClosesHold
<1>2. Settlement(closeCur, closeSnap).status \in Settled
  BY DEF Settlement, Settled
<1> DEFINE s == Settlement(closeCur, closeSnap).status
<1>3. hash' = [hash EXCEPT ![closeCur].state = s]
  BY DEF MarkClosed
<1> HIDE DEF s
<1> QED
  BY <1>1, <1>2, <1>3 DEF TypeOK, RedisOK, Hash, s

LEMMA FitsStep ==
  ASSUME TypeOK, JobsHold, HashFits, DueHold, [Next]_vars
  PROVE  HashFits'
<1>1. /\ now \in Nat /\ now' \in Nat /\ now <= now'
      /\ \A a \in Auctions : row[a].start \in Nat
  BY TimePasses DEF TypeOK, DbOK, Row
<1> DEFINE Fits(a) ==
      /\ hash[a].state \in Settled => row[a].status \notin {"absent", "UPCOMING"}
      /\ row[a].status # "absent" =>
            /\ hash[a].end \in {0, Seconds(row[a].end)}
            /\ hash[a].state = "ACTIVE" => row[a].start <= now
(* Where neither the hash nor the listing of the row is written.           *)
<1>2. ASSUME NEW a \in Auctions, hash'[a].state = hash[a].state,
             hash'[a].end = hash[a].end, row'[a].status = "absent" \/ row[a].status # "absent"
      PROVE  Fits(a)'
  <2>1. CASE row[a].status # "absent"
    BY <1>1, <1>2, <2>1, RowsMoveOn DEF HashFits
  <2>2. CASE row[a].status = "absent"
    BY <1>2, <2>2 DEF HashFits
  <2> QED
    BY <2>1, <2>2
<1>3. CASE \E a \in Auctions : CreateAuction(a) \/ CreateAuctionLosesCommit(a)
  <2>1. PICK a \in Auctions : CreateAuction(a) \/ CreateAuctionLosesCommit(a)
    BY <1>3
  <2>2. /\ \A b \in Auctions \ {a} : row'[b] = row[b]
        /\ UNCHANGED now /\ (CreateAuction(a) \/ UNCHANGED row)
    BY <2>1 DEF CreateAuction, CreateAuctionLosesCommit, TypeOK, DbOK, dbVars,
       NoFault, Fault, clockVars
  <2>3. Fits(a)'
    BY <2>1, <2>2, CreatedHash DEF Settled
  <2>4. \A b \in Auctions \ {a} : Fits(b)'
    BY <1>2, <2>1, <2>2, CreatedHash
  <2> QED
    BY <2>3, <2>4 DEF HashFits
<1> DEFINE Listing == \E a \in Auctions : CreateAuction(a)
<1>4. ~Listing => \A a \in Auctions : row'[a].status = "absent" \/ row[a].status # "absent"
  <2>1. CASE UNCHANGED row
    BY <2>1
  <2>2. CASE CommitStarts
    BY <2>2 DEF CommitStarts, JobsHold, StartsHold
  <2>3. CASE CommitCloses
    BY <2>3 DEF CommitCloses, JobsHold, ClosesHold
  <2> QED
    BY <2>1, <2>2, <2>3, RowWriters
<1>5. CASE ~Listing /\ UNCHANGED hash
  BY <1>2, <1>4, <1>5 DEF HashFits
<1>6. ASSUME ~Listing, NEW r \in Requests, BidAccepted(r)
      PROVE  HashFits'
  <2>1. \A a \in Auctions : hash'[a].state = hash[a].state /\ hash'[a].end = hash[a].end
    BY <1>6, AcceptedBid
  <2>2. \A a \in Auctions : Fits(a)'
    BY <1>2, <1>4, <1>6, <2>1
  <2> QED
    BY <2>2 DEF HashFits
<1>7. ASSUME ~Listing, NEW a \in Auctions, a \in startTodo, InitKey(a), UNCHANGED row
      PROVE  HashFits'
  <2>1. row[a].status = "UPCOMING" /\ row[a].start <= now
    BY <1>7 DEF JobsHold, StartsHold, DueHold
  <2>2. Fits(a)'
    BY <1>1, <1>7, <2>1, OpenedHash DEF Settled
  <2>3. \A b \in Auctions \ {a} : Fits(b)'
    BY <1>2, <1>4, <1>7, OpenedHash
  <2> QED
    BY <2>2, <2>3 DEF HashFits
<1>8. ASSUME ~Listing, SettleCurrent, MarkClosed, UNCHANGED row
      PROVE  HashFits'
  <2>1. PICK c \in Auctions : c = closeCur
    BY <1>8, MarkedHash
  <2>2. row[c].status = "ACTIVE" /\ hash'[c].state \in Settled /\ hash'[c].end = hash[c].end
    BY <1>8, <2>1, MarkedHash
  <2>3. Fits(c)'
    BY <1>8, <2>2 DEF HashFits, Settled
  <2>4. \A b \in Auctions \ {c} : hash'[b] = hash[b]
    BY <1>8, <2>1, MarkedHash
  <2>5. \A b \in Auctions \ {c} : Fits(b)'
    BY <1>2, <1>4, <1>8, <2>4
  <2> QED
    BY <2>3, <2>5 DEF HashFits
<1>9. CASE RedisLoss
  BY <1>9 DEF RedisLoss, HashFits, NoHash, Settled
<1> QED
  BY <1>3, <1>5, <1>6, <1>7, <1>8, <1>9, HashWriters

LEMMA TimesStep == TypeOK /\ JobsHold /\ TimesHold /\ [Next]_vars => TimesHold'
  BY FitsStep, DueStep, ServedStep DEF TimesHold

(* All of it holds from the start.                                         *)
LEMMA TimesInvariant == Spec => [](TypeOK /\ JobsHold /\ TimesHold)
<1>1. Init => TypeOK /\ JobsHold /\ TimesHold
  BY TypeInit, JobsInit, TimesInit
<1>2. TypeOK /\ JobsHold /\ TimesHold /\ [Next]_vars
         => (TypeOK /\ JobsHold /\ TimesHold)'
  BY TypeStep, JobsStep, TimesStep
<1> QED
  BY <1>1, <1>2, PTL DEF Spec

(* Truncating to seconds keeps the order.                                  *)
LEMMA SecondsMonotone ==
  ASSUME NEW m \in Nat, NEW n \in Nat, m <= n
  PROVE  Seconds(m) <= Seconds(n)
<1> DEFINE k == TicksPerSecond
<1>1. k \in Nat /\ k > 0
  BY BidScriptAssumption
<1> HIDE DEF k
<1>2. /\ (m \div k) * k <= m /\ n < (n \div k) * k + k
      /\ m \div k \in Nat /\ n \div k \in Nat
  BY <1>1
<1>3. m \div k <= n \div k
  <2> DEFINE x == m \div k
             y == n \div k
  <2>1. x \in Nat /\ y \in Nat /\ x * k < (y + 1) * k
    BY <1>1, <1>2
  <2> HIDE DEF x, y
  <2>2. x < y + 1
    BY <1>1, <2>1
  <2> QED
    BY <2>1, <2>2 DEF x, y
<1> QED
  BY <1>3 DEF Seconds, k

(* The close job never meets an end that lies in the future, whatever      *)
(* faults, repeated starts and losses of Redis have done to the hash.      *)
THEOREM ClosesAreDue == Spec => []ExtensionUnreachable
<1>1. TypeOK /\ JobsHold /\ TimesHold => ExtensionUnreachable
  <2> SUFFICES ASSUME TypeOK, JobsHold, TimesHold, NEW a \in closeTodo
               PROVE  Seconds(now) >= hash[a].end
    BY DEF ExtensionUnreachable
  <2>1. /\ a \in Auctions /\ now \in Nat /\ row[a].end \in Nat
        /\ row[a].status = "ACTIVE" /\ row[a].end <= now
    BY AuctionSystemAssumption
    DEF TypeOK, ClosesOK, ClockOK, DbOK, Row, JobsHold, ClosesHold, TimesHold, DueHold
  <2>2. hash[a].end \in {0, Seconds(row[a].end)}
    BY <2>1 DEF TimesHold, HashFits
  <2>3. /\ Seconds(row[a].end) <= Seconds(now)
        /\ Seconds(now) \in Nat /\ Seconds(row[a].end) \in Nat
    BY <2>1, SecondsMonotone, SecondsType
  <2> QED
    BY <2>2, <2>3
<1> QED
  BY <1>1, TimesInvariant, PTL

(* A step never gives a settled hash back to the bidders.                  *)
LEMMA StaysSettled ==
  ASSUME TypeOK, JobsHold, TimesHold, [Next]_vars, NEW a \in Auctions,
         hash[a].state \in Settled
  PROVE  hash'[a].state # "ACTIVE"
<1>1. hash[a].state # "none" /\ hash[a].state # "ACTIVE"
  BY DEF Settled
<1>2. CASE \E b \in Auctions : CreateAuction(b) \/ CreateAuctionLosesCommit(b)
  BY <1>1, <1>2, CreatedHash DEF CreateAuction, CreateAuctionLosesCommit, Listable
<1>3. CASE \E r \in Requests : BidAccepted(r)
  BY <1>1, <1>3, AcceptedBid
<1>4. ASSUME NEW b \in Auctions, b \in startTodo, InitKey(b)
      PROVE  hash'[a] = hash[a]
  <2>1. row[b].status = "UPCOMING"
    BY <1>4 DEF JobsHold, StartsHold
  <2>2. a # b
    BY <2>1 DEF TimesHold, HashFits
  <2> QED
    BY <1>4, <2>2, OpenedHash
<1>5. CASE SettleCurrent /\ MarkClosed
  BY <1>1, <1>5, MarkedHash DEF Settled
<1>6. CASE RedisLoss
  BY <1>6 DEF RedisLoss, NoHash
<1> QED
  BY <1>1, <1>2, <1>3, <1>4, <1>5, <1>6, HashWriters

(* Once a close has marked the hash no start, late bid or repeated close   *)
(* opens it again: starts touch only rows that were never opened.          *)
THEOREM SettledStaysClosed == Spec => NeverReopens
<1>1. TypeOK /\ JobsHold /\ TimesHold /\ [Next]_vars =>
        [\A a \in Auctions : hash[a].state \in Settled => hash'[a].state # "ACTIVE"]_vars
  BY StaysSettled
<1> QED
  BY <1>1, TimesInvariant, PTL DEF Spec, NeverReopens

(* Whoever makes the history of an auction longer has accepted a bid for   *)
(* it in time.                                                             *)
LEMMA LongerHistory ==
  ASSUME TypeOK, JobsHold, TimesHold, [Next]_vars, NEW a \in Auctions,
         Len(log'[a]) > Len(log[a])
  PROVE  LET r == log'[a][Len(log'[a])].req
         IN  /\ row[a].status # "absent" /\ row[a].start <= now
             /\ Seconds(req[r].ts) < Seconds(row[a].end)
<1>1. Len(log[a]) \in Nat /\ log[a] \in Seq(Entry)
  BY DEF TypeOK, HistoryOK
<1>2. log'[a] # log[a]
  BY <1>1
<1>3. \E r \in Requests : BidAccepted(r)
  BY <1>2, HashWriters, CreatedHash DEF RedisLoss
<1>4. PICK r \in Requests : BidAccepted(r)
  BY <1>3
<1>5. /\ req[r] \in Req /\ req[r].auction = a
      /\ hash[a].state = "ACTIVE" /\ Seconds(req[r].ts) < hash[a].end
      /\ log'[a] = Append(log[a], [req |-> r, seq |-> hash[a].seq + 1])
  BY <1>2, <1>4, AcceptedBid
<1>6. log'[a][Len(log'[a])].req = r
  <2> DEFINE e == [req |-> r, seq |-> hash[a].seq + 1]
  <2>1. log'[a] = Append(log[a], e) /\ e.req = r
    BY <1>5
  <2> HIDE DEF e
  <2>2. log'[a][Len(log'[a])] = e
    BY <1>1, <2>1
  <2> QED
    BY <2>1, <2>2
<1>7. row[a].status # "absent"
  BY <1>4, <1>5 DEF BidAccepted, TimesHold, ServedRows
<1>8. row[a].start <= now /\ hash[a].end \in {0, Seconds(row[a].end)}
  BY <1>5, <1>7 DEF TimesHold, HashFits
<1>9. Seconds(req[r].ts) \in Nat
  BY <1>5, SecondsType DEF Req
<1> QED
  BY <1>5, <1>6, <1>7, <1>8, <1>9

(* However late the script runs, it accepts only bids that were received   *)
(* between the start and the last whole second of their auction.           *)
THEOREM BidsAreInTime == Spec => AcceptedInTime
<1>1. TypeOK /\ JobsHold /\ TimesHold /\ [Next]_vars =>
        [\A a \in Auctions : Len(log'[a]) > Len(log[a]) =>
          LET r == log'[a][Len(log'[a])].req
          IN  /\ row[a].status # "absent" /\ row[a].start <= now
              /\ Seconds(req[r].ts) < Seconds(row[a].end)]_vars
  BY LongerHistory
<1> QED
  BY <1>1, TimesInvariant, PTL DEF Spec, AcceptedInTime

-----------------------------------------------------------------------------
(* Sales.                                                                  *)

(* Who offered what in the bids accepted so far.                           *)
Offers(a) == {<<req[log[a][i].req].bidder, Offer(log[a][i].req)>> : i \in 1..Len(log[a])}

(* The inductive invariant: a leader in a hash, in a close's snapshot, in  *)
(* its session and in a settled row comes with an accepted bid at the      *)
(* price beside it.  Requests in the history do not change.                *)
HistoryServed ==
    \A a \in Auctions : \A i \in 1..Len(log[a]) : pc[log[a][i].req] # "idle"

LeadersBid ==
    \A a \in Auctions :
        hash[a].leader # NoBidder => <<hash[a].leader, hash[a].price>> \in Offers(a)

CloseHoldsBids ==
    /\ \A a \in Auctions : closeCur = a /\ closeSnap.leader # NoBidder
          => <<closeSnap.leader, closeSnap.price>> \in Offers(a)
    /\ \A a \in Auctions : closeDone[a].status = "SOLD" =>
          /\ closeDone[a].winner \in Users /\ closeDone[a].price >= row[a].reserve
          /\ <<closeDone[a].winner, closeDone[a].price>> \in Offers(a)

SalesBacked ==
    \A a \in Auctions : row[a].status = "SOLD" =>
        /\ row[a].winner \in Users /\ row[a].price >= row[a].reserve
        /\ <<row[a].winner, row[a].price>> \in Offers(a)

SalesHold == HistoryServed /\ LeadersBid /\ CloseHoldsBids /\ SalesBacked

LEMMA SalesInit == Init => SalesHold
  BY DEF Init, SalesHold, HistoryServed, LeadersBid, CloseHoldsBids, SalesBacked,
     NoHash, NoRow, NothingDone, NoOutcome

(* The history of an auction only grows.                                   *)
LEMMA HistoryGrows ==
  ASSUME TypeOK, [Next]_vars, NEW a \in Auctions
  PROVE  \/ log'[a] = log[a]
         \/ \E r \in Requests :
               /\ BidAccepted(r) /\ req[r].auction = a
               /\ log'[a] = Append(log[a], [req |-> r, seq |-> hash[a].seq + 1])
  BY HashWriters, CreatedHash, AcceptedBid DEF RedisLoss

(* Accepted bids keep their places, their bidders and their amounts.       *)
LEMMA HistoryKept ==
  ASSUME TypeOK, HistoryServed, [Next]_vars, NEW a \in Auctions
  PROVE  \A i \in 1..Len(log[a]) :
            /\ i \in 1..Len(log'[a]) /\ log'[a][i] = log[a][i]
            /\ log[a][i].req \in Requests
            /\ req'[log[a][i].req] = req[log[a][i].req]
            /\ Offer(log[a][i].req)' = Offer(log[a][i].req)
            /\ pc'[log[a][i].req] # "idle"
<1>1. log[a] \in Seq(Entry)
  BY DEF TypeOK, HistoryOK
<1>2. \A i \in 1..Len(log[a]) : log[a][i].req \in Requests
  <2>1. \A i \in 1..Len(log[a]) : log[a][i] \in Entry
    BY <1>1
  <2> QED
    BY <2>1 DEF Entry
<1>3. \A i \in 1..Len(log[a]) : i \in 1..Len(log'[a]) /\ log'[a][i] = log[a][i]
  <2>1. CASE log'[a] = log[a]
    BY <2>1
  <2>2. ASSUME NEW e, log'[a] = Append(log[a], e)
        PROVE  \A i \in 1..Len(log[a]) : i \in 1..Len(log'[a]) /\ log'[a][i] = log[a][i]
    BY <1>1, <2>2
  <2> QED
    BY <2>1, <2>2, HistoryGrows
<1>4. \A i \in 1..Len(log[a]) :
         /\ req'[log[a][i].req] = req[log[a][i].req]
         /\ pc'[log[a][i].req] # "idle"
  BY <1>2, RequestsStay DEF HistoryServed
<1> QED
  BY <1>2, <1>3, <1>4 DEF Offer

(* So they stay offers.                                                    *)
LEMMA OffersGrow ==
  ASSUME TypeOK, HistoryServed, [Next]_vars, NEW a \in Auctions
  PROVE  /\ Offers(a) \subseteq Offers(a)'
         /\ \A i \in 1..Len(log'[a]) : pc'[log'[a][i].req] # "idle"
<1>1. log[a] \in Seq(Entry)
  BY DEF TypeOK, HistoryOK
<1>2. \A i \in 1..Len(log[a]) :
         /\ i \in 1..Len(log'[a]) /\ log'[a][i] = log[a][i]
         /\ req'[log[a][i].req] = req[log[a][i].req]
         /\ pc'[log[a][i].req] # "idle"
  BY HistoryKept
<1>3. Offers(a) \subseteq Offers(a)'
  <2> SUFFICES ASSUME NEW i \in 1..Len(log[a])
               PROVE  <<req[log[a][i].req].bidder, Offer(log[a][i].req)>> \in Offers(a)'
    BY DEF Offers
  <2>1. /\ i \in 1..Len(log'[a]) /\ log'[a][i] = log[a][i]
        /\ req'[log[a][i].req] = req[log[a][i].req]
    BY <1>2
  <2>2. <<req[log[a][i].req].bidder, Offer(log[a][i].req)>>
           = <<req'[log'[a][i].req].bidder, Cents(req'[log'[a][i].req].amount)>>
    BY <2>1 DEF Offer
  <2> QED
    BY <2>1, <2>2 DEF Offers, Offer
<1>4. CASE log'[a] = log[a]
  BY <1>2, <1>3, <1>4
<1>5. ASSUME NEW r \in Requests, BidAccepted(r),
             log'[a] = Append(log[a], [req |-> r, seq |-> hash[a].seq + 1])
      PROVE  \A i \in 1..Len(log'[a]) : pc'[log'[a][i].req] # "idle"
  <2> DEFINE e == [req |-> r, seq |-> hash[a].seq + 1]
  <2>1. e.req = r /\ log'[a] = Append(log[a], e)
    BY <1>5
  <2> HIDE DEF e
  <2>2. \A i \in 1..Len(log'[a]) : i \in 1..Len(log[a]) \/ log'[a][i] = e
    BY <1>1, <2>1
  <2>3. pc'[r] # "idle"
    BY <1>5, RequestsStay DEF BidAccepted
  <2> QED
    BY <1>2, <2>1, <2>2, <2>3
<1> QED
  BY <1>3, <1>4, <1>5, HistoryGrows

(* The bid that an acceptance puts into the hash is in the history.        *)
LEMMA LeaderJoins ==
  ASSUME TypeOK, NEW r \in Requests, BidAccepted(r), [Next]_vars,
         NEW a \in Auctions, a = req[r].auction
  PROVE  <<hash'[a].leader, hash'[a].price>> \in Offers(a)'
<1>1. /\ hash'[a].leader = req[r].bidder /\ hash'[a].price = Offer(r)
      /\ log'[a] = Append(log[a], [req |-> r, seq |-> hash[a].seq + 1])
  BY AcceptedBid
<1>2. req'[r] = req[r]
  BY RequestsStay DEF BidAccepted
<1> DEFINE e == [req |-> r, seq |-> hash[a].seq + 1]
<1>3. e.req = r /\ log'[a] = Append(log[a], e)
  BY <1>1
<1> HIDE DEF e
<1>4. /\ Len(log[a]) + 1 \in 1..Len(log'[a])
      /\ log'[a][Len(log[a]) + 1] = e
  BY <1>3 DEF TypeOK, HistoryOK
<1> QED
  BY <1>1, <1>2, <1>3, <1>4 DEF Offers, Offer

LEMMA LeadersStep ==
  ASSUME TypeOK, JobsHold, HistoryServed, LeadersBid, [Next]_vars
  PROVE  LeadersBid'
<1> SUFFICES ASSUME NEW a \in Auctions, hash'[a].leader # NoBidder
             PROVE  <<hash'[a].leader, hash'[a].price>> \in Offers(a)'
  BY DEF LeadersBid
<1>1. CASE hash'[a].leader = hash[a].leader /\ hash'[a].price = hash[a].price
  BY <1>1, OffersGrow DEF LeadersBid
<1>2. CASE \E b \in Auctions : CreateAuction(b) \/ CreateAuctionLosesCommit(b)
  BY <1>1, <1>2, CreatedHash
<1>3. CASE \E r \in Requests : BidAccepted(r)
  <2>1. PICK r \in Requests : BidAccepted(r)
    BY <1>3
  <2>2. CASE a = req[r].auction
    BY <2>1, <2>2, LeaderJoins
  <2>3. CASE a # req[r].auction
    BY <1>1, <2>1, <2>3, AcceptedBid
  <2> QED
    BY <2>2, <2>3
<1>4. CASE \E b \in Auctions : InitKey(b)
  BY <1>1, <1>4, OpenedHash
<1>5. CASE SettleCurrent /\ MarkClosed
  BY <1>1, <1>5, MarkedHash
<1>6. CASE RedisLoss
  BY <1>6 DEF RedisLoss, NoHash
<1> QED
  BY <1>1, <1>2, <1>3, <1>4, <1>5, <1>6, HashWriters

(* What writes the close job's snapshot and its session.                   *)
LEMMA CloseWriters ==
  ASSUME [Next]_vars
  PROVE  \/ UNCHANGED <<closeCur, closeSnap, closeDone>>
         \/ \E a \in Auctions : CloseRead(a)
         \/ SettleCurrent /\ UNCHANGED <<row, log>>
         \/ AbandonCloses
<1>1. CASE Tick \/ RedisLoss \/ UNCHANGED vars \/ StartJob
  BY <1>1 DEF Tick, RedisLoss, vars, StartJob, PollStarts, CommitStarts,
     StartAuction, closeVars
<1>2. ASSUME NEW a \in Auctions, CreateAuction(a) \/ CreateAuctionLosesCommit(a)
      PROVE  UNCHANGED closeVars
  BY <1>2 DEF CreateAuction, CreateAuctionLosesCommit
<1>3. ASSUME NEW r \in Requests, Receive(r) \/ Serve(r) \/ ServeFault(r)
      PROVE  UNCHANGED closeVars
  BY <1>3, RequestsLeaveJobs
<1>4. CASE CloseJob \/ JobFault
  BY <1>4 DEF CloseJob, JobFault, PollCloses, CloseApply, CloseFlushFails,
     CommitCloses, CommitStartsError, CommitClosesError, CloseApplyError,
     StartAuctionError, CloseReadError, closeVars, dbVars, ghostVars
<1>5. CASE AppCrash
  BY <1>5 DEF AppCrash
<1> QED
  BY <1>1, <1>2, <1>3, <1>4, <1>5 DEF Next, closeVars

LEMMA CloseHoldsStep ==
  ASSUME TypeOK, JobsHold, HistoryServed, LeadersBid, CloseHoldsBids, [Next]_vars
  PROVE  CloseHoldsBids'
<1>1. \A a \in Auctions : Offers(a) \subseteq Offers(a)'
  BY OffersGrow
<1>2. \A a \in Auctions : closeDone[a].status = "SOLD" => row'[a].reserve = row[a].reserve
  BY RowsMoveOn DEF JobsHold, ClosesHold
<1>3. CASE UNCHANGED <<closeCur, closeSnap, closeDone>>
  BY <1>1, <1>2, <1>3 DEF CloseHoldsBids
<1>4. CASE \E a \in Auctions : CloseRead(a)
  <2>1. PICK a \in Auctions : CloseRead(a)
    BY <1>4
  <2>2. /\ closeCur' = a /\ closeSnap' = hash[a] /\ closeDone' = closeDone
    BY <2>1 DEF CloseRead
  <2> QED
    BY <1>1, <1>2, <2>2 DEF CloseHoldsBids, LeadersBid
<1>5. CASE SettleCurrent /\ UNCHANGED <<row, log>>
  <2>1. PICK c \in Auctions : c = closeCur
    BY <1>5 DEF SettleCurrent, TypeOK, ClosesOK
  <2> DEFINE o == Settlement(c, closeSnap)
  <2>2. /\ closeDone' = [closeDone EXCEPT ![c] = o]
        /\ closeCur' = NoAuction /\ closeSnap.leader \in Users \cup {NoBidder}
    BY <1>5, <2>1 DEF SettleCurrent, LeaderFits, Storable
  <2>3. closeSnap.price \in Nat /\ row[c].reserve \in Nat
    BY DEF TypeOK, ClosesOK, DbOK, Hash, Row
  <2>4. o.status = "SOLD" =>
          /\ o.winner = closeSnap.leader /\ o.price = closeSnap.price
          /\ closeSnap.leader # NoBidder /\ o.price >= row[c].reserve
    BY <2>3 DEF Settlement, MeetsReserve
  <2> HIDE DEF o
  <2>5. /\ closeDone'[c] = o
        /\ \A b \in Auctions \ {c} : closeDone'[b] = closeDone[b]
    BY <2>2 DEF TypeOK, ClosesOK
  <2>6. o.status = "SOLD" =>
          /\ o.winner \in Users /\ o.price >= row'[c].reserve
          /\ <<o.winner, o.price>> \in Offers(c)'
    BY <1>1, <1>5, <2>1, <2>2, <2>4 DEF CloseHoldsBids
  <2>7. \A b \in Auctions \ {c} : closeDone'[b].status = "SOLD" =>
          /\ closeDone'[b].winner \in Users /\ closeDone'[b].price >= row'[b].reserve
          /\ <<closeDone'[b].winner, closeDone'[b].price>> \in Offers(b)'
    BY <1>1, <1>2, <2>5 DEF CloseHoldsBids
  <2>8. NoAuction \notin Auctions
    BY AuctionSystemAssumption
  <2> QED
    BY <2>2, <2>5, <2>6, <2>7, <2>8 DEF CloseHoldsBids
<1>6. CASE AbandonCloses
  BY <1>6, AuctionSystemAssumption
  DEF AbandonCloses, CloseHoldsBids, NoHash, NothingDone, NoOutcome
<1> QED
  BY <1>3, <1>4, <1>5, <1>6, CloseWriters

LEMMA SalesBackedStep ==
  ASSUME TypeOK, JobsHold, HistoryServed, CloseHoldsBids, SalesBacked, [Next]_vars
  PROVE  SalesBacked'
<1> SUFFICES ASSUME NEW a \in Auctions, row'[a].status = "SOLD"
             PROVE  /\ row'[a].winner \in Users /\ row'[a].price >= row'[a].reserve
                    /\ <<row'[a].winner, row'[a].price>> \in Offers(a)'
  BY DEF SalesBacked
<1>1. Offers(a) \subseteq Offers(a)' /\ row[a] \in Row
  BY OffersGrow DEF TypeOK, DbOK
<1>2. CASE row'[a] = row[a]
  BY <1>1, <1>2 DEF SalesBacked
<1>3. CASE CommitStarts
  <2>1. a \notin startDone
    BY <1>1, <1>3 DEF CommitStarts, Row
  <2> QED
    BY <1>2, <1>3, <2>1 DEF CommitStarts
<1>4. CASE CommitCloses
  <2>1. CASE closeDone[a].status = "none"
    BY <1>2, <1>4, <2>1 DEF CommitCloses
  <2>2. CASE closeDone[a].status # "none"
    <3>1. /\ row'[a].status = closeDone[a].status /\ row'[a].price = closeDone[a].price
          /\ row'[a].winner = closeDone[a].winner /\ row'[a].reserve = row[a].reserve
      BY <1>1, <1>4, <2>2 DEF CommitCloses, Row
    <3> QED
      BY <1>1, <3>1 DEF CloseHoldsBids
  <2> QED
    BY <2>1, <2>2
<1>5. ASSUME NEW b \in Auctions, CreateAuction(b)
      PROVE  row'[a] = row[a]
  <2>1. PICK sc \in Schedules, reserve \in Reserves, inc \in Increments :
           row' = [row EXCEPT ![b] = NewRow(sc, reserve, inc)]
    BY <1>5 DEF CreateAuction
  <2>2. NewRow(sc, reserve, inc).status # "SOLD"
    BY DEF NewRow
  <2> QED
    BY <2>1, <2>2 DEF TypeOK, DbOK
<1> QED
  BY <1>2, <1>3, <1>4, <1>5, RowWriters

LEMMA SalesStep ==
  ASSUME TypeOK, JobsHold, SalesHold, [Next]_vars
  PROVE  SalesHold'
<1>1. HistoryServed'
  BY OffersGrow DEF SalesHold, HistoryServed
<1> QED
  BY <1>1, LeadersStep, CloseHoldsStep, SalesBackedStep DEF SalesHold

LEMMA SalesInvariant == Spec => [](TypeOK /\ JobsHold /\ SalesHold)
<1>1. Init => TypeOK /\ JobsHold /\ SalesHold
  BY TypeInit, JobsInit, SalesInit
<1>2. TypeOK /\ JobsHold /\ SalesHold /\ [Next]_vars
         => (TypeOK /\ JobsHold /\ SalesHold)'
  BY TypeStep, JobsStep, SalesStep
<1> QED
  BY <1>1, <1>2, PTL DEF Spec

(* No sale without a bid: through lost replies, wiped hashes, late bids    *)
(* and repeated closes, the winner of a sold auction is a registered user  *)
(* whose bid the script had accepted at the recorded price.                *)
THEOREM SalesAreReal == Spec => []SoldToARealBid
<1>1. SalesHold => SoldToARealBid
  BY DEF SalesHold, SalesBacked, SoldToARealBid, Offers
<1> QED
  BY <1>1, SalesInvariant, PTL

=============================================================================
