---------------------------- MODULE HistoryProofs ---------------------------
(***************************************************************************)
(* Theorems about what AuctionSystem tells and records, for every set of   *)
(* auctions, requests, prices and schedules and any number of faults: the  *)
(* answers agree with the script and the stream with the answers, sequence *)
(* numbers order the history by price, and a settled auction went to the   *)
(* best bid its close had read.  Then what it takes for more than that to  *)
(* hold: for no bid to be forgotten, for a met reserve to mean a sale, for *)
(* a close not to fail, and for each key to be an ascending auction; and   *)
(* that what is due stays due and what is selected is served.              *)
(***************************************************************************)
EXTENDS SettlementProofs, FiniteSetTheorems

-----------------------------------------------------------------------------
(* The answers.                                                            *)

(* A bid becomes accepted by its own request and stays accepted.           *)
LEMMA AcceptedGrows ==
  ASSUME TypeOK, [Next]_vars, NEW r \in Requests
  PROVE  Accepted(r)' <=> Accepted(r) \/ BidAccepted(r)
<1>1. ASSUME NEW a \in Auctions, NEW q \in Requests, BidAccepted(q),
             req[q].auction = a,
             log'[a] = Append(log[a], [req |-> q, seq |-> hash[a].seq + 1])
      PROVE  (\E i \in 1..Len(log'[a]) : log'[a][i].req = r)
               <=> (\E i \in 1..Len(log[a]) : log[a][i].req = r) \/ q = r
  <2> DEFINE e == [req |-> q, seq |-> hash[a].seq + 1]
  <2>1. e.req = q /\ log'[a] = Append(log[a], e)
    BY <1>1
  <2>2. log[a] \in Seq(Entry)
    BY DEF TypeOK, HistoryOK
  <2> HIDE DEF e
  <2>3. /\ Len(log'[a]) = Len(log[a]) + 1 /\ Len(log[a]) \in Nat
        /\ log'[a][Len(log[a]) + 1] = e
        /\ \A i \in 1..Len(log[a]) : log'[a][i] = log[a][i]
    BY <2>1, <2>2
  <2> QED
    BY <2>1, <2>3
<1>2. ASSUME NEW a \in Auctions
      PROVE  (\E i \in 1..Len(log'[a]) : log'[a][i].req = r)
               <=> \/ \E i \in 1..Len(log[a]) : log[a][i].req = r
                   \/ BidAccepted(r) /\ req[r].auction = a
  <2>1. CASE log'[a] = log[a] /\ ~(BidAccepted(r) /\ req[r].auction = a)
    BY <2>1
  <2>2. CASE BidAccepted(r) /\ req[r].auction = a
    BY <1>1, <2>2, AcceptedBid
  <2>3. CASE \E q \in Requests :
               /\ BidAccepted(q) /\ req[q].auction = a
               /\ log'[a] = Append(log[a], [req |-> q, seq |-> hash[a].seq + 1])
    BY <1>1, <2>2, <2>3
  <2> QED
    BY <2>1, <2>2, <2>3, HistoryGrows
<1>3. BidAccepted(r) => req[r].auction \in Auctions
  BY AcceptedBid
<1> QED
  BY <1>2, <1>3 DEF Accepted

(* The inductive invariant, request by request: until the script has run a *)
(* bid is not accepted; from then on the session holds the script's        *)
(* verdict; nobody is told anything before the reply.                      *)
ToldRight(r) ==
    /\ pc[r] \in {"idle", "received", "appended", "rejected"} => ~Accepted(r)
    /\ pc[r] = "rejected" => res[r].verdict # "ACCEPTED"
    /\ pc[r] \in {"judged", "inserting", "finishing", "replied"}
          => (res[r].verdict = "ACCEPTED" <=> Accepted(r))
    /\ pc[r] \notin {"replied", "done"} => told[r] = "none"
    /\ pc[r] = "replied" => CommitAfterReply /\ told[r] = StatusOf(r)
    /\ pc[r] = "done" =>
          /\ told[r] = "ACCEPTED" => Accepted(r)
          /\ told[r] \in {"REJECTED", "NOT_FOUND"} => ~Accepted(r)
          /\ told[r] \in {"ACCEPTED", "REJECTED"} /\ ~CommitAfterReply
                => bidRow[r].status = told[r]

AnswersHold == \A r \in Requests : ToldRight(r)

LEMMA AnswersInit == Init => AnswersHold
  BY DEF Init, AnswersHold, ToldRight, Accepted

(* A request's own step.                                                   *)
LEMMA OwnStep ==
  ASSUME TypeOK, [Next]_vars, NEW r \in Requests, ToldRight(r),
         Receive(r) \/ Serve(r) \/ ServeFault(r)
  PROVE  ToldRight(r)'
<1> USE DEF TypeOK, RequestsOK, DbOK
<1>1. Accepted(r)' <=> Accepted(r) \/ BidAccepted(r)
  BY AcceptedGrows
<1>2. BidAccepted(r) => pc[r] = "appended" /\ VerdictOn(r) = "ACCEPTED"
  BY DEF BidAccepted
<1>3. CASE Receive(r)
  BY <1>1, <1>2, <1>3 DEF Receive, Answer, Goto, ToldRight
<1>4. CASE AppendStream(r) \/ AppendStreamError(r)
  BY <1>1, <1>2, <1>4 DEF AppendStream, AppendStreamError, Goto, ToldRight
<1>5. CASE EvaluateAccepts(r)
  <2>1. BidAccepted(r)
    BY <1>5 DEF EvaluateAccepts, BidAccepted, dbVars
  <2>2. pc'[r] = "judged" /\ res'[r].verdict = "ACCEPTED" /\ told'[r] = "none"
    BY <1>5 DEF EvaluateAccepts, Goto, ToldRight, Res
  <2> QED
    BY <1>1, <2>1, <2>2 DEF ToldRight
<1>6. CASE EvaluateRejects(r)
  <2>1. pc'[r] = "rejected" /\ res'[r].verdict = VerdictOn(r) /\ told'[r] = "none"
    BY <1>6 DEF EvaluateRejects, Goto, ToldRight, Res
  <2> QED
    BY <1>1, <1>2, <1>6, <2>1 DEF EvaluateRejects, ToldRight
<1>7. CASE EvaluateError(r)
  BY <1>7 DEF EvaluateError, Answer, Goto, ToldRight
<1>8. CASE ReadBack(r)
  <2>1. /\ pc[r] = "rejected" /\ pc'[r] = "judged" /\ told'[r] = told[r]
        /\ res'[r].verdict = res[r].verdict
    BY <1>8 DEF ReadBack, Goto, Res
  <2> QED
    BY <1>1, <1>2, <2>1 DEF ToldRight
<1>9. CASE ReadBackError(r)
  BY <1>9 DEF ReadBackError, Answer, Goto, ToldRight
<1>10. CASE Persist(r)
  BY <1>1, <1>2, <1>10 DEF Persist, Answer, Goto, ToldRight
<1>11. CASE InsertProxy(r)
  <2>1. /\ pc[r] = "inserting" /\ res'[r].verdict = res[r].verdict
        /\ \/ pc'[r] = "done" /\ told'[r] = "ERROR"
           \/ pc'[r] = "finishing" /\ told'[r] = told[r]
    BY <1>11 DEF InsertProxy, Answer, Goto, Res
  <2> QED
    BY <1>1, <1>2, <2>1 DEF ToldRight
<1>12. CASE ReplyBeforeCommit(r)
  <2>1. /\ pc[r] = "finishing" /\ pc'[r] = "replied" /\ CommitAfterReply
        /\ res' = res /\ told'[r] = StatusOf(r)
    BY <1>12 DEF ReplyBeforeCommit, Goto
  <2> QED
    BY <1>1, <1>2, <2>1 DEF ToldRight, StatusOf
<1>13. CASE CommitBid(r)
  <2>1. /\ pc[r] \in {"finishing", "replied"} /\ pc'[r] = "done"
        /\ told'[r] = StatusOf(r) /\ bidRow'[r].status = StatusOf(r)
    BY <1>13 DEF CommitBid, AtCommit, Answer, Goto
  <2> QED
    BY <1>1, <1>2, <2>1 DEF ToldRight, StatusOf
<1>14. CASE CommitBidError(r)
  <2>1. /\ pc[r] = (IF CommitAfterReply THEN "replied" ELSE "finishing")
        /\ pc'[r] = "done"
        /\ told'[r] = (IF CommitAfterReply THEN told[r] ELSE "ERROR")
    BY <1>14 DEF CommitBidError, AtCommit, Answer, Goto
  <2> QED
    BY <1>1, <1>2, <2>1 DEF ToldRight, StatusOf
<1> QED
  BY <1>3, <1>4, <1>5, <1>6, <1>7, <1>8, <1>9, <1>10, <1>11, <1>12, <1>13, <1>14
  DEF Serve, ServeFault

(* Another request's step.                                                 *)
LEMMA OtherStep ==
  ASSUME TypeOK, NEW r \in Requests, NEW q \in Requests \ {r},
         Receive(q) \/ Serve(q) \/ ServeFault(q)
  PROVE  /\ pc'[r] = pc[r] /\ res'[r] = res[r] /\ told'[r] = told[r]
         /\ bidRow'[r] = bidRow[r]
<1> USE DEF TypeOK, RequestsOK, DbOK
<1>1. CASE Receive(q)
  BY <1>1 DEF Receive, Answer, Goto, dbVars
<1>2. CASE AppendStream(q) \/ EvaluateAccepts(q) \/ EvaluateRejects(q) \/ ReadBack(q)
  BY <1>2 DEF AppendStream, EvaluateAccepts, EvaluateRejects, ReadBack, Goto, dbVars
<1>3. CASE Persist(q) \/ InsertProxy(q) \/ ReplyBeforeCommit(q)
  BY <1>3 DEF Persist, InsertProxy, ReplyBeforeCommit, Answer, Goto, dbVars
<1>4. CASE CommitBid(q)
  BY <1>4 DEF CommitBid, Release, Answer, Goto
<1>5. CASE ServeFault(q)
  BY <1>5 DEF ServeFault, AppendStreamError, EvaluateError, ReadBackError,
     CommitBidError, Release, Answer, Goto, dbVars
<1> QED
  BY <1>1, <1>2, <1>3, <1>4, <1>5 DEF Serve

(* Whoever leaves a request where it stands has not accepted its bid.      *)
LEMMA ToldFrame ==
  ASSUME TypeOK, [Next]_vars, NEW r \in Requests, ToldRight(r),
         pc'[r] = pc[r], res'[r].verdict = res[r].verdict,
         told'[r] = told[r], bidRow'[r] = bidRow[r]
  PROVE  ToldRight(r)'
<1>1. ~BidAccepted(r)
  BY DEF BidAccepted, Goto, TypeOK, RequestsOK
<1>2. Accepted(r)' <=> Accepted(r)
  BY <1>1, AcceptedGrows
<1> QED
  BY <1>2 DEF ToldRight, StatusOf

(* A crash turns the silence of those in flight into an error.             *)
LEMMA ToldCrash ==
  ASSUME TypeOK, NEW r \in Requests, ToldRight(r), AppCrash
  PROVE  ToldRight(r)'
<1>1. /\ pc'[r] = (IF InFlight(r) THEN "done" ELSE pc[r])
      /\ told'[r] = (IF InFlight(r) /\ told[r] = "none" THEN "ERROR" ELSE told[r])
      /\ UNCHANGED <<bidRow, log>>
      /\ res'[r].verdict = res[r].verdict
  BY DEF AppCrash, dbVars, ghostVars, TypeOK, RequestsOK, Res
<1>2. Accepted(r)' <=> Accepted(r)
  BY <1>1 DEF Accepted
<1>3. pc[r] \in PCs
  BY DEF TypeOK, RequestsOK
<1> QED
  BY <1>1, <1>2, <1>3 DEF InFlight, ToldRight, StatusOf, PCs

LEMMA AnswersStep ==
  ASSUME TypeOK, AnswersHold, [Next]_vars
  PROVE  AnswersHold'
<1> SUFFICES ASSUME NEW r \in Requests PROVE ToldRight(r)'
  BY DEF AnswersHold
<1>1. ToldRight(r)
  BY DEF AnswersHold
<1>2. CASE \E q \in Requests : Receive(q) \/ Serve(q) \/ ServeFault(q)
  <2>1. PICK q \in Requests : Receive(q) \/ Serve(q) \/ ServeFault(q)
    BY <1>2
  <2>2. CASE q = r
    BY <1>1, <2>1, <2>2, OwnStep
  <2>3. CASE q # r
    BY <1>1, <2>1, <2>3, OtherStep, ToldFrame
  <2> QED
    BY <2>2, <2>3
<1>3. CASE AppCrash
  BY <1>1, <1>3, ToldCrash
<1>4. CASE UNCHANGED <<reqVars, bidRow>>
  BY <1>1, <1>4, ToldFrame DEF reqVars
<1>5. CASE \/ Tick \/ RedisLoss \/ UNCHANGED vars
           \/ StartJob \/ CloseJob \/ JobFault
           \/ \E a \in Auctions : CreateAuction(a) \/ CreateAuctionLosesCommit(a)
  BY <1>4, <1>5 DEF Tick, CreateAuction, CreateAuctionLosesCommit, StartJob,
     CloseJob, JobFault, PollStarts, StartAuction, StartAuctionError,
     CommitStarts, CommitStartsError, PollCloses, CloseRead, CloseReadError,
     CloseApply, CloseApplyError, CloseFlushFails, CommitCloses,
     CommitClosesError, RedisLoss, vars, dbVars
<1> QED
  BY <1>2, <1>3, <1>5 DEF Next

(* Through lost replies, failed flushes, blocked inserts, failed commits   *)
(* and crashes a bidder is told what the script decided, and where the     *)
(* commit comes before the response the history says the same.             *)
THEOREM AnswersAreTrue == Spec => []ToldTheTruth
<1>1. Init => TypeOK /\ AnswersHold
  BY TypeInit, AnswersInit
<1>2. TypeOK /\ AnswersHold /\ [Next]_vars => (TypeOK /\ AnswersHold)'
  BY TypeStep, AnswersStep
<1>3. TypeOK /\ AnswersHold => ToldTheTruth
  <2> SUFFICES ASSUME TypeOK, AnswersHold, NEW r \in Requests
               PROVE  /\ told[r] = "ACCEPTED" => Accepted(r)
                      /\ told[r] \in {"REJECTED", "NOT_FOUND"} => ~Accepted(r)
                      /\ told[r] \in {"ACCEPTED", "REJECTED"} /\ ~CommitAfterReply
                            => bidRow[r].status = told[r]
    BY DEF ToldTheTruth
  <2> QED
    BY DEF AnswersHold, ToldRight, StatusOf
<1> QED
  BY <1>1, <1>2, <1>3, PTL DEF Spec

-----------------------------------------------------------------------------
(* The bids that are lost.                                                 *)

(* Faults are counted one by one.                                          *)
LEMMA FaultsAddUp ==
  ASSUME TypeOK, [Next]_vars
  PROVE  faults \in Nat /\ (faults' = faults \/ faults' = faults + 1)
<1>1. faults \in Nat
  BY AuctionSystemAssumption DEF TypeOK, ClockOK
<1>2. faults' = faults \/ faults' = faults + 1
  BY DEF Next, Tick, CreateAuction, CreateAuctionLosesCommit, Receive, Serve,
     ServeFault, AppendStream, AppendStreamError, EvaluateAccepts,
     EvaluateRejects, EvaluateError, ReadBack, ReadBackError, Persist,
     InsertProxy, ReplyBeforeCommit, CommitBid, CommitBidError, StartJob,
     CloseJob, JobFault, PollStarts, StartAuction, StartAuctionError,
     CommitStarts, CommitStartsError, PollCloses, CloseRead, CloseReadError,
     CloseApply, CloseApplyError, CloseFlushFails, CommitCloses,
     CommitClosesError, AppCrash, RedisLoss, NoFault, Fault, clockVars, vars
<1> QED
  BY <1>1, <1>2

(* What has become of a bid that was accepted.                             *)
BidFate(r) ==
    \/ bidRow[r].status = "ACCEPTED" /\ told[r] = "ACCEPTED"
    \/ /\ bidRow[r].status = "none"
       /\ \/ told[r] = "ERROR" /\ (faults > 0 \/ ~BidFits(r) \/ req[r].proxy)
          \/ told[r] = "ACCEPTED" /\ faults > 0 /\ CommitAfterReply

(* The inductive invariant: no row before the request ends, a proxy row    *)
(* only for those that ask for one, and a reason for every bid lost.       *)
Explained(r) ==
    /\ pc[r] # "done" => bidRow[r].status = "none"
    /\ pc[r] = "inserting" => req[r].proxy
    /\ pc[r] = "done" /\ Accepted(r) => BidFate(r)

LEMMA ExplainedOwnStep ==
  ASSUME TypeOK, [Next]_vars, NEW r \in Requests, ToldRight(r), Explained(r),
         Receive(r) \/ Serve(r) \/ ServeFault(r)
  PROVE  Explained(r)'
<1> USE DEF TypeOK, RequestsOK, DbOK
<1>1. /\ Accepted(r)' <=> Accepted(r) \/ BidAccepted(r)
      /\ BidAccepted(r) => pc[r] = "appended"
      /\ faults \in Nat /\ (Fault("redis_error") \/ Fault("commit_error") => faults' > 0)
  BY AcceptedGrows, FaultsAddUp DEF BidAccepted, Fault
<1>2. CASE Receive(r)
  BY <1>1, <1>2 DEF Receive, Answer, Goto, ToldRight, Explained, dbVars
<1>3. CASE AppendStream(r) \/ AppendStreamError(r) \/ EvaluateAccepts(r)
  BY <1>3 DEF AppendStream, AppendStreamError, EvaluateAccepts, Goto, Explained, dbVars
<1>4. CASE EvaluateRejects(r) \/ ReadBack(r)
  BY <1>4 DEF EvaluateRejects, ReadBack, Goto, Explained, dbVars
<1>5. CASE EvaluateError(r)
  <2>1. /\ pc[r] = "appended" /\ pc'[r] = "done" /\ told'[r] = "ERROR"
        /\ bidRow'[r] = bidRow[r]
        /\ log' = log \/ Fault("redis_error")
    BY <1>5 DEF EvaluateError, Answer, Goto, dbVars
  <2>2. log' = log => ~Accepted(r)'
    BY <2>1 DEF Accepted, ToldRight
  <2> QED
    BY <1>1, <2>1, <2>2 DEF Explained, BidFate
<1>6. CASE ReadBackError(r)
  BY <1>1, <1>6 DEF ReadBackError, Answer, Goto, ToldRight, Explained
<1>7. CASE Persist(r) \/ InsertProxy(r)
  <2>1. /\ pc[r] \in {"judged", "inserting"} /\ req'[r] = req[r] /\ bidRow'[r] = bidRow[r]
        /\ pc'[r] = "inserting" => req[r].proxy
        /\ pc'[r] = "done" => told'[r] = "ERROR" /\ (BidFits(r) => req[r].proxy)
    BY <1>7 DEF Persist, InsertProxy, Answer, Goto, Explained, dbVars
  <2> QED
    BY <2>1 DEF Explained, BidFate, BidFits
<1>8. CASE ReplyBeforeCommit(r)
  BY <1>8 DEF ReplyBeforeCommit, Goto, Explained, dbVars
<1>9. CASE CommitBid(r)
  <2>1. /\ pc[r] \in {"finishing", "replied"} /\ pc'[r] = "done"
        /\ told'[r] = StatusOf(r) /\ bidRow'[r].status = StatusOf(r)
    BY <1>9 DEF CommitBid, AtCommit, Answer, Goto
  <2> QED
    BY <1>1, <2>1 DEF ToldRight, StatusOf, Explained, BidFate
<1>10. CASE CommitBidError(r)
  <2>1. /\ pc[r] = (IF CommitAfterReply THEN "replied" ELSE "finishing")
        /\ pc'[r] = "done" /\ bidRow'[r] = bidRow[r]
        /\ told'[r] = (IF CommitAfterReply THEN told[r] ELSE "ERROR")
        /\ faults' > 0
    BY <1>1, <1>10 DEF CommitBidError, AtCommit, Answer, Goto, dbVars
  <2> QED
    BY <1>1, <2>1 DEF ToldRight, StatusOf, Explained, BidFate
<1> QED
  BY <1>2, <1>3, <1>4, <1>5, <1>6, <1>7, <1>8, <1>9, <1>10 DEF Serve, ServeFault

LEMMA ExplainedStep ==
  ASSUME TypeOK, AnswersHold, [Next]_vars, NEW r \in Requests, Explained(r)
  PROVE  Explained(r)'
<1>1. /\ ToldRight(r) /\ pc[r] \in PCs
      /\ faults \in Nat /\ (faults > 0 => faults' > 0)
      /\ pc[r] # "idle" => req'[r] = req[r]
      /\ Accepted(r)' <=> Accepted(r) \/ BidAccepted(r)
      /\ pc[r] = "idle" => ~Accepted(r)
  BY FaultsAddUp, RequestsStay, AcceptedGrows DEF AnswersHold, ToldRight, TypeOK, RequestsOK
<1>2. CASE Receive(r) \/ Serve(r) \/ ServeFault(r)
  BY <1>1, <1>2, ExplainedOwnStep
<1>3. CASE pc'[r] = pc[r] /\ told'[r] = told[r] /\ bidRow'[r] = bidRow[r]
  <2>1. ~BidAccepted(r)
    BY <1>3 DEF BidAccepted, Goto, TypeOK, RequestsOK
  <2>2. BidFate(r) /\ pc[r] = "done" => BidFate(r)'
    BY <1>1, <1>3 DEF BidFate, BidFits
  <2> QED
    BY <1>1, <1>3, <2>1, <2>2 DEF Explained
<1>4. ASSUME NEW q \in Requests \ {r}, Receive(q) \/ Serve(q) \/ ServeFault(q)
      PROVE  Explained(r)'
  BY <1>3, <1>4, OtherStep
<1>5. CASE AppCrash
  <2>1. /\ pc'[r] = (IF InFlight(r) THEN "done" ELSE pc[r])
        /\ told'[r] = (IF InFlight(r) /\ told[r] = "none" THEN "ERROR" ELSE told[r])
        /\ bidRow'[r] = bidRow[r] /\ log' = log /\ faults' > 0
    BY <1>1, <1>5 DEF AppCrash, Fault, dbVars, ghostVars, TypeOK, RequestsOK
  <2>2. Accepted(r)' <=> Accepted(r)
    BY <2>1 DEF Accepted
  <2>3. CASE InFlight(r)
    BY <1>1, <2>1, <2>2, <2>3 DEF InFlight, ToldRight, StatusOf, Explained, BidFate, PCs
  <2>4. CASE ~InFlight(r)
    BY <1>3, <2>1, <2>4
  <2> QED
    BY <2>3, <2>4
<1>6. CASE \/ Tick \/ RedisLoss \/ UNCHANGED vars
           \/ StartJob \/ CloseJob \/ JobFault
           \/ \E a \in Auctions : CreateAuction(a) \/ CreateAuctionLosesCommit(a)
  <2>1. UNCHANGED <<reqVars, bidRow>>
    BY <1>6 DEF Tick, CreateAuction, CreateAuctionLosesCommit, StartJob,
       CloseJob, JobFault, PollStarts, StartAuction, StartAuctionError,
       CommitStarts, CommitStartsError, PollCloses, CloseRead, CloseReadError,
       CloseApply, CloseApplyError, CloseFlushFails, CommitCloses,
       CommitClosesError, RedisLoss, vars, dbVars
  <2> QED
    BY <1>3, <2>1 DEF reqVars
<1> QED
  BY <1>2, <1>4, <1>5, <1>6 DEF Next

(* An accepted bid is in the history and known to its bidder as accepted,  *)
(* unless there is a reason: with an error before the commit, or with the  *)
(* failure of a commit that came after the response.  So, where the commit *)
(* comes first, nobody is told ACCEPTED for a bid that has no row.         *)
THEOREM LossesAreExplained == Spec => []LostBidsAreExplained
<1> DEFINE Inv == AnswersHold /\ \A r \in Requests : Explained(r)
<1>1. Init => TypeOK /\ Inv
  BY TypeInit, AnswersInit DEF Init, Explained, Accepted
<1>2. TypeOK /\ Inv /\ [Next]_vars => (TypeOK /\ Inv)'
  BY TypeStep, AnswersStep, ExplainedStep
<1>3. Inv => LostBidsAreExplained
  BY DEF LostBidsAreExplained, Explained, BidFate
<1> QED
  BY <1>1, <1>2, <1>3, PTL DEF Spec

-----------------------------------------------------------------------------
(* The proxy rows.                                                         *)

(* Proxy rows are written by a commit, which releases its key.             *)
LEMMA ProxyWriters ==
  ASSUME [Next]_vars
  PROVE  UNCHANGED proxy \/ \E r \in Requests : CommitBid(r)
<1>1. CASE \/ Tick \/ AppCrash \/ RedisLoss \/ UNCHANGED vars
           \/ \E a \in Auctions : CreateAuction(a) \/ CreateAuctionLosesCommit(a)
  BY <1>1 DEF Tick, AppCrash, RedisLoss, vars, CreateAuction,
     CreateAuctionLosesCommit, dbVars
<1>2. ASSUME NEW r \in Requests, Receive(r) \/ Serve(r) \/ ServeFault(r)
      PROVE  UNCHANGED proxy \/ CommitBid(r)
  BY <1>2 DEF Receive, Serve, ServeFault, AppendStream, AppendStreamError,
     EvaluateAccepts, EvaluateRejects, EvaluateError, ReadBack, ReadBackError,
     Persist, InsertProxy, ReplyBeforeCommit, CommitBidError, dbVars
<1>3. CASE StartJob \/ CloseJob \/ JobFault
  BY <1>3 DEF StartJob, CloseJob, JobFault, PollStarts, StartAuction,
     StartAuctionError, CommitStarts, CommitStartsError, PollCloses, CloseRead,
     CloseReadError, CloseApply, CloseApplyError, CloseFlushFails, CommitCloses,
     CommitClosesError, dbVars
<1> QED
  BY <1>1, <1>2, <1>3 DEF Next

(* A session holds a key from its INSERT on and until its commit or, when  *)
(* that fails, its rollback.                                               *)
LEMMA HolderSteps ==
  ASSUME TypeOK, [Next]_vars, NEW r \in Requests, res'[r].inserts,
         res[r].inserts => pc[r] \in {"finishing", "replied"}
  PROVE  /\ pc'[r] \in {"finishing", "replied"} /\ pc[r] # "idle"
         /\ ~CommitBid(r)
         /\ \/ res[r].inserts
            \/ /\ InsertProxy(r) /\ UNCHANGED proxy
               /\ ProxyKey(r) \notin proxy
               /\ \A q \in Requests : res[q].inserts => ProxyKey(q) # ProxyKey(r)
               /\ \A q \in Requests \ {r} : res'[q] = res[q]
<1> USE DEF TypeOK, RequestsOK
<1>1. CASE pc'[r] = pc[r] /\ res'[r] = res[r]
  BY <1>1 DEF CommitBid, Release, Res
<1>2. CASE Receive(r)
  BY <1>2 DEF Receive
<1>3. CASE InsertProxy(r)
  BY <1>3 DEF InsertProxy, Answer, Goto, CommitBid, AtCommit, dbVars, Res
<1>4. CASE Serve(r) /\ ~InsertProxy(r)
  BY <1>4 DEF Serve, AppendStream, EvaluateAccepts, EvaluateRejects, ReadBack, Persist,
     ReplyBeforeCommit, CommitBid, AtCommit, Release, Goto, Answer, Res
<1>5. CASE ServeFault(r)
  BY <1>5 DEF ServeFault, AppendStreamError, EvaluateError, ReadBackError,
     CommitBidError, Release, Goto, Answer, Res
<1>6. ASSUME NEW q \in Requests \ {r}, Receive(q) \/ Serve(q) \/ ServeFault(q)
      PROVE  pc'[r] = pc[r] /\ res'[r] = res[r]
  BY <1>6, OtherStep
<1>7. CASE AppCrash
  BY <1>7 DEF AppCrash, Res
<1>8. CASE \/ Tick \/ RedisLoss \/ UNCHANGED vars
           \/ StartJob \/ CloseJob \/ JobFault
           \/ \E a \in Auctions : CreateAuction(a) \/ CreateAuctionLosesCommit(a)
  <2>1. UNCHANGED reqVars
    BY <1>8 DEF Tick, CreateAuction, CreateAuctionLosesCommit, StartJob,
       CloseJob, JobFault, PollStarts, StartAuction, StartAuctionError,
       CommitStarts, CommitStartsError, PollCloses, CloseRead, CloseReadError,
       CloseApply, CloseApplyError, CloseFlushFails, CommitCloses,
       CommitClosesError, RedisLoss, vars
  <2> QED
    BY <1>1, <2>1 DEF reqVars
<1> QED
  BY <1>1, <1>2, <1>3, <1>4, <1>5, <1>6, <1>7, <1>8 DEF Next

LEMMA HoldersStep ==
  ASSUME TypeOK, HoldersFinish, [Next]_vars
  PROVE  HoldersFinish'
<1>1. \A r \in Requests : res[r].inserts => pc[r] \in {"finishing", "replied"}
  BY DEF HoldersFinish
<1>2. \A r \in Requests : res'[r].inserts => ProxyKey(r)' = ProxyKey(r)
  BY <1>1, HolderSteps, RequestsStay DEF ProxyKey
<1> SUFFICES ASSUME NEW r \in Requests, res'[r].inserts
             PROVE  /\ pc'[r] \in {"finishing", "replied"}
                    /\ ProxyKey(r)' \notin proxy'
                    /\ \A q \in Requests \ {r} :
                          res'[q].inserts => ProxyKey(q)' # ProxyKey(r)'
  BY DEF HoldersFinish
<1>3. pc'[r] \in {"finishing", "replied"}
  BY <1>1, HolderSteps
<1>4. ProxyKey(r) \notin proxy
  BY <1>1, HolderSteps DEF HoldersFinish
<1>5. ASSUME NEW q \in Requests, CommitBid(q)
      PROVE  ProxyKey(r) \notin proxy'
  <2>1. res[r].inserts /\ q # r
    BY <1>1, <1>5, HolderSteps DEF CommitBid, InsertProxy, AtCommit, Answer, Goto,
       TypeOK, RequestsOK
  <2>2. proxy' = IF res[q].inserts THEN proxy \cup {ProxyKey(q)} ELSE proxy
    BY <1>5 DEF CommitBid
  <2> QED
    BY <1>4, <2>1, <2>2 DEF HoldersFinish
<1>6. ProxyKey(r)' \notin proxy'
  BY <1>2, <1>4, <1>5, ProxyWriters
<1>7. ASSUME NEW q \in Requests \ {r}, res'[q].inserts
      PROVE  ProxyKey(q) # ProxyKey(r)
  <2>1. CASE res[q].inserts /\ res[r].inserts
    BY <2>1 DEF HoldersFinish
  <2>2. CASE ~res[r].inserts
    BY <1>1, <1>7, <2>2, HolderSteps
  <2>3. CASE ~res[q].inserts
    BY <1>1, <1>7, <2>3, HolderSteps
  <2> QED
    BY <2>1, <2>2, <2>3
<1> QED
  BY <1>2, <1>3, <1>6, <1>7

(* Whoever holds an uncommitted proxy row has nothing left but its commit, *)
(* and no other session holds the same: waiting INSERTs wait in no circle. *)
THEOREM ProxyWaitsEnd == Spec => []HoldersFinish
<1>1. Init => HoldersFinish
  BY DEF Init, HoldersFinish, NoRes
<1>2. TypeOK /\ HoldersFinish /\ [Next]_vars => HoldersFinish'
  BY HoldersStep
<1> QED
  BY <1>1, <1>2, TypeCorrect, PTL DEF Spec

-----------------------------------------------------------------------------
(* Progress, the safety half of RequestsAnswered.                          *)

(* How far a request has come.                                             *)
Stage(l) == CASE l = "idle" -> 0 [] l = "received" -> 1 [] l = "appended" -> 2
              [] l = "rejected" -> 3 [] l = "judged" -> 4 [] l = "inserting" -> 5
              [] l = "finishing" -> 6 [] l = "replied" -> 7 [] OTHER -> 8

(* An answer is given as the request ends, or with the reply before it,    *)
(* and never taken back.                                                   *)
Advances(r) ==
    /\ pc'[r] # pc[r] => Stage(pc[r]) < Stage(pc'[r])
    /\ told[r] # "none" => told'[r] = told[r]
    /\ pc'[r] = "done" => told'[r] # "none"
    /\ Receive(r) \/ Serve(r) \/ ServeFault(r) => pc'[r] # pc[r]

EndsAnswered == \A r \in Requests : pc[r] = "done" => told[r] # "none"

LEMMA OwnAdvance ==
  ASSUME TypeOK, NEW r \in Requests, ToldRight(r),
         Receive(r) \/ Serve(r) \/ ServeFault(r)
  PROVE  Advances(r)
<1> USE DEF TypeOK, RequestsOK, Advances, Stage, ToldRight, Answer, Goto
<1>1. CASE Receive(r)
  BY <1>1 DEF Receive
<1>2. CASE AppendStream(r) \/ AppendStreamError(r)
  BY <1>2 DEF AppendStream, AppendStreamError
<1>3. CASE EvaluateAccepts(r) \/ EvaluateRejects(r)
  BY <1>3 DEF EvaluateAccepts, EvaluateRejects
<1>4. CASE EvaluateError(r) \/ ReadBackError(r)
  BY <1>4 DEF EvaluateError, ReadBackError
<1>5. CASE ReadBack(r)
  BY <1>5 DEF ReadBack
<1>6. CASE Persist(r) \/ InsertProxy(r)
  BY <1>6 DEF Persist, InsertProxy
<1>7. CASE ReplyBeforeCommit(r)
  BY <1>7 DEF ReplyBeforeCommit, StatusOf
<1>8. CASE CommitBid(r) \/ CommitBidError(r)
  BY <1>8 DEF CommitBid, CommitBidError, AtCommit, StatusOf
<1> QED
  BY <1>1, <1>2, <1>3, <1>4, <1>5, <1>6, <1>7, <1>8 DEF Serve, ServeFault

LEMMA AlwaysAdvance ==
  ASSUME TypeOK, AnswersHold, EndsAnswered, [Next]_vars, NEW r \in Requests
  PROVE  Advances(r)
<1>1. ToldRight(r) /\ (pc[r] = "done" => told[r] # "none")
  BY DEF AnswersHold, EndsAnswered
<1>2. CASE Receive(r) \/ Serve(r) \/ ServeFault(r)
  BY <1>1, <1>2, OwnAdvance
<1>3. CASE /\ pc'[r] = pc[r] /\ told'[r] = told[r]
           /\ ~(Receive(r) \/ Serve(r) \/ ServeFault(r))
  BY <1>1, <1>3 DEF Advances
<1>4. ASSUME NEW q \in Requests \ {r}, Receive(q) \/ Serve(q) \/ ServeFault(q)
      PROVE  pc'[r] = pc[r] /\ told'[r] = told[r]
  BY <1>4, OtherStep
<1>5. CASE AppCrash /\ ~(Receive(r) \/ Serve(r) \/ ServeFault(r))
  <2>1. /\ pc[r] \in PCs
        /\ pc'[r] = (IF InFlight(r) THEN "done" ELSE pc[r])
        /\ told'[r] = (IF InFlight(r) /\ told[r] = "none" THEN "ERROR" ELSE told[r])
    BY <1>5 DEF AppCrash, TypeOK, RequestsOK
  <2> QED
    BY <1>1, <1>5, <2>1 DEF InFlight, Advances, Stage, PCs
<1>6. CASE \/ Tick \/ RedisLoss \/ UNCHANGED vars
           \/ StartJob \/ CloseJob \/ JobFault
           \/ \E a \in Auctions : CreateAuction(a) \/ CreateAuctionLosesCommit(a)
  <2>1. pc'[r] = pc[r] /\ told'[r] = told[r]
    BY <1>6 DEF Tick, CreateAuction, CreateAuctionLosesCommit, StartJob,
       CloseJob, JobFault, PollStarts, StartAuction, StartAuctionError,
       CommitStarts, CommitStartsError, PollCloses, CloseRead, CloseReadError,
       CloseApply, CloseApplyError, CloseFlushFails, CommitCloses,
       CommitClosesError, RedisLoss, vars, reqVars
  <2> QED
    BY <1>2, <1>3, <2>1
<1> QED
  BY <1>2, <1>3, <1>4, <1>5, <1>6 DEF Next

LEMMA AnsweredInvariant == Spec => [](TypeOK /\ AnswersHold /\ EndsAnswered)
<1>1. Init => TypeOK /\ AnswersHold /\ EndsAnswered
  BY TypeInit, AnswersInit DEF Init, EndsAnswered
<1>2. TypeOK /\ AnswersHold /\ EndsAnswered /\ [Next]_vars
         => (TypeOK /\ AnswersHold /\ EndsAnswered)'
  <2>1. ASSUME TypeOK, AnswersHold, EndsAnswered, [Next]_vars
        PROVE  EndsAnswered'
    BY <2>1, AlwaysAdvance DEF EndsAnswered, Advances
  <2> QED
    BY <2>1, TypeStep, AnswersStep
<1> QED
  BY <1>1, <1>2, PTL DEF Spec

(* Whatever happens, a request only moves forward, through no more than    *)
(* eight steps, and is answered once: a second commit, a crash or a fault  *)
(* after the response does not change what the client was told.            *)
THEOREM RequestsAdvance == Spec => [][\A r \in Requests : Advances(r)]_vars
<1>1. TypeOK /\ AnswersHold /\ EndsAnswered /\ [Next]_vars
         => [\A r \in Requests : Advances(r)]_vars
  BY AlwaysAdvance
<1> QED
  BY <1>1, AnsweredInvariant, PTL DEF Spec

(* The guards of the steps a request takes by itself, without a fault.     *)
CanGoOn(r) ==
    \/ pc[r] \in {"received", "appended", "rejected", "judged"}
    \/ /\ pc[r] = "inserting"
       /\ \A q \in Requests : res[q].inserts => ProxyKey(q) # ProxyKey(r)
    \/ pc[r] = "finishing" /\ CommitAfterReply
    \/ AtCommit(r)

(* No request is ever stuck: one that cannot go on waits for the proxy row *)
(* of a session that can, whatever was lost or crashed before.  So nothing *)
(* but the end of that session lies between it and its answer.             *)
THEOREM NobodyIsStuck ==
  Spec => [](\A r \in Requests : InFlight(r) =>
                \/ CanGoOn(r)
                \/ \E q \in Requests : /\ res[q].inserts /\ CanGoOn(q)
                                       /\ ProxyKey(q) = ProxyKey(r))
<1>1. TypeOK /\ AnswersHold /\ HoldersFinish =>
        \A r \in Requests : InFlight(r) =>
            \/ CanGoOn(r)
            \/ \E q \in Requests : /\ res[q].inserts /\ CanGoOn(q)
                                   /\ ProxyKey(q) = ProxyKey(r)
  <2> SUFFICES ASSUME TypeOK, AnswersHold, HoldersFinish,
                      NEW r \in Requests, InFlight(r), ~CanGoOn(r)
               PROVE  \E q \in Requests : /\ res[q].inserts /\ CanGoOn(q)
                                         /\ ProxyKey(q) = ProxyKey(r)
    OBVIOUS
  <2>1. \A q \in Requests : pc[q] \in {"finishing", "replied"} => CanGoOn(q)
    BY DEF AnswersHold, ToldRight, CanGoOn, AtCommit
  <2>2. pc[r] = "inserting"
    BY <2>1 DEF InFlight, CanGoOn, TypeOK, RequestsOK, PCs
  <2>3. PICK q \in Requests : res[q].inserts /\ ProxyKey(q) = ProxyKey(r)
    BY <2>2 DEF CanGoOn
  <2> QED
    BY <2>1, <2>3 DEF HoldersFinish
<1> QED
  BY <1>1, AnsweredInvariant, ProxyWaitsEnd, PTL

-----------------------------------------------------------------------------
(* Every bid once.                                                         *)

(* A bid raises a price once, and never that of two auctions.              *)
AcceptedOnce ==
    \A a, b \in Auctions : \A i \in 1..Len(log[a]), j \in 1..Len(log[b]) :
        log[a][i].req = log[b][j].req => a = b /\ i = j

LEMMA OnceStep ==
  ASSUME TypeOK, AnswersHold, HistoryServed, AcceptedOnce, [Next]_vars
  PROVE  AcceptedOnce'
<1>1. ASSUME NEW a \in Auctions, NEW i \in 1..Len(log'[a])
      PROVE  \/ i \in 1..Len(log[a]) /\ log'[a][i] = log[a][i]
             \/ /\ i = Len(log[a]) + 1
                /\ \E r \in Requests : /\ BidAccepted(r) /\ req[r].auction = a
                                       /\ log'[a][i].req = r
  <2>1. log[a] \in Seq(Entry) /\ Len(log[a]) \in Nat
    BY DEF TypeOK, HistoryOK
  <2>2. CASE log'[a] = log[a]
    BY <2>2
  <2>3. ASSUME NEW r \in Requests, BidAccepted(r), req[r].auction = a,
               log'[a] = Append(log[a], [req |-> r, seq |-> hash[a].seq + 1])
        PROVE  \/ i \in 1..Len(log[a]) /\ log'[a][i] = log[a][i]
               \/ /\ i = Len(log[a]) + 1 /\ log'[a][i].req = r
    <3> DEFINE e == [req |-> r, seq |-> hash[a].seq + 1]
    <3>1. e.req = r /\ log'[a] = Append(log[a], e)
      BY <2>3
    <3> HIDE DEF e
    <3> QED
      BY <2>1, <3>1
  <2> QED
    BY <2>2, <2>3, HistoryGrows
<1>2. ASSUME NEW r \in Requests, BidAccepted(r)
      PROVE  /\ \A a \in Auctions : \A i \in 1..Len(log[a]) : log[a][i].req # r
             /\ \A q \in Requests : BidAccepted(q) => q = r
  <2>1. ~Accepted(r)
    BY <1>2 DEF BidAccepted, AnswersHold, ToldRight
  <2>2. ASSUME NEW q \in Requests, BidAccepted(q), q # r
        PROVE  FALSE
    BY <1>2, <2>2 DEF BidAccepted, Goto, TypeOK, RequestsOK
  <2> QED
    BY <2>1, <2>2 DEF Accepted
<1> SUFFICES ASSUME NEW a \in Auctions, NEW b \in Auctions,
                    NEW i \in 1..Len(log'[a]), NEW j \in 1..Len(log'[b]),
                    log'[a][i].req = log'[b][j].req
             PROVE  a = b /\ i = j
  BY DEF AcceptedOnce
<1>3. CASE i \in 1..Len(log[a]) /\ log'[a][i] = log[a][i]
  <2>1. j \in 1..Len(log[b]) /\ log'[b][j] = log[b][j]
    BY <1>1, <1>2, <1>3
  <2> QED
    BY <1>3, <2>1 DEF AcceptedOnce
<1>4. ASSUME i = Len(log[a]) + 1,
             NEW r \in Requests, BidAccepted(r), req[r].auction = a, log'[a][i].req = r
      PROVE  a = b /\ i = j
  <2>1. ~(j \in 1..Len(log[b]) /\ log'[b][j] = log[b][j])
    BY <1>2, <1>4
  <2>2. PICK q \in Requests : /\ BidAccepted(q) /\ req[q].auction = b
                             /\ log'[b][j].req = q /\ j = Len(log[b]) + 1
    BY <1>1, <2>1
  <2> QED
    BY <1>4, <2>2
<1> QED
  BY <1>1, <1>3, <1>4

(* Through lost replies and crashes a request's bid is accepted at most    *)
(* once: the script is called at one place and is not called again.        *)
THEOREM BidsAreAcceptedOnce == Spec => []AcceptedOnce
<1>1. Init => AcceptedOnce
  BY DEF Init, AcceptedOnce
<1>2. TypeOK /\ AnswersHold /\ HistoryServed /\ AcceptedOnce /\ [Next]_vars
         => AcceptedOnce'
  BY OnceStep
<1>3. SalesHold => HistoryServed
  BY DEF SalesHold
<1> QED
  BY <1>1, <1>2, <1>3, AnsweredInvariant, SalesInvariant, PTL DEF Spec

-----------------------------------------------------------------------------
(* The stream.                                                             *)

IsIn(s, r) == \E k \in 1..Len(s) : s[k] = r

Distinct(s) == \A i, j \in 1..Len(s) : i # j => s[i] # s[j]

(* The stream has the request, or has been trimmed.                        *)
InStream(s, r) == Len(s) < StreamLimit => IsIn(s, r)

(* The inductive invariant as long as nothing has failed: a request joins  *)
(* the stream between its reception and its judgement, once, and stays in  *)
(* it until it is trimmed.                                                 *)
StreamHolds ==
    faults = 0 =>
        /\ \A r \in Requests : pc[r] \in {"idle", "received"} =>
              \A a \in Auctions : ~IsIn(stream[a], r)
        /\ \A a \in Auctions : Distinct(stream[a])
        /\ \A r \in Requests : pc[r] = "appended" => InStream(stream[req[r].auction], r)
        /\ \A a \in Auctions : \A i \in 1..Len(log[a]) : InStream(stream[a], log[a][i].req)

(* What writes the stream.                                                 *)
LEMMA StreamWriters ==
  ASSUME [Next]_vars
  PROVE  UNCHANGED stream \/ RedisLoss \/ \E r \in Requests : AppendStream(r)
<1>1. CASE Tick \/ AppCrash \/ UNCHANGED vars
  BY <1>1 DEF Tick, AppCrash, vars, redisVars
<1>2. ASSUME NEW a \in Auctions, CreateAuction(a) \/ CreateAuctionLosesCommit(a)
      PROVE  UNCHANGED stream
  BY <1>2 DEF CreateAuction, CreateAuctionLosesCommit
<1>3. ASSUME NEW r \in Requests, Receive(r) \/ Serve(r) \/ ServeFault(r)
      PROVE  UNCHANGED stream \/ AppendStream(r)
  BY <1>3 DEF Receive, Serve, ServeFault, EvaluateAccepts, EvaluateRejects,
     ReadBack, Persist, InsertProxy, ReplyBeforeCommit, CommitBid,
     AppendStreamError, EvaluateError, ReadBackError, CommitBidError, redisVars
<1>4. CASE StartJob \/ CloseJob \/ JobFault
  BY <1>4 DEF StartJob, CloseJob, JobFault, PollStarts, StartAuction,
     StartAuctionError, CommitStarts, CommitStartsError, PollCloses, CloseRead,
     CloseReadError, CloseApply, CloseApplyError, CloseFlushFails, CommitCloses,
     CommitClosesError, redisVars
<1> QED
  BY <1>1, <1>2, <1>3, <1>4 DEF Next

(* Without a fault behind it a step is no fault itself.                    *)
LEMMA NoFaultYet ==
  ASSUME TypeOK, [Next]_vars, faults' = 0
  PROVE  /\ faults = 0 /\ ~RedisLoss /\ ~AppCrash /\ ~CloseApplyError
         /\ \A r \in Requests : ~AppendStreamError(r)
  BY FaultsAddUp DEF RedisLoss, AppCrash, CloseApplyError, AppendStreamError, Fault

(* Where a request can come from, as long as nothing fails.                *)
LEMMA Progress ==
  ASSUME TypeOK, [Next]_vars, faults' = 0, NEW r \in Requests
  PROVE  /\ pc'[r] \in {"idle", "received"} => pc[r] \in {"idle", "received"}
         /\ pc'[r] = "appended" => pc[r] = "appended" \/ AppendStream(r)
<1> USE DEF TypeOK, RequestsOK
<1>1. CASE UNCHANGED pc
  BY <1>1
<1>2. ASSUME NEW q \in Requests, Receive(q)
      PROVE  /\ pc'[r] \in {"idle", "received"} => pc[r] \in {"idle", "received"}
             /\ pc'[r] = "appended" => pc[r] = "appended"
  BY <1>2 DEF Receive, Answer, Goto
<1>3. ASSUME NEW q \in Requests, Serve(q) \/ ServeFault(q)
      PROVE  /\ pc'[r] \in {"idle", "received"} => pc[r] \in {"idle", "received"}
             /\ pc'[r] = "appended" => pc[r] = "appended" \/ AppendStream(r)
  <2>1. ~AppendStreamError(q)
    BY NoFaultYet
  <2>2. CASE AppendStream(q)
    BY <2>2 DEF AppendStream, Goto
  <2>3. CASE ~AppendStream(q)
    <3>1. \E l \in {"judged", "rejected", "inserting", "finishing", "replied", "done"} :
             pc' = [pc EXCEPT ![q] = l]
      BY <1>3, <2>1, <2>3 DEF Serve, ServeFault, EvaluateAccepts,
         EvaluateRejects, EvaluateError, ReadBack, ReadBackError, Persist,
         InsertProxy, ReplyBeforeCommit, CommitBid, CommitBidError, Answer, Goto
    <3> QED
      BY <3>1
  <2> QED
    BY <2>2, <2>3
<1>4. CASE \/ Tick \/ UNCHANGED vars
           \/ StartJob \/ CloseJob \/ JobFault
           \/ \E a \in Auctions : CreateAuction(a) \/ CreateAuctionLosesCommit(a)
  BY <1>1, <1>4 DEF Tick, CreateAuction, CreateAuctionLosesCommit, StartJob,
     CloseJob, JobFault, PollStarts, StartAuction, StartAuctionError,
     CommitStarts, CommitStartsError, PollCloses, CloseRead, CloseReadError,
     CloseApply, CloseApplyError, CloseFlushFails, CommitCloses,
     CommitClosesError, vars, reqVars
<1> QED
  BY <1>2, <1>3, <1>4, NoFaultYet DEF Next

LEMMA StreamInit == Init => StreamHolds
  BY DEF Init, StreamHolds, IsIn, Distinct

(* Appending a request puts it at the end of its auction's stream; of the  *)
(* other requests it can only take some out, when StreamLimit are left.    *)
LEMMA Appended ==
  ASSUME TypeOK, NEW r \in Requests, AppendStream(r), NEW a \in Auctions
  PROVE  /\ \A q : q # r /\ ~IsIn(stream[a], q) => ~IsIn(stream'[a], q)
         /\ Distinct(stream[a]) /\ ~IsIn(stream[a], r) => Distinct(stream'[a])
         /\ \A q : InStream(stream[a], q) => InStream(stream'[a], q)
         /\ a = req[r].auction => InStream(stream'[a], r)
<1>1. req[r].auction \in Auctions /\ stream \in [Auctions -> Seq(Requests)]
  BY DEF AppendStream, TypeOK, RedisOK, RequestsOK, Req
<1>2. PICK t \in Trimmed(Append(stream[req[r].auction], r)) :
         stream' = [stream EXCEPT ![req[r].auction] = t]
  BY DEF AppendStream
<1>3. CASE a # req[r].auction
  <2>1. stream'[a] = stream[a]
    BY <1>1, <1>2, <1>3
  <2> QED
    BY <1>3, <2>1
<1>4. CASE a = req[r].auction
  <2> DEFINE s == stream[a]
             n == Len(s)
             u == Append(s, r)
  <2>1. /\ s \in Seq(Requests) /\ n \in Nat /\ StreamLimit \in Nat
        /\ u \in Seq(Requests) /\ Len(u) = n + 1 /\ u[n + 1] = r
        /\ \A k \in 1..n : u[k] = s[k]
    BY <1>1, AuctionSystemAssumption
  <2>2. stream'[a] = t /\ t \in Trimmed(u)
    BY <1>1, <1>2, <1>4
  <2> HIDE DEF s, n, u
  <2>3. PICK i \in 0..n : /\ Len(t) = n + 1 - i
                          /\ \A k \in 1..Len(t) : t[k] = u[k + i]
                          /\ (i = 0 \/ Len(t) >= StreamLimit)
    <3>1. u \in Seq(Requests) /\ t \in Trimmed(u)
      BY <2>1, <2>2
    <3>2. PICK i \in 0..Len(u) - 1 : /\ Len(t) = Len(u) - i
                                     /\ \A k \in 1..Len(t) : t[k] = u[k + i]
                                     /\ (i = 0 \/ Len(t) >= StreamLimit)
      BY <3>1, TrimKeeps
    <3>3. Len(u) = n + 1 /\ n \in Nat
      BY <2>1
    <3>4. i \in 0..n /\ Len(t) = n + 1 - i
      BY <3>2, <3>3
    <3> QED
      BY <3>2, <3>4
  <2>4. /\ Len(t) \in 1..n + 1 /\ t[Len(t)] = r
        /\ \A k \in 1..Len(t) - 1 : k + i \in 1..n /\ t[k] = s[k + i]
    <3>1. Len(t) \in 1..n + 1 /\ Len(t) + i = n + 1
      BY <2>1, <2>3
    <3>2. t[Len(t)] = u[Len(t) + i]
      BY <2>3, <3>1
    <3>3. \A k \in 1..Len(t) - 1 : k \in 1..Len(t) /\ k + i \in 1..n
      BY <2>1, <3>1
    <3> QED
      BY <2>1, <2>3, <3>1, <3>2, <3>3
  <2>5. \A q : q # r /\ ~IsIn(s, q) => ~IsIn(t, q)
    BY <2>1, <2>4 DEF IsIn, n
  <2>6. ASSUME Distinct(s), ~IsIn(s, r)
        PROVE  Distinct(t)
    <3> SUFFICES ASSUME NEW k \in 1..Len(t), NEW l \in 1..Len(t), k < l
                 PROVE  t[k] # t[l]
      BY <2>4 DEF Distinct
    <3>1. k \in 1..Len(t) - 1 /\ k + i \in 1..n /\ t[k] = s[k + i]
      BY <2>4
    <3>2. CASE l = Len(t)
      BY <2>4, <2>6, <3>1, <3>2 DEF IsIn, n
    <3>3. CASE l # Len(t)
      <4>1. l + i \in 1..n /\ t[l] = s[l + i] /\ k + i # l + i
        BY <2>3, <2>4, <3>3
      <4> QED
        BY <2>6, <3>1, <4>1 DEF Distinct, n
    <3> QED
      BY <3>2, <3>3
  <2>7. ASSUME NEW q, InStream(s, q), Len(t) < StreamLimit
        PROVE  IsIn(t, q)
    <3>1. i = 0 /\ n < StreamLimit
      BY <2>1, <2>3, <2>7
    <3>2. PICK k \in 1..n : s[k] = q
      BY <2>7, <3>1 DEF InStream, IsIn, n
    <3>3. k \in 1..Len(t) /\ t[k] = q
      BY <2>1, <2>3, <3>1, <3>2
    <3> QED
      BY <3>3 DEF IsIn
  <2>8. IsIn(t, r)
    BY <2>4 DEF IsIn
  <2> QED
    BY <2>2, <2>5, <2>6, <2>7, <2>8 DEF InStream, s
<1> QED
  BY <1>3, <1>4

LEMMA StreamStep ==
  ASSUME TypeOK, HistoryServed, AnswersHold, StreamHolds, [Next]_vars
  PROVE  StreamHolds'
<1> SUFFICES ASSUME faults' = 0 PROVE StreamHolds'
  BY DEF StreamHolds
<1>1. faults = 0 /\ ~RedisLoss
  BY NoFaultYet
(* Requests that were in the stream, or not yet, by where they stand now.  *)
<1>2. \A r \in Requests : pc'[r] \in {"idle", "received"} =>
          pc[r] \in {"idle", "received"} /\ \A a \in Auctions : ~IsIn(stream[a], r)
  BY <1>1, Progress DEF StreamHolds
<1>3. \A r \in Requests : pc'[r] = "appended" /\ ~AppendStream(r) =>
          /\ req'[r] = req[r] /\ req[r].auction \in Auctions
          /\ pc[r] = "appended" /\ InStream(stream[req[r].auction], r)
  <2> SUFFICES ASSUME NEW r \in Requests, pc'[r] = "appended", ~AppendStream(r)
               PROVE  /\ req'[r] = req[r] /\ req[r].auction \in Auctions
                      /\ pc[r] = "appended" /\ InStream(stream[req[r].auction], r)
    OBVIOUS
  <2>1. pc[r] = "appended"
    BY Progress
  <2> QED
    BY <1>1, <2>1, RequestsStay DEF StreamHolds, TypeOK, RequestsOK, Req
<1>4. \A a \in Auctions : \A i \in 1..Len(log'[a]) :
          LET r == log'[a][i].req
          IN  r \in Requests /\ InStream(stream[a], r) /\ pc[r] # "received"
  <2> SUFFICES ASSUME NEW a \in Auctions, NEW i \in 1..Len(log'[a]),
                      NEW r, r = log'[a][i].req
               PROVE  r \in Requests /\ InStream(stream[a], r) /\ pc[r] # "received"
    OBVIOUS
  <2>1. log[a] \in Seq(Entry)
    BY DEF TypeOK, HistoryOK
  <2>2. CASE i \in 1..Len(log[a]) /\ log'[a][i] = log[a][i]
    <3>1. log[a][i] \in Entry
      BY <2>1, <2>2
    <3>2. r \in Requests /\ Accepted(r)
      BY <2>2, <3>1 DEF Entry, Accepted
    <3> QED
      BY <1>1, <2>2, <3>2 DEF StreamHolds, AnswersHold, ToldRight
  <2>3. CASE BidAccepted(r) /\ r \in Requests /\ req[r].auction = a
    BY <1>1, <2>3 DEF BidAccepted, StreamHolds
  <2>4. ASSUME NEW q \in Requests, BidAccepted(q), req[q].auction = a,
               log'[a] = Append(log[a], [req |-> q, seq |-> hash[a].seq + 1])
        PROVE  \/ i \in 1..Len(log[a]) /\ log'[a][i] = log[a][i]
               \/ r = q
    <3> DEFINE e == [req |-> q, seq |-> hash[a].seq + 1]
    <3>1. e.req = q /\ log'[a] = Append(log[a], e)
      BY <2>4
    <3> HIDE DEF e
    <3>2. \/ i \in 1..Len(log[a]) /\ log'[a][i] = log[a][i]
          \/ log'[a][i] = e
      BY <2>1, <3>1
    <3> QED
      BY <3>1, <3>2
  <2> QED
    BY <2>2, <2>3, <2>4, HistoryGrows
<1>5. CASE UNCHANGED stream /\ \A r \in Requests : ~AppendStream(r)
  <2>1. \A r \in Requests : pc'[r] \in {"idle", "received"} =>
           \A a \in Auctions : ~IsIn(stream'[a], r)
    BY <1>2, <1>5
  <2>2. \A r \in Requests : pc'[r] = "appended" => InStream(stream'[req'[r].auction], r)
    BY <1>3, <1>5
  <2>3. \A a \in Auctions : \A i \in 1..Len(log'[a]) :
           InStream(stream'[a], log'[a][i].req)
    BY <1>4, <1>5
  <2> QED
    BY <1>1, <1>5, <2>1, <2>2, <2>3 DEF StreamHolds
<1>6. ASSUME NEW r \in Requests, AppendStream(r)
      PROVE  StreamHolds'
  <2>1. pc[r] = "received" /\ pc'[r] = "appended" /\ req' = req
    BY <1>6 DEF AppendStream, Goto, TypeOK, RequestsOK
  <2>2. \A q \in Requests : AppendStream(q) => q = r
    BY <2>1 DEF AppendStream, Goto, TypeOK, RequestsOK
  <2>3. \A q \in Requests : pc'[q] \in {"idle", "received"} =>
           \A a \in Auctions : ~IsIn(stream'[a], q)
    BY <1>2, <1>6, <2>1, Appended
  <2>4. \A q \in Requests : pc'[q] = "appended" => InStream(stream'[req'[q].auction], q)
    <3> SUFFICES ASSUME NEW q \in Requests, pc'[q] = "appended"
                 PROVE  InStream(stream'[req[q].auction], q)
      BY <2>1
    <3>1. req[q].auction \in Auctions
      <4>1. pc[q] \notin {"idle", "done"}
        BY <1>3, <2>1, <2>2
      <4> QED
        BY <4>1 DEF TypeOK, RequestsOK, Req
    <3>2. CASE q = r
      BY <1>1, <1>6, <2>1, <3>1, <3>2, Appended DEF StreamHolds
    <3>3. CASE q # r
      BY <1>3, <1>6, <2>2, <3>1, <3>3, Appended
    <3> QED
      BY <3>2, <3>3
  <2>5. \A a \in Auctions : \A i \in 1..Len(log'[a]) : InStream(stream'[a], log'[a][i].req)
    <3> SUFFICES ASSUME NEW a \in Auctions, NEW i \in 1..Len(log'[a])
                 PROVE  InStream(stream'[a], log'[a][i].req)
      OBVIOUS
    <3> DEFINE q == log'[a][i].req
    <3>1. InStream(stream[a], q)
      BY <1>4
    <3> HIDE DEF q
    <3>2. InStream(stream'[a], q)
      BY <1>6, <3>1, Appended
    <3> QED
      BY <3>2 DEF q
  <2>6. \A a \in Auctions : Distinct(stream'[a])
    BY <1>1, <1>6, <2>1, Appended DEF StreamHolds
  <2> QED
    BY <2>3, <2>4, <2>5, <2>6 DEF StreamHolds
<1> QED
  BY <1>1, <1>5, <1>6, StreamWriters

(* As long as nothing has failed, no bid is in a stream twice, and an      *)
(* accepted bid is in its auction's stream unless the stream was trimmed   *)
(* to the newest: place_bid appends before it asks the script.             *)
THEOREM StreamIsComplete == Spec => []StreamCoversAccepted
<1>1. Init => TypeOK /\ AnswersHold /\ StreamHolds
  BY TypeInit, AnswersInit, StreamInit
<1>2. /\ TypeOK /\ AnswersHold /\ StreamHolds
      /\ JobsHold /\ SalesHold /\ [Next]_vars
      => (TypeOK /\ AnswersHold /\ StreamHolds)'
  BY TypeStep, AnswersStep, StreamStep DEF SalesHold
<1>3. StreamHolds => StreamCoversAccepted
  BY DEF StreamHolds, StreamCoversAccepted, Distinct, InStream, IsIn
<1> QED
  BY <1>1, <1>2, <1>3, SalesInvariant, PTL DEF Spec

-----------------------------------------------------------------------------
(* The ladder.                                                             *)

(* h has the leader and the price of the n-th of these bids.               *)
BestIs(h, n, bids, reqs) ==
    IF n = 0 THEN h.leader = NoBidder
    ELSE LET q == reqs[bids[n].req]
         IN  h.leader = q.bidder /\ h.price = Cents(q.amount)

(* The inductive invariant: bids are accepted for listed auctions only; a  *)
(* hash that takes bids has the row's increment; and a hash that has not   *)
(* lost its bids counts them and holds the last, the highest.              *)
BidsAreListed == \A a \in Auctions : log[a] # << >> => row[a].status # "absent"

StepsFit ==
    \A a \in Auctions : row[a].status # "absent" /\ hash[a].state = "ACTIVE"
        => hash[a].inc = row[a].inc

LadderOf(a) ==
    ~wiped[a] =>
        /\ hash[a].seq = Len(log[a])
        /\ BestIs(hash[a], Len(log[a]), log[a], req)
        /\ \A i \in 1..Len(log[a]) : log[a][i].seq = i
        /\ \A i, j \in 1..Len(log[a]) : i < j =>
              Offer(log[a][j].req) >= Offer(log[a][i].req) + row[a].inc

LadderHolds == BidsAreListed /\ StepsFit /\ \A a \in Auctions : LadderOf(a)

LEMMA LadderInit == Init => LadderHolds
  BY DEF Init, LadderHolds, BidsAreListed, StepsFit, LadderOf,
     BestIs, NoHash, NoRow

(* A wiped hash stays wiped.                                               *)
LEMMA WipesStay ==
  ASSUME TypeOK, [Next]_vars, NEW a \in Auctions, ~wiped'[a]
  PROVE  ~wiped[a]
<1>1. CASE UNCHANGED wiped
  BY <1>1
<1>2. CASE RedisLoss
  BY <1>2 DEF RedisLoss, Forgets
<1>3. ASSUME NEW b \in Auctions, InitKey(b)
      PROVE  ~wiped[a]
  BY <1>3 DEF InitKey, Forgets, TypeOK, HistoryOK
<1>4. CASE \/ Tick \/ AppCrash \/ UNCHANGED vars
           \/ \E b \in Auctions : CreateAuction(b) \/ CreateAuctionLosesCommit(b)
  BY <1>1, <1>4 DEF Tick, AppCrash, vars, CreateAuction,
     CreateAuctionLosesCommit, ghostVars
<1>5. CASE \E r \in Requests : Receive(r) \/ Serve(r) \/ ServeFault(r)
  BY <1>1, <1>5 DEF Receive, Serve, ServeFault, AppendStream, AppendStreamError,
     EvaluateAccepts, EvaluateRejects, EvaluateError, ReadBack, ReadBackError,
     Persist, InsertProxy, ReplyBeforeCommit, CommitBid, CommitBidError, ghostVars
<1>6. CASE StartJob \/ CloseJob \/ JobFault
  BY <1>1, <1>3, <1>6 DEF StartJob, CloseJob, JobFault, PollStarts,
     StartAuction, StartAuctionError, CommitStarts, CommitStartsError,
     PollCloses, CloseRead, CloseReadError, CloseApply, CloseApplyError,
     CloseFlushFails, CommitCloses, CommitClosesError, ghostVars
<1> QED
  BY <1>2, <1>4, <1>5, <1>6 DEF Next

LEMMA ListedStep ==
  ASSUME TypeOK, JobsHold, ServedRows, BidsAreListed, [Next]_vars
  PROVE  BidsAreListed'
<1> SUFFICES ASSUME NEW a \in Auctions, log'[a] # << >>
             PROVE  row'[a].status # "absent"
  BY DEF BidsAreListed
<1>1. CASE log'[a] = log[a]
  BY <1>1, RowsMoveOn DEF BidsAreListed
<1>2. ASSUME NEW r \in Requests, BidAccepted(r), req[r].auction = a
      PROVE  row'[a].status # "absent"
  <2>1. pc[r] \notin {"idle", "done"}
    BY <1>2 DEF BidAccepted
  <2> QED
    BY <1>2, <2>1, RowsMoveOn DEF ServedRows
<1> QED
  BY <1>1, <1>2, HistoryGrows

(* A row appears only by its own listing.                                  *)
LEMMA Listing ==
  ASSUME TypeOK, JobsHold, [Next]_vars, NEW a \in Auctions,
         row[a].status = "absent", row'[a].status # "absent"
  PROVE  CreateAuction(a)
<1>1. CASE CommitStarts
  BY <1>1 DEF CommitStarts, JobsHold, StartsHold
<1>2. CASE CommitCloses
  BY <1>2 DEF CommitCloses, JobsHold, ClosesHold
<1>3. ASSUME NEW b \in Auctions, CreateAuction(b), b # a
      PROVE  FALSE
  BY <1>3 DEF CreateAuction, TypeOK, DbOK
<1> QED
  BY <1>1, <1>2, <1>3, RowWriters

LEMMA StepsFitStep ==
  ASSUME TypeOK, JobsHold, StepsFit, [Next]_vars
  PROVE  StepsFit'
<1> SUFFICES ASSUME NEW a \in Auctions,
                    row'[a].status # "absent", hash'[a].state = "ACTIVE"
             PROVE  hash'[a].inc = row'[a].inc
  BY DEF StepsFit
<1>1. CASE row[a].status = "absent"
  BY <1>1, Listing, CreatedHash
<1>2. CASE row[a].status # "absent"
  <2>1. row'[a].inc = row[a].inc
    BY <1>2, RowsMoveOn
  <2>2. CASE hash'[a] = hash[a]
    BY <1>2, <2>1, <2>2 DEF StepsFit
  <2>3. CASE \E b \in Auctions : CreateAuction(b) \/ CreateAuctionLosesCommit(b)
    BY <1>2, <2>2, <2>3, CreatedHash
  <2>4. ASSUME NEW r \in Requests, BidAccepted(r)
        PROVE  hash'[a].inc = row'[a].inc
    <3>1. CASE a = req[r].auction
      BY <1>2, <2>1, <2>4, <3>1, AcceptedBid DEF StepsFit
    <3>2. CASE a # req[r].auction
      BY <2>2, <2>4, <3>2, AcceptedBid
    <3> QED
      BY <3>1, <3>2
  <2>5. CASE \E b \in Auctions : InitKey(b)
    BY <2>1, <2>2, <2>5, OpenedHash
  <2>6. CASE SettleCurrent /\ MarkClosed
    BY <2>2, <2>6, MarkedHash DEF Settled
  <2>7. CASE RedisLoss
    BY <2>7 DEF RedisLoss, NoHash
  <2> QED
    BY <2>2, <2>3, <2>4, <2>5, <2>6, <2>7, HashWriters
<1> QED
  BY <1>1, <1>2

(* A bid in the history keeps its place: what was the best stays so.       *)
LEMMA BestStays ==
  ASSUME TypeOK, HistoryServed, [Next]_vars, NEW a \in Auctions,
         NEW n \in 0..Len(log[a]), NEW h, BestIs(h, n, log[a], req)
  PROVE  BestIs(h, n, log'[a], req')
<1>1. CASE n = 0
  BY <1>1 DEF BestIs
<1>2. CASE n # 0
  <2>1. n \in 1..Len(log[a])
    BY <1>2 DEF TypeOK, HistoryOK
  <2> QED
    BY <1>2, <2>1, HistoryKept DEF BestIs
<1> QED
  BY <1>1, <1>2

(* An auction's ladder, where the step writes neither its history nor the  *)
(* price, leader and count of its hash.                                    *)
LEMMA LadderFrame ==
  ASSUME TypeOK, JobsHold, HistoryServed, LadderHolds, [Next]_vars,
         NEW a \in Auctions, log'[a] = log[a],
         hash'[a].leader = hash[a].leader, hash'[a].price = hash[a].price,
         hash'[a].seq = hash[a].seq
  PROVE  LadderOf(a)'
<1> SUFFICES ASSUME ~wiped'[a] PROVE LadderOf(a)'
  BY DEF LadderOf
<1>1. ~wiped[a] /\ Len(log[a]) \in Nat
  BY WipesStay DEF TypeOK, HistoryOK
<1>2. BestIs(hash[a], Len(log[a]), log'[a], req')
  <2>1. Len(log[a]) \in 0..Len(log[a])
    BY <1>1
  <2> QED
    BY <1>1, <2>1, BestStays DEF LadderHolds, LadderOf
<1>3. BestIs(hash'[a], Len(log'[a]), log'[a], req')
  BY <1>2 DEF BestIs
<1>4. \A i \in 1..Len(log[a]) :
         /\ Offer(log[a][i].req)' = Offer(log[a][i].req)
         /\ row'[a].inc = row[a].inc
  <2>1. ASSUME NEW i \in 1..Len(log[a])
        PROVE  row'[a].inc = row[a].inc
    BY RowsMoveOn DEF LadderHolds, BidsAreListed
  <2> QED
    BY <2>1, HistoryKept
<1> QED
  BY <1>1, <1>3, <1>4 DEF LadderHolds, LadderOf

(* A hash without bids, of an auction without bids.                        *)
LEMMA LadderEmpty ==
  ASSUME NEW a \in Auctions, ~wiped'[a] => log'[a] = << >>,
         hash'[a].seq = 0, hash'[a].leader = NoBidder
  PROVE  LadderOf(a)'
<1> SUFFICES ASSUME ~wiped'[a], log'[a] = << >> PROVE LadderOf(a)'
  BY DEF LadderOf
<1>1. Len(log'[a]) = 0 /\ 1..Len(log'[a]) = {}
  OBVIOUS
<1> QED
  BY <1>1 DEF LadderOf, BestIs

LEMMA OfferType ==
  ASSUME TypeOK, NEW r \in Requests
  PROVE  Offer(r) \in Nat
<1>1. req[r] \in Req \cup {NoReq}
  BY DEF TypeOK, RequestsOK
<1>2. req[r].amount \in Nat
  <2>1. CASE req[r] \in Req
    BY <2>1, AuctionSystemAssumption DEF Req
  <2>2. CASE req[r] = NoReq
    BY <2>2 DEF NoReq
  <2> QED
    BY <1>1, <2>1, <2>2
<1> QED
  BY <1>2, CentsType DEF Offer

(* The step of the script: it compares with the hash alone.                *)
LEMMA LadderClimbs ==
  ASSUME TypeOK, JobsHold, ServedRows, HistoryServed, LadderHolds, [Next]_vars,
         NEW r \in Requests, BidAccepted(r), NEW a \in Auctions, a = req[r].auction
  PROVE  LadderOf(a)'
<1> SUFFICES ASSUME ~wiped'[a] PROVE LadderOf(a)'
  BY DEF LadderOf
<1> DEFINE e == [req |-> r, seq |-> hash[a].seq + 1]
           n == Len(log[a])
<1>1. /\ ~wiped[a] /\ n \in Nat /\ log[a] \in Seq(Entry)
      /\ hash[a].price \in Nat /\ row[a].inc \in Nat
  <2>1. ~wiped[a] /\ log[a] \in Seq(Entry)
    BY WipesStay DEF TypeOK, HistoryOK
  <2>2. hash[a] \in Hash /\ row[a] \in Row
    BY DEF TypeOK, RedisOK, DbOK
  <2> QED
    BY <2>1, <2>2 DEF Hash, Row
<1>2. /\ hash[a].seq = n /\ BestIs(hash[a], n, log[a], req)
      /\ \A i \in 1..n : log[a][i].seq = i
      /\ \A i, j \in 1..n : i < j =>
            Offer(log[a][j].req) >= Offer(log[a][i].req) + row[a].inc
  BY <1>1 DEF LadderHolds, LadderOf
<1>3. /\ hash[a].state = "ACTIVE"
      /\ hash'[a].leader = req[r].bidder /\ hash'[a].price = Offer(r)
      /\ hash'[a].seq = n + 1
      /\ Offer(r) >= hash[a].price + hash[a].inc
      /\ log'[a] = Append(log[a], e)
  BY <1>2, AcceptedBid
<1>4. row[a].status # "absent" /\ row'[a].inc = row[a].inc /\ hash[a].inc = row[a].inc
  <2>1. row[a].status # "absent"
    BY DEF BidAccepted, ServedRows
  <2> QED
    BY <1>3, <2>1, RowsMoveOn DEF LadderHolds, StepsFit
<1>5. req'[r] = req[r] /\ Offer(r)' = Offer(r)
  BY RequestsStay DEF BidAccepted, Offer
<1>6. e.req = r /\ e.seq = n + 1
  BY <1>2
<1> HIDE DEF e
<1>7. /\ Len(log'[a]) = n + 1 /\ log'[a][n + 1] = e
      /\ \A i \in 1..n : /\ log'[a][i] = log[a][i]
                         /\ Offer(log[a][i].req)' = Offer(log[a][i].req)
                         /\ Offer(log[a][i].req) \in Nat
  <2>1. Len(log'[a]) = n + 1 /\ log'[a][n + 1] = e
    BY <1>1, <1>3
  <2>2. ASSUME NEW i \in 1..n
        PROVE  Offer(log[a][i].req) \in Nat
    <3>1. log[a][i].req \in Requests
      BY HistoryKept
    <3> QED
      BY <3>1, OfferType
  <2> QED
    BY <2>1, <2>2, HistoryKept
<1> HIDE DEF n
<1>8. BestIs(hash'[a], n + 1, log'[a], req')
  <2>1. n + 1 # 0 /\ log'[a][n + 1].req = r
    BY <1>1, <1>6, <1>7
  <2>2. hash'[a].leader = req'[r].bidder /\ hash'[a].price = Cents(req'[r].amount)
    BY <1>3, <1>5 DEF Offer
  <2> QED
    BY <2>1, <2>2 DEF BestIs
(* The best so far is at most the price in the hash, and so are the others. *)
<1>9. \A i \in 1..n : Offer(r) >= Offer(log[a][i].req) + row[a].inc
  <2> SUFFICES ASSUME NEW i \in 1..n
               PROVE  Offer(r) >= Offer(log[a][i].req) + row[a].inc
    OBVIOUS
  <2>1. n \in 1..n /\ n # 0 /\ (i = n \/ i < n)
    BY <1>1
  <2>2. hash[a].price = Offer(log[a][n].req)
    BY <1>2, <2>1 DEF BestIs, Offer
  <2>3. i < n => Offer(log[a][n].req) >= Offer(log[a][i].req) + row[a].inc
    BY <1>2, <2>1
  <2>4. /\ Offer(log[a][i].req) \in Nat /\ Offer(log[a][n].req) \in Nat
        /\ Offer(r) \in Nat
    BY <1>7, <2>1, OfferType
  <2>5. Offer(r) >= Offer(log[a][n].req) + row[a].inc
    BY <1>3, <1>4, <2>2
  <2>6. ASSUME NEW x \in Nat, NEW y \in Nat, NEW z \in Nat, NEW d \in Nat,
               z >= y + d, x = y \/ y >= x + d
        PROVE  z >= x + d
    BY <2>6
  <2> QED
    BY <1>1, <2>1, <2>3, <2>4, <2>5, <2>6
<1>10. \A i \in 1..n + 1 : log'[a][i].seq = i
  <2> SUFFICES ASSUME NEW i \in 1..n + 1 PROVE log'[a][i].seq = i
    OBVIOUS
  <2>1. i \in 1..n \/ i = n + 1
    BY <1>1
  <2> QED
    BY <1>2, <1>6, <1>7, <2>1
<1>11. \A i, j \in 1..n + 1 : i < j =>
          Offer(log[a][j].req)' >= Offer(log[a][i].req)' + row'[a].inc
  <2>1. ASSUME NEW i \in 1..n + 1, NEW j \in 1..n + 1, i < j
        PROVE  Offer(log[a][j].req)' >= Offer(log[a][i].req)' + row'[a].inc
    <3>1. i \in 1..n /\ (j \in 1..n \/ j = n + 1)
      BY <1>1, <2>1
    <3>2. CASE j \in 1..n
      BY <1>2, <1>4, <1>7, <2>1, <3>1, <3>2
    <3>3. CASE j = n + 1
      <4>1. Offer(log[a][j].req)' = Offer(r)
        BY <1>5, <1>6, <1>7, <3>3 DEF Offer
      <4> QED
        BY <1>4, <1>7, <1>9, <3>1, <4>1
    <3> QED
      BY <3>1, <3>2, <3>3
  <2> QED
    BY <2>1
<1> QED
  BY <1>3, <1>7, <1>8, <1>10, <1>11 DEF LadderOf

LEMMA LadderStep ==
  ASSUME TypeOK, JobsHold, ServedRows, HistoryServed, LadderHolds, [Next]_vars
  PROVE  LadderHolds'
<1> SUFFICES ASSUME NEW a \in Auctions PROVE LadderOf(a)'
  BY ListedStep, StepsFitStep DEF LadderHolds
<1>1. CASE /\ log'[a] = log[a] /\ hash'[a].leader = hash[a].leader
           /\ hash'[a].price = hash[a].price /\ hash'[a].seq = hash[a].seq
  BY <1>1, LadderFrame
<1>2. ASSUME NEW b \in Auctions, CreateAuction(b) \/ CreateAuctionLosesCommit(b)
      PROVE  LadderOf(a)'
  <2>1. CASE a = b
    <3>1. log[a] = << >>
      BY <1>2, <2>1, CreatedHash DEF LadderHolds, BidsAreListed
    <3> QED
      BY <1>2, <2>1, <3>1, CreatedHash, LadderEmpty
  <2>2. CASE a # b
    BY <1>1, <1>2, <2>2, CreatedHash
  <2> QED
    BY <2>1, <2>2
<1>3. ASSUME NEW r \in Requests, BidAccepted(r)
      PROVE  LadderOf(a)'
  <2>1. CASE a = req[r].auction
    BY <1>3, <2>1, LadderClimbs
  <2>2. CASE a # req[r].auction
    BY <1>1, <1>3, <2>2, AcceptedBid
  <2> QED
    BY <2>1, <2>2
<1>4. ASSUME NEW b \in Auctions, InitKey(b), UNCHANGED log
      PROVE  LadderOf(a)'
  <2>1. CASE a = b
    <3>1. ~wiped'[a] => log'[a] = << >>
      BY <1>4, <2>1 DEF InitKey, Forgets, TypeOK, HistoryOK
    <3> QED
      BY <1>4, <2>1, <3>1, OpenedHash, LadderEmpty
  <2>2. CASE a # b
    BY <1>1, <1>4, <2>2, OpenedHash
  <2> QED
    BY <2>1, <2>2
<1>5. CASE SettleCurrent /\ MarkClosed /\ UNCHANGED log
  BY <1>1, <1>5, MarkedHash
<1>6. CASE RedisLoss
  <2>1. ~wiped'[a] => log'[a] = << >>
    BY <1>6 DEF RedisLoss, Forgets
  <2>2. hash'[a].seq = 0 /\ hash'[a].leader = NoBidder
    BY <1>6 DEF RedisLoss, NoHash
  <2> QED
    BY <2>1, <2>2, LadderEmpty
<1> QED
  BY <1>1, <1>2, <1>3, <1>4, <1>5, <1>6, HashWriters

-----------------------------------------------------------------------------
(* The bid history.                                                        *)

(* These logs have the request's bid under this number.                    *)
Numbered(r, seq, logs, reqs) ==
    \E a \in Auctions :
        /\ reqs[r].auction = a
        /\ \E i \in 1..Len(logs[a]) : logs[a][i] = [req |-> r, seq |-> seq]

Holding == {"judged", "inserting", "finishing", "replied"}

(* The inductive invariant: an accepted bid's row, and before it the       *)
(* session of its request, have the number the script gave.                *)
NumbersHold ==
    \A r \in Requests :
        /\ bidRow[r].status = "ACCEPTED" => Numbered(r, bidRow[r].seq, log, req)
        /\ pc[r] \in Holding /\ res[r].verdict = "ACCEPTED"
              => Numbered(r, res[r].seq, log, req)

LEMMA NumbersInit == Init => NumbersHold
  BY DEF Init, NumbersHold, Holding

LEMMA NumbersStay ==
  ASSUME TypeOK, HistoryServed, [Next]_vars, NEW r \in Requests, NEW s,
         Numbered(r, s, log, req)
  PROVE  Numbered(r, s, log', req')
<1>1. PICK a \in Auctions : /\ req[r].auction = a
                            /\ \E i \in 1..Len(log[a]) : log[a][i] = [req |-> r, seq |-> s]
  BY DEF Numbered
<1>2. PICK i \in 1..Len(log[a]) : log[a][i] = [req |-> r, seq |-> s]
  BY <1>1
<1>3. i \in 1..Len(log'[a]) /\ log'[a][i] = log[a][i] /\ req'[r] = req[r]
  <2>1. log[a][i].req = r
    BY <1>2
  <2> QED
    BY <2>1, HistoryKept
<1> QED
  BY <1>1, <1>2, <1>3 DEF Numbered

(* Where a request's row and its session's verdict come from.              *)
LEMMA NumberWriters ==
  ASSUME TypeOK, AnswersHold, [Next]_vars, NEW r \in Requests
  PROVE  /\ \/ bidRow'[r] = bidRow[r]
            \/ /\ pc[r] \in Holding /\ bidRow'[r].seq = res[r].seq
               /\ bidRow'[r].status = "ACCEPTED" => res[r].verdict = "ACCEPTED"
         /\ pc'[r] \in Holding /\ res'[r].verdict = "ACCEPTED" =>
               \/ pc[r] \in Holding /\ res'[r].verdict = res[r].verdict
                                    /\ res'[r].seq = res[r].seq
               \/ BidAccepted(r) /\ res'[r].seq = hash[req[r].auction].seq + 1
<1> USE DEF TypeOK, RequestsOK, DbOK, Holding
<1>1. CASE \E q \in Requests \ {r} : Receive(q) \/ Serve(q) \/ ServeFault(q)
  BY <1>1, OtherStep
<1>2. CASE Receive(r) \/ AppendStream(r)
  BY <1>2 DEF Receive, AppendStream, Answer, Goto, dbVars
<1>3. CASE EvaluateAccepts(r)
  <2>1. BidAccepted(r) /\ UNCHANGED bidRow
    BY <1>3 DEF EvaluateAccepts, BidAccepted, dbVars
  <2>2. res'[r].seq = hash[req[r].auction].seq + 1
    BY <1>3 DEF EvaluateAccepts, Res
  <2> QED
    BY <2>1, <2>2
<1>4. CASE EvaluateRejects(r)
  BY <1>4 DEF EvaluateRejects, Goto, dbVars
<1>5. CASE ReadBack(r)
  <2>1. res'[r].verdict = res[r].verdict /\ pc[r] = "rejected" /\ UNCHANGED bidRow
    BY <1>5 DEF ReadBack, Res, dbVars
  <2>2. res[r].verdict # "ACCEPTED"
    BY <2>1 DEF AnswersHold, ToldRight
  <2> QED
    BY <2>1, <2>2
<1>6. CASE Persist(r) \/ ReplyBeforeCommit(r)
  BY <1>6 DEF Persist, ReplyBeforeCommit, Answer, Goto, dbVars
<1>7. CASE InsertProxy(r)
  <2>1. /\ pc[r] = "inserting" /\ UNCHANGED bidRow
        /\ res'[r].verdict = res[r].verdict /\ res'[r].seq = res[r].seq
    BY <1>7 DEF InsertProxy, Res, dbVars
  <2> QED
    BY <2>1
<1>8. CASE CommitBid(r)
  <2>1. /\ pc[r] \in {"finishing", "replied"} /\ pc'[r] = "done"
        /\ bidRow'[r].status = StatusOf(r) /\ bidRow'[r].seq = res[r].seq
    BY <1>8 DEF CommitBid, AtCommit, Answer, Goto, SeqToStore
  <2> QED
    BY <2>1 DEF StatusOf
<1>9. CASE ServeFault(r)
  BY <1>9 DEF ServeFault, AppendStreamError, EvaluateError, ReadBackError,
     CommitBidError, Answer, Goto, dbVars
<1>10. CASE AppCrash
  BY <1>10 DEF AppCrash, InFlight, dbVars
<1>11. CASE UNCHANGED <<bidRow, reqVars>>
  BY <1>11 DEF reqVars
<1>12. CASE \/ Tick \/ RedisLoss \/ UNCHANGED vars
            \/ StartJob \/ CloseJob \/ JobFault
            \/ \E a \in Auctions : CreateAuction(a) \/ CreateAuctionLosesCommit(a)
  BY <1>11, <1>12 DEF Tick, CreateAuction, CreateAuctionLosesCommit, StartJob,
     CloseJob, JobFault, PollStarts, StartAuction, StartAuctionError,
     CommitStarts, CommitStartsError, PollCloses, CloseRead, CloseReadError,
     CloseApply, CloseApplyError, CloseFlushFails, CommitCloses,
     CommitClosesError, RedisLoss, vars, dbVars
<1> QED
  BY <1>1, <1>2, <1>3, <1>4, <1>5, <1>6, <1>7, <1>8, <1>9, <1>10, <1>12
  DEF Next, Serve

LEMMA NumbersStep ==
  ASSUME TypeOK, HistoryServed, AnswersHold, NumbersHold, [Next]_vars
  PROVE  NumbersHold'
<1> SUFFICES ASSUME NEW r \in Requests
             PROVE  /\ bidRow'[r].status = "ACCEPTED"
                          => Numbered(r, bidRow'[r].seq, log', req')
                    /\ pc'[r] \in Holding /\ res'[r].verdict = "ACCEPTED"
                          => Numbered(r, res'[r].seq, log', req')
  BY DEF NumbersHold, Holding
<1>1. \A s : Numbered(r, s, log, req) => Numbered(r, s, log', req')
  BY NumbersStay
<1>2. BidAccepted(r) => Numbered(r, hash[req[r].auction].seq + 1, log', req')
  <2> SUFFICES ASSUME BidAccepted(r), NEW a \in Auctions, a = req[r].auction
               PROVE  Numbered(r, hash[a].seq + 1, log', req')
    BY AcceptedBid
  <2> DEFINE e == [req |-> r, seq |-> hash[a].seq + 1]
  <2>1. log'[a] = Append(log[a], e) /\ req'[r] = req[r]
    BY AcceptedBid, RequestsStay DEF BidAccepted
  <2>2. log[a] \in Seq(Entry)
    BY DEF TypeOK, HistoryOK
  <2>3. \E i \in 1..Len(log'[a]) : log'[a][i] = e
    <3> HIDE DEF e
    <3>1. /\ Len(log[a]) + 1 \in 1..Len(log'[a])
          /\ log'[a][Len(log[a]) + 1] = e
      BY <2>1, <2>2
    <3> QED
      BY <3>1
  <2> QED
    BY <2>1, <2>3 DEF Numbered
<1> QED
  BY <1>1, <1>2, NumberWriters DEF NumbersHold

LEMMA LadderInvariant ==
  Spec => []( /\ TypeOK /\ JobsHold /\ TimesHold /\ HistoryServed
              /\ AnswersHold /\ LadderHolds /\ NumbersHold)
<1>1. Init => AnswersHold /\ LadderHolds /\ NumbersHold
  BY AnswersInit, LadderInit, NumbersInit
<1>2. /\ TypeOK /\ JobsHold /\ TimesHold /\ SalesHold
      /\ AnswersHold /\ LadderHolds /\ NumbersHold /\ [Next]_vars
      => (AnswersHold /\ LadderHolds /\ NumbersHold)'
  BY AnswersStep, LadderStep, NumbersStep DEF TimesHold, SalesHold
<1>3. SalesHold => HistoryServed
  BY DEF SalesHold
<1> QED
  BY <1>1, <1>2, <1>3, TimesInvariant, SalesInvariant, PTL DEF Spec

(* Numbers as the script gave them order the accepted bids by their prices. *)
LEMMA NumbersOrder ==
  ASSUME TypeOK, LadderHolds, NumbersHold
  PROVE  HistoryIsLadder
<1> SUFFICES ASSUME TypeOK, LadderHolds, NumbersHold,
                    NEW r \in Requests, bidRow[r].status = "ACCEPTED",
                    NEW a, a = req[r].auction
             PROVE  /\ \E i \in 1..Len(log[a]) :
                          log[a][i] = [req |-> r, seq |-> bidRow[r].seq]
                    /\ \A q \in Requests \ {r} :
                          /\ bidRow[q].status = "ACCEPTED" /\ req[q].auction = a
                          /\ ~wiped[a]
                          /\ bidRow[r].seq <= bidRow[q].seq
                          => /\ bidRow[r].seq < bidRow[q].seq
                             /\ Offer(q) >= Offer(r) + row[a].inc
  BY DEF HistoryIsLadder
<1>1. \A q \in Requests : bidRow[q].status = "ACCEPTED" /\ req[q].auction = a =>
         /\ a \in Auctions
         /\ \E i \in 1..Len(log[a]) : log[a][i] = [req |-> q, seq |-> bidRow[q].seq]
  <2> SUFFICES ASSUME NEW q \in Requests,
                      bidRow[q].status = "ACCEPTED", req[q].auction = a
               PROVE  /\ a \in Auctions
                      /\ \E i \in 1..Len(log[a]) :
                            log[a][i] = [req |-> q, seq |-> bidRow[q].seq]
    OBVIOUS
  <2>1. Numbered(q, bidRow[q].seq, log, req)
    BY DEF NumbersHold
  <2> QED
    BY <2>1 DEF Numbered
<1>2. ASSUME NEW q \in Requests \ {r}, bidRow[q].status = "ACCEPTED",
             req[q].auction = a, ~wiped[a], bidRow[r].seq <= bidRow[q].seq
      PROVE  bidRow[r].seq < bidRow[q].seq /\ Offer(q) >= Offer(r) + row[a].inc
  <2>1. PICK i \in 1..Len(log[a]) : log[a][i] = [req |-> r, seq |-> bidRow[r].seq]
    BY <1>1
  <2>2. PICK j \in 1..Len(log[a]) : log[a][j] = [req |-> q, seq |-> bidRow[q].seq]
    BY <1>1, <1>2
  <2>3. /\ log[a][i].req = r /\ log[a][i].seq = bidRow[r].seq
        /\ log[a][j].req = q /\ log[a][j].seq = bidRow[q].seq
    BY <2>1, <2>2
  <2>4. /\ \A k \in 1..Len(log[a]) : log[a][k].seq = k
        /\ \A k, l \in 1..Len(log[a]) : k < l =>
              Offer(log[a][l].req) >= Offer(log[a][k].req) + row[a].inc
    BY <1>1, <1>2 DEF LadderHolds, LadderOf
  <2>5. i < j
    BY <1>2, <2>3, <2>4
  <2> QED
    BY <2>3, <2>4, <2>5
<1> QED
  BY <1>1, <1>2

(* However the transactions of requests commit, fail or crash, the stored  *)
(* numbers are the script's, and while the hash keeps its memory a later   *)
(* number is a bid higher by the increment.                                *)
THEOREM HistoryOrdered == Spec => []HistoryIsLadder
  BY NumbersOrder, LadderInvariant, PTL

-----------------------------------------------------------------------------
(* The keys.                                                               *)

(* A key that is absent has no leader, and one without a leader no price.  *)
KeysFit ==
    \A a \in Auctions : /\ hash[a].state = "none" => hash[a] = NoHash
                        /\ hash[a].leader = NoBidder => hash[a].price = 0

LEMMA KeysFitStep ==
  ASSUME TypeOK, JobsHold, KeysFit, [Next]_vars
  PROVE  KeysFit'
<1> SUFFICES ASSUME NEW a \in Auctions
             PROVE  /\ hash'[a].state = "none" => hash'[a] = NoHash
                    /\ hash'[a].leader = NoBidder => hash'[a].price = 0
  BY DEF KeysFit
<1>1. CASE hash'[a] = hash[a]
  BY <1>1 DEF KeysFit
<1>2. ASSUME NEW b \in Auctions, CreateAuction(b) \/ CreateAuctionLosesCommit(b)
      PROVE  \/ hash'[a] = hash[a]
             \/ hash'[a] = NoHash
             \/ /\ hash'[a].state # "none" /\ hash'[a].leader = NoBidder
                /\ hash'[a].price = 0
  <2>1. CASE a # b
    BY <1>2, <2>1, CreatedHash
  <2>2. CASE a = b
    <3>1. \E new : hash' = [hash EXCEPT ![a] = HashOf(new)]
      BY <1>2, <2>2 DEF CreateAuction, CreateAuctionLosesCommit
    <3> QED
      BY <3>1 DEF HashOf, InitHash, NoHash, TypeOK, RedisOK
  <2> QED
    BY <2>1, <2>2
<1>3. ASSUME NEW r \in Requests, BidAccepted(r)
      PROVE  \/ hash'[a] = hash[a]
             \/ hash'[a].state # "none" /\ hash'[a].leader # NoBidder
  <2> DEFINE b == req[r].auction
  <2>1. /\ hash'[b].state = "ACTIVE" /\ hash'[b].leader = req[r].bidder
        /\ req[r] \in Req /\ (a # b => hash'[a] = hash[a])
    BY <1>3, AcceptedBid
  <2>2. req[r].bidder # NoBidder
    BY <2>1, BidScriptAssumption DEF Req
  <2> QED
    BY <2>1, <2>2
<1>4. ASSUME NEW b \in Auctions, InitKey(b)
      PROVE  \/ hash'[a] = hash[a]
             \/ /\ hash'[a].state # "none" /\ hash'[a].leader = NoBidder
                /\ hash'[a].price = 0
  BY <1>4 DEF InitKey, InitHash, TypeOK, RedisOK
<1>5. CASE SettleCurrent /\ MarkClosed
  BY <1>1, <1>5, MarkedHash DEF KeysFit, Settled
<1>6. CASE RedisLoss
  BY <1>6 DEF RedisLoss, NoHash
<1> QED
  BY <1>1, <1>2, <1>3, <1>4, <1>5, <1>6, HashWriters DEF NoHash

LEMMA KeysInvariant ==
  Spec => [](TypeOK /\ JobsHold /\ TimesHold /\ LadderHolds /\ KeysFit)
<1>1. Init => KeysFit
  BY DEF Init, KeysFit, NoHash
<1>2. TypeOK /\ JobsHold /\ KeysFit /\ [Next]_vars => KeysFit'
  BY KeysFitStep
<1> QED
  BY <1>1, <1>2, LadderInvariant, PTL DEF Spec

(* A key that nothing was wiped from and whose auction has no bids.        *)
LEMMA EmptyKey ==
  ASSUME LadderHolds, KeysFit, NEW a \in Auctions, ~wiped[a], log[a] = << >>
  PROVE  hash[a].price = 0 /\ hash[a].leader = NoBidder /\ hash[a].seq = 0
<1>1. Len(log[a]) = 0
  OBVIOUS
<1>2. hash[a].leader = NoBidder /\ hash[a].seq = 0
  BY <1>1 DEF LadderHolds, LadderOf, BestIs
<1> QED
  BY <1>2 DEF KeysFit

(* A key opens once; a repeated start that wipes no bids writes the same.  *)
LEMMA KeyOpens ==
  ASSUME TypeOK, JobsHold, TimesHold, LadderHolds, KeysFit, [Next]_vars,
         NEW a \in Auctions, ~wiped'[a],
         \/ CreateAuction(a) \/ CreateAuctionLosesCommit(a)
         \/ a \in startTodo /\ InitKey(a)
  PROVE  Key(a)!Open \/ UNCHANGED Key(a)!vars
<1>1. ~wiped[a]
  BY WipesStay
<1>2. CASE CreateAuction(a) \/ CreateAuctionLosesCommit(a)
  <2>1. hash[a].state = "none" /\ row[a].status = "absent"
    BY <1>2 DEF CreateAuction, CreateAuctionLosesCommit, Listable
  <2>2. log[a] = << >>
    BY <2>1 DEF LadderHolds, BidsAreListed
  <2>3. hash[a].price = 0 /\ hash[a].leader = NoBidder /\ hash[a].seq = 0
    BY <1>1, <2>2, EmptyKey
  <2>4. \E new : hash' = [hash EXCEPT ![a] = HashOf(new)]
    BY <1>2 DEF CreateAuction, CreateAuctionLosesCommit
  <2>5. \E new : hash'[a] = HashOf(new)
    BY <2>4 DEF TypeOK, RedisOK
  <2>6. hash'[a].inc \in Nat
    BY TypeStep DEF TypeOK, RedisOK, Hash
  <2>7. hash'[a] = NoHash \/ /\ hash'[a].state = "ACTIVE" /\ hash'[a].price = 0
                             /\ hash'[a].leader = NoBidder /\ hash'[a].seq = 0
    BY <2>5 DEF HashOf, InitHash
  <2> QED
    BY <2>1, <2>3, <2>6, <2>7 DEF Key!Open, Key!vars, KeysFit
<1>3. CASE a \in startTodo /\ InitKey(a)
  <2>1. row[a].status = "UPCOMING"
    BY <1>3 DEF JobsHold, StartsHold
  <2>2. log[a] = << >>
    <3>1. wiped'[a] = (wiped[a] \/ log[a] # << >>)
      BY <1>3 DEF InitKey, Forgets, TypeOK, HistoryOK
    <3> QED
      BY <3>1, Zenon
  <2>3. hash[a].price = 0 /\ hash[a].leader = NoBidder /\ hash[a].seq = 0
    BY <1>1, <2>2, EmptyKey
  <2>4. hash[a].state \in {"none", "ACTIVE"}
    BY <2>1 DEF TimesHold, HashFits, TypeOK, RedisOK, Hash, HashState
  <2>5. hash[a].state = "ACTIVE" => hash[a].inc = row[a].inc
    BY <2>1 DEF LadderHolds, StepsFit
  <2>6. /\ hash'[a].state = "ACTIVE" /\ hash'[a].price = 0
        /\ hash'[a].leader = NoBidder /\ hash'[a].seq = 0
        /\ hash'[a].inc = row[a].inc
    BY <1>3 DEF InitKey, InitHash, TypeOK, RedisOK
  <2>7. row[a].inc \in Nat
    BY DEF TypeOK, DbOK, Row
  <2> QED
    BY <2>3, <2>4, <2>5, <2>6, <2>7 DEF Key!Open, Key!vars
<1> QED
  BY <1>2, <1>3

LEMMA KeyAccepts ==
  ASSUME TypeOK, NEW r \in Requests, BidAccepted(r),
         NEW a \in Auctions, a = req[r].auction
  PROVE  Key(a)!Next
<1>1. /\ hash[a].state = "ACTIVE" /\ hash'[a].state = "ACTIVE"
      /\ hash'[a].leader = req[r].bidder /\ hash'[a].price = Offer(r)
      /\ hash'[a].seq = hash[a].seq + 1 /\ hash'[a].inc = hash[a].inc
      /\ Offer(r) >= hash[a].price + hash[a].inc
      /\ req[r].bidder \in Bidders
  BY AcceptedBid DEF Req
<1>2. Offer(r) \in Nat
  BY OfferType
<1>3. PICK b \in Bidders : b = req[r].bidder
  BY <1>1
<1>4. Key(a)!AcceptBid(b)
  BY <1>1, <1>2, <1>3 DEF Key!AcceptBid
<1> QED
  BY <1>4 DEF Key!Next

LEMMA KeyCloses ==
  ASSUME TypeOK, JobsHold, SettleCurrent, MarkClosed,
         NEW a \in Auctions, a = closeCur
  PROVE  Key(a)!Close \/ UNCHANGED Key(a)!vars \/ MarksMissingKey(a)
<1> DEFINE s == Settlement(closeCur, closeSnap).status
<1>1. hash[a] \in Hash
  BY DEF TypeOK, RedisOK
<1>2. s \in Settled
  BY DEF Settlement, Settled
<1>3. hash'[a] = [hash[a] EXCEPT !.state = s]
  BY DEF MarkClosed, TypeOK, RedisOK
<1> HIDE DEF s
<1>4. /\ hash'[a].state = s /\ hash'[a].price = hash[a].price
      /\ hash'[a].leader = hash[a].leader
      /\ hash'[a].seq = hash[a].seq
      /\ hash'[a].inc = hash[a].inc
  BY <1>1, <1>3 DEF Hash
<1>5. CASE hash[a].state = "none"
  BY <1>2, <1>3, <1>5 DEF MarksMissingKey
<1>6. CASE hash[a].state = "ACTIVE"
  BY <1>2, <1>4, <1>6 DEF Key!Close, Settled
<1>7. CASE hash[a].state \in Settled
  BY <1>2, <1>4, <1>7 DEF Key!vars, Settled
<1> QED
  BY <1>1, <1>5, <1>6, <1>7 DEF Hash, HashState

LEMMA KeyStep ==
  ASSUME TypeOK, JobsHold, TimesHold, LadderHolds, KeysFit, [Next]_vars,
         NEW a \in Auctions, ~wiped'[a]
  PROVE  \/ Key(a)!Next \/ UNCHANGED Key(a)!vars
         \/ RedisLoss
         \/ MarksMissingKey(a) /\ closeCur = a
<1>1. CASE hash'[a] = hash[a]
  BY <1>1 DEF Key!vars
<1>2. ASSUME NEW b \in Auctions, CreateAuction(b) \/ CreateAuctionLosesCommit(b),
             b # a
      PROVE  hash'[a] = hash[a]
  BY <1>2, CreatedHash
<1>3. ASSUME NEW b \in Auctions, InitKey(b), b # a
      PROVE  hash'[a] = hash[a]
  BY <1>3, OpenedHash
<1>4. ASSUME \/ CreateAuction(a) \/ CreateAuctionLosesCommit(a)
             \/ a \in startTodo /\ InitKey(a)
      PROVE  Key(a)!Open \/ UNCHANGED Key(a)!vars
  BY <1>4, KeyOpens
<1>5. ASSUME NEW r \in Requests, BidAccepted(r)
      PROVE  hash'[a] = hash[a] \/ Key(a)!Next
  BY <1>5, AcceptedBid, KeyAccepts
<1>6. CASE SettleCurrent /\ MarkClosed
  <2>1. CASE closeCur = a
    BY <1>6, <2>1, KeyCloses DEF Key!Next
  <2>2. CASE closeCur # a
    BY <1>1, <1>6, <2>2, MarkedHash
  <2> QED
    BY <2>1, <2>2
<1> QED
  BY <1>1, <1>2, <1>3, <1>4, <1>5, <1>6, HashWriters DEF Key!Next

(* Whatever the jobs, the requests and the faults do, each auction is the  *)
(* ascending auction of the script from its opening to its close, except   *)
(* where Redis has lost its key or its bids.                               *)
THEOREM AuctionsDoAscend == Spec => AuctionsAscend
<1>1. TypeOK /\ JobsHold /\ TimesHold /\ LadderHolds /\ KeysFit /\ [Next]_vars
      => [\A a \in Auctions :
             ~wiped'[a] => \/ [Key(a)!Next]_(Key(a)!vars)
                           \/ RedisLoss
                           \/ MarksMissingKey(a)]_vars
  BY KeyStep
<1> QED
  BY <1>1, KeysInvariant, PTL DEF Spec, AuctionsAscend

-----------------------------------------------------------------------------
(* The settlement.                                                         *)

(* The outcome o fits the first n bids of an auction, of which the n-th is *)
(* the best, and its reserve.                                              *)
FitsBest(o, n, bids, reqs, reserve) ==
    IF n = 0 THEN o.status = "UNSOLD" /\ o.winner = NoBidder
    ELSE LET q == reqs[bids[n].req]
         IN  /\ o.price = Cents(q.amount)
             /\ o.winner = IF MeetsReserve(o.price, reserve) THEN q.bidder
                           ELSE NoBidder
             /\ o.status = IF MeetsReserve(o.price, reserve) THEN "SOLD"
                           ELSE "UNSOLD"

(* The inductive invariant, auction by auction: unless the hash has lost   *)
(* bids, what a close has read, what it leaves in its session and what is  *)
(* committed all fit the history as long as it was when the hash was read. *)
CloseFits(a) ==
    ~wiped[a] =>
        /\ seen[a] \in 0..Len(log[a])
        /\ closeCur = a => BestIs(closeSnap, seen[a], log[a], req)
        /\ closeDone[a].status # "none" =>
              FitsBest(closeDone[a], seen[a], log[a], req, row[a].reserve)
        /\ row[a].status \in Settled =>
              FitsBest(row[a], seen[a], log[a], req, row[a].reserve)

(* Accepted bids have bidders.                                             *)
BiddersNamed ==
    \A a \in Auctions : \A i \in 1..Len(log[a]) :
        req[log[a][i].req].bidder # NoBidder

(* The close job comes to an auction once in a batch.                      *)
OneTurn == \A a \in closeTodo : a # closeCur /\ closeDone[a].status = "none"

ClosesFit == BiddersNamed /\ OneTurn /\ \A a \in Auctions : CloseFits(a)

LEMMA ClosesFitInit == Init => ClosesFit
  BY AuctionSystemAssumption
  DEF Init, ClosesFit, BiddersNamed, OneTurn, CloseFits, NothingDone, NoOutcome, NoRow, Settled

(* What settled an auction before still fits when the history has grown.   *)
LEMMA FitStays ==
  ASSUME TypeOK, HistoryServed, [Next]_vars, NEW a \in Auctions,
         NEW n \in 0..Len(log[a]), NEW o, NEW reserve,
         FitsBest(o, n, log[a], req, reserve)
  PROVE  FitsBest(o, n, log'[a], req', reserve)
<1>1. CASE n = 0
  BY <1>1 DEF FitsBest
<1>2. CASE n # 0
  <2>1. n \in 1..Len(log[a])
    BY <1>2 DEF TypeOK, HistoryOK
  <2> QED
    BY <1>2, <2>1, HistoryKept DEF FitsBest
<1> QED
  BY <1>1, <1>2

(* What close_auction makes of the hash it has read.                       *)
LEMMA SettlementFits ==
  ASSUME NEW a \in Auctions, NEW h \in Hash, NEW n \in Nat, NEW bids, NEW reqs,
         row[a] \in Row, BestIs(h, n, bids, reqs),
         n # 0 => reqs[bids[n].req].bidder # NoBidder
  PROVE  FitsBest(Settlement(a, h), n, bids, reqs, row[a].reserve)
<1>1. h.price \in Nat /\ row[a].reserve \in Nat
  BY DEF Hash, Row
<1>2. CASE n = 0
  BY <1>2 DEF BestIs, FitsBest, Settlement
<1>3. CASE n # 0
  <2> DEFINE q == reqs[bids[n].req]
  <2>1. h.leader = q.bidder /\ h.price = Cents(q.amount) /\ q.bidder # NoBidder
    BY <1>3 DEF BestIs
  <2> QED
    BY <1>3, <2>1 DEF FitsBest, Settlement
<1> QED
  BY <1>2, <1>3

LEMMA BiddersStep ==
  ASSUME TypeOK, HistoryServed, BiddersNamed, [Next]_vars
  PROVE  BiddersNamed'
<1> SUFFICES ASSUME NEW a \in Auctions, NEW i \in 1..Len(log'[a])
             PROVE  req'[log'[a][i].req].bidder # NoBidder
  BY DEF BiddersNamed
<1>1. CASE i \in 1..Len(log[a])
  <2>1. log'[a][i] = log[a][i] /\ req'[log[a][i].req] = req[log[a][i].req]
    BY <1>1, HistoryKept
  <2> QED
    BY <1>1, <2>1 DEF BiddersNamed
<1>2. CASE i \notin 1..Len(log[a])
  <2>1. PICK r \in Requests :
          /\ BidAccepted(r)
          /\ log'[a] = Append(log[a], [req |-> r, seq |-> hash[a].seq + 1])
    BY <1>2, HistoryGrows
  <2> DEFINE e == [req |-> r, seq |-> hash[a].seq + 1]
  <2>2. e.req = r /\ log'[a] = Append(log[a], e)
    BY <2>1
  <2> HIDE DEF e
  <2>3. log'[a][i] = e
    BY <1>2, <2>2 DEF TypeOK, HistoryOK
  <2>4. req'[r] = req[r] /\ req[r] \in Req
    BY <2>1, RequestsStay, AcceptedBid DEF BidAccepted
  <2> QED
    BY <2>2, <2>3, <2>4, BidScriptAssumption DEF Req
<1> QED
  BY <1>1, <1>2

LEMMA TurnStep ==
  ASSUME TypeOK, OneTurn, [Next]_vars
  PROVE  OneTurn'
<1>1. CASE UNCHANGED closeVars
  BY <1>1 DEF OneTurn, closeVars
<1>2. CASE closeTodo' = {}
  BY <1>2 DEF OneTurn
<1>3. CASE PollCloses
  BY <1>3, AuctionSystemAssumption
  DEF PollCloses, ClosesIdle, Batches, DueCloses, OneTurn, NothingDone, NoOutcome
<1>4. ASSUME NEW a \in Auctions, CloseRead(a) \/ CloseReadError(a)
      PROVE  OneTurn'
  BY <1>4, AuctionSystemAssumption
  DEF CloseRead, CloseReadError, Turn, OneTurn, TypeOK, ClosesOK
<1>5. CASE CloseApply \/ CloseApplyError
  <2>1. /\ closeTodo' = closeTodo /\ closeCur' = NoAuction
        /\ \A b \in Auctions \ {closeCur} : closeDone'[b] = closeDone[b]
    BY <1>5 DEF CloseApply, CloseApplyError, SettleCurrent, TypeOK, ClosesOK
  <2> QED
    BY <2>1, AuctionSystemAssumption DEF OneTurn, TypeOK, ClosesOK
<1>6. CASE CloseFlushFails \/ CommitCloses \/ CommitClosesError \/ AppCrash
  BY <1>2, <1>6 DEF CloseFlushFails, CommitCloses, CommitClosesError, AppCrash,
     AbandonCloses
<1>7. CASE \E r \in Requests : Receive(r) \/ Serve(r) \/ ServeFault(r)
  BY <1>1, <1>7, RequestsLeaveJobs
<1>8. CASE \/ Tick \/ RedisLoss \/ UNCHANGED vars \/ StartJob \/ CommitStartsError
           \/ \E a \in Auctions : \/ CreateAuction(a) \/ CreateAuctionLosesCommit(a)
                                  \/ StartAuctionError(a)
  BY <1>1, <1>8 DEF Tick, RedisLoss, vars, StartJob, PollStarts, CommitStarts,
     StartAuction, CommitStartsError, CreateAuction, CreateAuctionLosesCommit,
     StartAuctionError
<1> QED
  BY <1>3, <1>4, <1>5, <1>6, <1>7, <1>8 DEF Next, CloseJob, JobFault

(* The length of the history that counts is set when the hash is read.     *)
LEMMA SeenWriters ==
  ASSUME [Next]_vars
  PROVE  UNCHANGED seen \/ \E a \in Auctions : CloseRead(a)
<1>1. CASE \E r \in Requests : Receive(r) \/ Serve(r) \/ ServeFault(r)
  BY <1>1 DEF Receive, Serve, ServeFault, AppendStream, AppendStreamError,
     EvaluateAccepts, EvaluateRejects, EvaluateError, ReadBack, ReadBackError,
     Persist, InsertProxy, ReplyBeforeCommit, CommitBid, CommitBidError, ghostVars
<1>2. CASE \/ Tick \/ AppCrash \/ RedisLoss \/ UNCHANGED vars
           \/ \E b \in Auctions : CreateAuction(b) \/ CreateAuctionLosesCommit(b)
  BY <1>2 DEF Tick, AppCrash, RedisLoss, vars, CreateAuction,
     CreateAuctionLosesCommit, ghostVars
<1>3. CASE StartJob \/ CloseJob \/ JobFault
  BY <1>3 DEF StartJob, CloseJob, JobFault, PollStarts, StartAuction,
     StartAuctionError, CommitStarts, CommitStartsError, PollCloses,
     CloseReadError, CloseApply, CloseApplyError, CloseFlushFails, CommitCloses,
     CommitClosesError, ghostVars
<1> QED
  BY <1>1, <1>2, <1>3 DEF Next

(* A close that reads the hash has the best of the bids there are.         *)
LEMMA ReadFits ==
  ASSUME TypeOK, JobsHold, LadderHolds, OneTurn,
         NEW a \in Auctions, CloseRead(a), ~wiped[a]
  PROVE  CloseFits(a)'
<1>1. /\ closeCur' = a /\ closeSnap' = hash[a] /\ seen'[a] = Len(log[a])
      /\ UNCHANGED <<row, closeDone, log, req>> /\ a \in closeTodo
  BY DEF CloseRead, Turn, TypeOK, HistoryOK, dbVars, reqVars
<1>2. BestIs(hash[a], Len(log[a]), log[a], req)
  BY DEF LadderHolds, LadderOf
<1>3. closeDone[a].status = "none" /\ row[a].status = "ACTIVE"
  BY <1>1 DEF OneTurn, JobsHold, ClosesHold
<1>4. Len(log[a]) \in 0..Len(log[a])
  BY DEF TypeOK, HistoryOK
<1> QED
  BY <1>1, <1>2, <1>3, <1>4 DEF CloseFits, Settled

(* Otherwise the session's outcome fits if it did or is settled now.       *)
LEMMA SessionFits ==
  ASSUME TypeOK, JobsHold, HistoryServed, BiddersNamed, [Next]_vars,
         NEW a \in Auctions, ~wiped[a], CloseFits(a),
         closeDone'[a].status # "none", ~\E b \in Auctions : CloseRead(b)
  PROVE  FitsBest(closeDone'[a], seen[a], log'[a], req', row'[a].reserve)
<1>1. seen[a] \in 0..Len(log[a])
  BY DEF CloseFits
<1>2. CASE closeDone'[a] = closeDone[a]
  <2>1. row'[a].reserve = row[a].reserve
    BY <1>2, RowsMoveOn DEF JobsHold, ClosesHold
  <2> QED
    BY <1>1, <1>2, <2>1, FitStays DEF CloseFits
<1>3. CASE SettleCurrent /\ a = closeCur
  <2>1. /\ closeDone'[a] = Settlement(a, closeSnap)
        /\ closeSnap \in Hash /\ row[a] \in Row
    BY <1>3 DEF SettleCurrent, TypeOK, ClosesOK, DbOK
  <2>2. BestIs(closeSnap, seen[a], log[a], req)
    BY <1>3 DEF CloseFits
  <2>3. /\ seen[a] \in Nat
        /\ seen[a] # 0 => req[log[a][seen[a]].req].bidder # NoBidder
    BY <1>1 DEF BiddersNamed, TypeOK, HistoryOK
  <2>4. FitsBest(Settlement(a, closeSnap), seen[a], log[a], req, row[a].reserve)
    BY <2>1, <2>2, <2>3, SettlementFits
  <2>5. row'[a].reserve = row[a].reserve
    BY <1>3, RowsMoveOn DEF SettleCurrent, JobsHold, ClosesHold
  <2> QED
    BY <1>1, <2>1, <2>4, <2>5, FitStays
<1>4. CASE SettleCurrent /\ a # closeCur
  BY <1>2, <1>4 DEF SettleCurrent, TypeOK, ClosesOK
<1>5. CASE AbandonCloses
  BY <1>5 DEF AbandonCloses, NothingDone, NoOutcome
<1> QED
  BY <1>2, <1>3, <1>4, <1>5, CloseWriters

(* The row fits if it did or takes the session's outcome.                  *)
LEMMA RowFits ==
  ASSUME TypeOK, JobsHold, HistoryServed, [Next]_vars,
         NEW a \in Auctions, ~wiped[a], CloseFits(a),
         row'[a].status \in Settled
  PROVE  FitsBest(row'[a], seen[a], log'[a], req', row'[a].reserve)
<1>1. seen[a] \in 0..Len(log[a]) /\ row[a] \in Row
  BY DEF CloseFits, TypeOK, DbOK
<1>2. CASE row'[a] = row[a]
  BY <1>1, <1>2, FitStays DEF CloseFits
<1>3. CASE CommitStarts
  <2>1. row'[a] = row[a] \/ row'[a].status = "ACTIVE"
    BY <1>1, <1>3 DEF CommitStarts, Row
  <2> QED
    BY <1>2, <2>1 DEF Settled
<1>4. CASE CommitCloses
  <2>1. CASE closeDone[a].status = "none"
    BY <1>2, <1>4, <2>1 DEF CommitCloses
  <2>2. CASE closeDone[a].status # "none"
    <3>1. /\ row'[a].status = closeDone[a].status /\ row'[a].price = closeDone[a].price
          /\ row'[a].winner = closeDone[a].winner /\ row'[a].reserve = row[a].reserve
      BY <1>1, <1>4, <2>2 DEF CommitCloses, Row
    <3>2. FitsBest(closeDone[a], seen[a], log'[a], req', row[a].reserve)
      BY <1>1, <2>2, FitStays DEF CloseFits
    <3> QED
      BY <3>1, <3>2 DEF FitsBest
  <2> QED
    BY <2>1, <2>2
<1>5. ASSUME NEW b \in Auctions, CreateAuction(b)
      PROVE  row'[a] = row[a]
  <2>1. PICK sc \in Schedules, reserve \in Reserves, inc \in Increments :
           row' = [row EXCEPT ![b] = NewRow(sc, reserve, inc)]
    BY <1>5 DEF CreateAuction
  <2>2. NewRow(sc, reserve, inc).status \notin Settled
    BY DEF NewRow, Settled
  <2> QED
    BY <2>1, <2>2 DEF TypeOK, DbOK
<1> QED
  BY <1>2, <1>3, <1>4, <1>5, RowWriters

LEMMA ClosesFitStep ==
  ASSUME TypeOK, JobsHold, HistoryServed, LadderHolds, ClosesFit, [Next]_vars
  PROVE  ClosesFit'
<1> SUFFICES ASSUME NEW a \in Auctions, ~wiped'[a] PROVE CloseFits(a)'
  BY BiddersStep, TurnStep DEF ClosesFit, CloseFits
<1>1. ~wiped[a] /\ CloseFits(a) /\ seen[a] \in 0..Len(log[a])
  BY WipesStay DEF ClosesFit, CloseFits
<1>2. Len(log[a]) \in Nat /\ Len(log'[a]) \in Nat /\ Len(log'[a]) >= Len(log[a])
  <2>1. Len(log[a]) \in Nat /\ Len(log'[a]) \in Nat
    BY TypeStep DEF TypeOK, HistoryOK
  <2>2. Len(log[a]) # 0 => Len(log[a]) \in 1..Len(log'[a])
    BY <2>1, HistoryKept
  <2> QED
    BY <2>1, <2>2
<1>3. CASE CloseRead(a)
  BY <1>1, <1>3, ReadFits DEF ClosesFit
<1>4. ASSUME NEW b \in Auctions \ {a}, CloseRead(b)
      PROVE  CloseFits(a)'
  <2>1. /\ closeCur' = b /\ seen'[a] = seen[a]
        /\ UNCHANGED <<row, closeDone, log, req>>
    BY <1>4 DEF CloseRead, TypeOK, HistoryOK, dbVars, reqVars
  <2> QED
    BY <1>1, <2>1 DEF CloseFits
<1>5. CASE ~\E b \in Auctions : CloseRead(b)
  <2>1. seen'[a] = seen[a] /\ seen[a] \in 0..Len(log'[a])
    BY <1>1, <1>2, <1>5, SeenWriters
  <2>2. closeCur' = a => BestIs(closeSnap', seen[a], log'[a], req')
    <3>1. closeCur' = a => closeCur = a /\ closeSnap' = closeSnap
      BY <1>5, CloseWriters, AuctionSystemAssumption DEF SettleCurrent, AbandonCloses
    <3> QED
      BY <1>1, <3>1, BestStays DEF CloseFits
  <2>3. closeDone'[a].status # "none" =>
          FitsBest(closeDone'[a], seen[a], log'[a], req', row'[a].reserve)
    BY <1>1, <1>5, SessionFits DEF ClosesFit
  <2>4. row'[a].status \in Settled =>
          FitsBest(row'[a], seen[a], log'[a], req', row'[a].reserve)
    BY <1>1, RowFits
  <2> QED
    BY <2>1, <2>2, <2>3, <2>4 DEF CloseFits
<1> QED
  BY <1>3, <1>4, <1>5

LEMMA ClosesInvariant ==
  Spec => []( /\ TypeOK /\ JobsHold /\ TimesHold /\ HistoryServed
              /\ AnswersHold /\ LadderHolds /\ NumbersHold /\ ClosesFit)
<1>1. Init => ClosesFit
  BY ClosesFitInit
<1>2. /\ TypeOK /\ JobsHold /\ HistoryServed /\ LadderHolds
      /\ ClosesFit /\ [Next]_vars
      => ClosesFit'
  BY ClosesFitStep
<1> QED
  BY <1>1, <1>2, LadderInvariant, PTL DEF Spec

(* Whatever fails and however often a close is repeated, a settled auction *)
(* went to the best of the bids its close had read, at that bid's price.   *)
THEOREM SettlementCorrect == Spec => []SettledByWhatCloseRead
<1>1. TypeOK /\ LadderHolds /\ ClosesFit => SettledByWhatCloseRead
  <2> SUFFICES ASSUME TypeOK, LadderHolds, ClosesFit,
                      NEW a \in Auctions, row[a].status \in Settled, ~wiped[a]
               PROVE  IF seen[a] = 0
                      THEN row[a].status = "UNSOLD" /\ row[a].winner = NoBidder
                      ELSE LET best == log[a][seen[a]].req
                           IN  /\ row[a].price = Offer(best)
                               /\ \A i \in 1..seen[a] :
                                     Offer(log[a][i].req) <= row[a].price
                               /\ row[a].price > row[a].reserve
                                     => row[a].winner = req[best].bidder
                               /\ row[a].price < row[a].reserve
                                     => row[a].status = "UNSOLD"
                               /\ row[a].status = "SOLD" <=> row[a].winner # NoBidder
    BY DEF SettledByWhatCloseRead
  <2> DEFINE n == seen[a]
  <2>1. /\ n \in 0..Len(log[a]) /\ Len(log[a]) \in Nat
        /\ FitsBest(row[a], n, log[a], req, row[a].reserve)
    BY DEF ClosesFit, CloseFits, TypeOK, HistoryOK
  <2>2. \A i, j \in 1..Len(log[a]) : i < j =>
           Offer(log[a][j].req) >= Offer(log[a][i].req) + row[a].inc
    BY DEF LadderHolds, LadderOf
  <2>3. \A i \in 1..Len(log[a]) : Offer(log[a][i].req) \in Nat
    <3>1. log[a] \in Seq(Entry)
      BY DEF TypeOK, HistoryOK
    <3>2. \A i \in 1..Len(log[a]) : log[a][i] \in Entry
      BY <3>1
    <3> QED
      BY <3>2, OfferType DEF Entry
  <2> HIDE DEF n
  <2>4. ASSUME n # 0, NEW i \in 1..n
        PROVE  Offer(log[a][i].req) <= Offer(log[a][n].req)
    <3>1. i \in 1..Len(log[a]) /\ n \in 1..Len(log[a]) /\ (i = n \/ i < n)
      BY <2>1, <2>4
    <3>2. row[a].inc \in Nat
      BY DEF TypeOK, DbOK, Row
    <3> QED
      BY <2>2, <2>3, <3>1, <3>2
  <2>5. CASE n = 0
    BY <2>1, <2>5 DEF FitsBest, n
  <2>6. CASE n # 0
    <3>1. req[log[a][n].req].bidder # NoBidder
      BY <2>1, <2>6 DEF ClosesFit, BiddersNamed
    <3>2. /\ row[a].price > row[a].reserve => MeetsReserve(row[a].price, row[a].reserve)
          /\ row[a].price < row[a].reserve => ~MeetsReserve(row[a].price, row[a].reserve)
      BY DEF MeetsReserve, TypeOK, DbOK, Row
    <3> QED
      BY <2>1, <2>4, <2>6, <3>1, <3>2 DEF FitsBest, Offer, n
  <2> QED
    BY <2>5, <2>6
<1> QED
  BY <1>1, ClosesInvariant, PTL

-----------------------------------------------------------------------------
(* The reserve.                                                            *)

(* A settled row is never written again.                                   *)
LEMMA SettledRowStays ==
  ASSUME TypeOK, JobsHold, [Next]_vars, NEW a \in Auctions,
         row[a].status \in Settled
  PROVE  row'[a] = row[a]
<1>1. row[a].status \notin {"absent", "UPCOMING", "ACTIVE"}
  BY DEF Settled
<1>2. ASSUME NEW b \in Auctions, CreateAuction(b)
      PROVE  row'[a] = row[a]
  BY <1>1, <1>2 DEF CreateAuction, Listable, TypeOK, DbOK
<1>3. CASE CommitStarts
  BY <1>1, <1>3 DEF CommitStarts, JobsHold, StartsHold
<1>4. CASE CommitCloses
  BY <1>1, <1>4 DEF CommitCloses, JobsHold, ClosesHold
<1> QED
  BY <1>2, <1>3, <1>4, RowWriters

(* A row gets its price with its outcome.                                  *)
RowsUnpriced == \A a \in Auctions : row[a].status \notin Settled => row[a].price = 0

LEMMA RowsUnpricedStep ==
  ASSUME TypeOK, JobsHold, RowsUnpriced, [Next]_vars
  PROVE  RowsUnpriced'
<1> SUFFICES ASSUME NEW a \in Auctions, row'[a].status \notin Settled
             PROVE  row'[a].price = 0
  BY DEF RowsUnpriced
<1>1. CASE row'[a] = row[a]
  BY <1>1 DEF RowsUnpriced
<1>2. ASSUME NEW b \in Auctions, CreateAuction(b)
      PROVE  row'[a] = row[a] \/ row'[a].price = 0
  BY <1>2 DEF CreateAuction, NewRow, TypeOK, DbOK
<1>3. CASE CommitStarts
  <2>1. row[a] \in Row /\ (a \in startDone => row[a].price = 0)
    BY DEF TypeOK, DbOK, JobsHold, StartsHold, RowsUnpriced, Settled
  <2>2. row'[a] = IF a \in startDone THEN [row[a] EXCEPT !.status = "ACTIVE"]
                  ELSE row[a]
    BY <1>3 DEF CommitStarts
  <2> QED
    BY <1>1, <2>1, <2>2 DEF Row
<1>4. CASE CommitCloses
  <2>1. row[a] \in Row /\ closeDone[a].status \in {"none"} \cup Settled
    BY DEF TypeOK, DbOK, ClosesOK, Outcome
  <2>2. row'[a] = IF closeDone[a].status = "none" THEN row[a]
                  ELSE [row[a] EXCEPT !.status = closeDone[a].status,
                                      !.price  = closeDone[a].price,
                                      !.winner = closeDone[a].winner]
    BY <1>4 DEF CommitCloses
  <2> QED
    BY <1>1, <2>1, <2>2 DEF Row
<1> QED
  BY <1>1, <1>2, <1>3, <1>4, RowWriters

(* An outcome with a price that meets the reserve is a sale.               *)
SoldIfMet(o, reserve) ==
    o.price > 0 /\ MeetsReserve(o.price, reserve) => o.status = "SOLD"

(* The inductive invariant, wiped hash or not.                             *)
ReservesHold ==
    /\ RowsUnpriced
    /\ \A a \in Auctions :
          /\ closeDone[a].status # "none" => SoldIfMet(closeDone[a], row[a].reserve)
          /\ row[a].status \in Settled => SoldIfMet(row[a], row[a].reserve)

LEMMA ReservesInit == Init => ReservesHold
  BY DEF Init, ReservesHold, RowsUnpriced, NothingDone, NoOutcome, NoRow, Settled

LEMMA ReservesStep ==
  ASSUME TypeOK, JobsHold, ReservesHold, [Next]_vars
  PROVE  ReservesHold'
<1>1. RowsUnpriced'
  BY RowsUnpricedStep DEF ReservesHold
<1> SUFFICES ASSUME NEW a \in Auctions
             PROVE  /\ closeDone'[a].status # "none"
                          => SoldIfMet(closeDone'[a], row'[a].reserve)
                    /\ row'[a].status \in Settled => SoldIfMet(row'[a], row'[a].reserve)
  BY <1>1 DEF ReservesHold, SoldIfMet, MeetsReserve
<1>2. /\ row[a] \in Row /\ closeDone[a] \in Outcome
      /\ closeDone[a].status # "none" => row[a].status = "ACTIVE"
  BY DEF TypeOK, DbOK, ClosesOK, JobsHold, ClosesHold
<1>3. closeDone'[a].status # "none" => SoldIfMet(closeDone'[a], row'[a].reserve)
  <2>1. CASE closeDone'[a] = closeDone[a] /\ closeDone[a].status # "none"
    <3>1. row'[a].reserve = row[a].reserve
      BY <1>2, <2>1, RowsMoveOn
    <3> QED
      BY <2>1, <3>1 DEF ReservesHold
  <2>2. CASE SettleCurrent /\ UNCHANGED row /\ closeCur = a
    <3>1. closeDone'[a] = Settlement(a, closeSnap) /\ row[a].status = "ACTIVE"
      BY <2>2 DEF SettleCurrent, TypeOK, ClosesOK, JobsHold, ClosesHold
    <3>2. row[a].price = 0
      BY <3>1 DEF ReservesHold, RowsUnpriced, Settled
    <3> QED
      BY <2>2, <3>1, <3>2 DEF Settlement, SoldIfMet
  <2>3. CASE SettleCurrent /\ closeCur # a
    BY <2>1, <2>3 DEF SettleCurrent, TypeOK, ClosesOK
  <2>4. CASE AbandonCloses
    BY <2>4 DEF AbandonCloses, NothingDone, NoOutcome
  <2>5. ASSUME NEW b \in Auctions, CloseRead(b)
        PROVE  closeDone' = closeDone
    BY <2>5 DEF CloseRead
  <2> QED
    BY <2>1, <2>2, <2>3, <2>4, <2>5, CloseWriters
<1>4. row'[a].status \in Settled => SoldIfMet(row'[a], row'[a].reserve)
  <2>1. CASE row'[a] = row[a]
    BY <2>1 DEF ReservesHold
  <2>2. ASSUME NEW b \in Auctions, CreateAuction(b)
        PROVE  row'[a] = row[a] \/ row'[a].status \notin Settled
    BY <2>2 DEF CreateAuction, NewRow, TypeOK, DbOK, Settled
  <2>3. CASE CommitStarts
    BY <1>2, <2>1, <2>3 DEF CommitStarts, Row, Settled
  <2>4. CASE CommitCloses
    <3>1. \/ row'[a] = row[a]
          \/ /\ closeDone[a].status # "none"
             /\ row'[a].status = closeDone[a].status
             /\ row'[a].price = closeDone[a].price
             /\ row'[a].reserve = row[a].reserve
      BY <1>2, <2>4 DEF CommitCloses, Row
    <3> QED
      BY <2>1, <3>1 DEF ReservesHold, SoldIfMet
  <2> QED
    BY <2>1, <2>2, <2>3, <2>4, RowWriters
<1> QED
  BY <1>3, <1>4

(* Where no price lies below its decimal as a double, an auction is sold   *)
(* whenever the price it records meets the reserve, whatever was wiped,    *)
(* failed or repeated: the comparison of a double with a decimal is the    *)
(* only way to the auction that meets its reserve and stays unsold.        *)
THEOREM MetReserveSells ==
  ASSUME FloatBelow = {}
  PROVE  Spec => []ReserveMetIsSold
<1>1. Init => TypeOK /\ JobsHold /\ ReservesHold
  BY TypeInit, JobsInit, ReservesInit
<1>2. TypeOK /\ JobsHold /\ ReservesHold /\ [Next]_vars
         => (TypeOK /\ JobsHold /\ ReservesHold)'
  BY TypeStep, JobsStep, ReservesStep
<1>3. TypeOK /\ ReservesHold => ReserveMetIsSold
  <2> SUFFICES ASSUME TypeOK, ReservesHold, NEW a \in Auctions,
                      row[a].status \in Settled, row[a].price > 0,
                      row[a].price >= row[a].reserve
               PROVE  row[a].status = "SOLD"
    BY DEF ReserveMetIsSold
  <2>1. row[a].price \in Nat /\ row[a].reserve \in Nat
    BY DEF TypeOK, DbOK, Row
  <2>2. MeetsReserve(row[a].price, row[a].reserve)
    BY <2>1 DEF MeetsReserve
  <2> QED
    BY <2>2 DEF ReservesHold, SoldIfMet
<1> QED
  BY <1>1, <1>2, <1>3, PTL DEF Spec

-----------------------------------------------------------------------------
(* What it takes for a hash to forget its bids.                            *)

(* No fault empties Redis or undoes a start whose hash has been written.   *)
Steady == FaultKinds \cap {"redis_loss", "app_crash", "job_commit_error"} = {}

(* The inductive invariant: a start is not repeated, so that an auction    *)
(* that waits for its start has no hash yet, and without a hash no bids.   *)
MemoryHolds ==
    /\ startTodo \cap startDone = {}
    /\ \A a \in Auctions :
          /\ ~wiped[a]
          /\ log[a] # << >> => hash[a].state # "none"
          /\ hash[a].state # "none" => row[a].status # "UPCOMING" \/ a \in startDone

LEMMA MemoryInit == Init => MemoryHolds
  BY DEF Init, MemoryHolds, NoHash

(* Of the start job: the auction it starts has no bids to forget.          *)
LEMMA MemoryStart ==
  ASSUME TypeOK, JobsHold, MemoryHolds, StartJob \/ \E a \in Auctions : StartAuctionError(a)
  PROVE  MemoryHolds'
<1>1. CASE PollStarts
  BY <1>1 DEF PollStarts, StartsIdle, dbVars, redisVars, ghostVars, MemoryHolds
<1>2. ASSUME NEW a \in Auctions, StartAuction(a) \/ StartAuctionError(a)
      PROVE  MemoryHolds'
  <2>1. /\ a \in startTodo /\ startTodo' = startTodo \ {a}
        /\ startDone' = startDone \cup {a}
        /\ InitKey(a) \/ UNCHANGED <<hash, wiped>>
        /\ UNCHANGED <<row, log>>
    BY <1>2 DEF StartAuction, StartAuctionError, MarkStarted, dbVars
  <2>2. hash[a].state = "none" /\ log[a] = << >> /\ ~Forgets(a)
    BY <2>1 DEF JobsHold, StartsHold, MemoryHolds, Forgets
  <2>3. \A b \in Auctions : ~wiped'[b]
    BY <2>1, <2>2 DEF InitKey, MemoryHolds, TypeOK, HistoryOK
  <2>4. \A b \in Auctions \ {a} : hash'[b] = hash[b]
    BY <2>1 DEF InitKey, TypeOK, RedisOK
  <2> QED
    BY <2>1, <2>2, <2>3, <2>4 DEF MemoryHolds
<1>3. CASE CommitStarts
  <2>1. /\ startTodo' = {} /\ startDone' = {} /\ UNCHANGED <<hash, log, wiped>>
        /\ \A a \in Auctions : row'[a] = IF a \in startDone
                                         THEN [row[a] EXCEPT !.status = "ACTIVE"]
                                         ELSE row[a]
    BY <1>3 DEF CommitStarts, StartsReady, redisVars, ghostVars
  <2>2. \A a \in Auctions : row[a] \in Row
    BY DEF TypeOK, DbOK
  <2> QED
    BY <2>1, <2>2 DEF MemoryHolds, Row
<1> QED
  BY <1>1, <1>2, <1>3 DEF StartJob

(* Of the close job: what it marks and settles is no longer waiting.       *)
LEMMA MemoryClose ==
  ASSUME TypeOK, JobsHold, MemoryHolds,
         \/ CloseJob \/ CommitClosesError \/ CloseApplyError
         \/ \E a \in Auctions : CloseReadError(a)
  PROVE  MemoryHolds'
<1>1. UNCHANGED <<startTodo, startDone, log, wiped>>
  BY DEF CloseJob, PollCloses, CloseApply, CloseFlushFails, CommitCloses,
     CloseRead, CommitClosesError, CloseApplyError, CloseReadError, startVars, ghostVars
<1>2. CASE CommitCloses
  <2>1. UNCHANGED hash
    BY <1>2 DEF CommitCloses, redisVars
  <2>2. \A a \in Auctions : row'[a].status \in {row[a].status} \cup Settled
    BY <1>2 DEF CommitCloses, TypeOK, DbOK, ClosesOK, Row, Outcome
  <2> QED
    BY <1>1, <2>1, <2>2 DEF MemoryHolds, Settled
<1>3. CASE CloseApply \/ CloseApplyError
  <2>1. /\ closeCur \in Auctions /\ row[closeCur].status = "ACTIVE" /\ UNCHANGED row
        /\ MarkClosed \/ UNCHANGED hash
    BY <1>3 DEF CloseApply, CloseApplyError, SettleCurrent, JobsHold, ClosesHold,
       TypeOK, ClosesOK, dbVars
  <2>2. \A a \in Auctions \ {closeCur} : hash'[a] = hash[a]
    BY <2>1 DEF MarkClosed, TypeOK, RedisOK
  <2>3. hash'[closeCur] = hash[closeCur] \/ hash'[closeCur].state # "none"
    <3>1. Settlement(closeCur, closeSnap).status # "none"
      BY DEF Settlement
    <3> QED
      BY <2>1, <3>1 DEF MarkClosed, TypeOK, RedisOK, Hash
  <2> QED
    BY <1>1, <2>1, <2>2, <2>3 DEF MemoryHolds
<1>4. CASE UNCHANGED <<row, hash>>
  BY <1>1, <1>4 DEF MemoryHolds
<1> QED
  BY <1>2, <1>3, <1>4 DEF CloseJob, PollCloses, CloseFlushFails, CloseRead,
     CommitClosesError, CloseReadError, dbVars, redisVars

LEMMA MemoryStep ==
  ASSUME Steady, TypeOK, JobsHold, MemoryHolds, [Next]_vars
  PROVE  MemoryHolds'
<1>1. ASSUME NEW a \in Auctions, CreateAuction(a) \/ CreateAuctionLosesCommit(a)
      PROVE  MemoryHolds'
  <2>1. /\ row[a].status = "absent" /\ hash[a].state = "none"
        /\ UNCHANGED <<startTodo, startDone, log, wiped>>
    BY <1>1 DEF CreateAuction, CreateAuctionLosesCommit, Listable, startVars, ghostVars
  <2>2. \A b \in Auctions \ {a} : hash'[b] = hash[b] /\ row'[b] = row[b]
    BY <1>1 DEF CreateAuction, CreateAuctionLosesCommit, dbVars, TypeOK, RedisOK, DbOK
  <2>3. hash'[a].state # "none" => row'[a].status # "UPCOMING"
    BY <1>1, <2>1 DEF CreateAuction, CreateAuctionLosesCommit, HashOf, NewRow, NoHash,
       dbVars, TypeOK, RedisOK, DbOK
  <2> QED
    BY <2>1, <2>2, <2>3 DEF MemoryHolds
<1>2. ASSUME NEW r \in Requests, Receive(r) \/ Serve(r) \/ ServeFault(r)
      PROVE  MemoryHolds'
  <2>1. UNCHANGED <<row, startTodo, startDone>>
    BY <1>2, RequestsLeaveJobs DEF startVars
  <2>2. UNCHANGED wiped /\ (UNCHANGED <<hash, log>> \/ BidAccepted(r))
    BY <1>2 DEF Receive, Serve, ServeFault, AppendStream, AppendStreamError,
       EvaluateAccepts, EvaluateRejects, EvaluateError, ReadBack, ReadBackError,
       Persist, InsertProxy, ReplyBeforeCommit, CommitBid, CommitBidError,
       Answer, BidAccepted, dbVars, redisVars, ghostVars
  <2>3. CASE BidAccepted(r)
    <3>1. /\ req[r].auction \in Auctions
          /\ hash[req[r].auction].state = "ACTIVE"
          /\ hash'[req[r].auction].state = "ACTIVE"
          /\ \A b \in Auctions \ {req[r].auction} : hash'[b] = hash[b] /\ log'[b] = log[b]
      BY <2>3, AcceptedBid
    <3> QED
      BY <2>1, <2>2, <3>1 DEF MemoryHolds
  <2> QED
    BY <2>1, <2>2, <2>3 DEF MemoryHolds
<1>3. CASE Tick \/ UNCHANGED vars
  BY <1>3 DEF Tick, vars, dbVars, redisVars, startVars, ghostVars, MemoryHolds
<1>4. ~RedisLoss /\ ~AppCrash /\ ~CommitStartsError
  BY DEF Steady, RedisLoss, AppCrash, CommitStartsError, Fault
<1> QED
  BY <1>1, <1>2, <1>3, <1>4, MemoryStart, MemoryClose DEF Next, JobFault

(* Redis keeps every accepted bid in its hash, through failed commands and *)
(* failed commits of requests: bids are forgotten only where Redis comes   *)
(* back empty, or where a crash or a failed commit makes the job repeat a  *)
(* start after bids have been accepted.                                    *)
THEOREM MemoryIsKept ==
  ASSUME Steady
  PROVE  Spec => [](\A a \in Auctions : ~wiped[a])
<1>1. Init => TypeOK /\ JobsHold /\ MemoryHolds
  BY TypeInit, JobsInit, MemoryInit
<1>2. TypeOK /\ JobsHold /\ MemoryHolds /\ [Next]_vars
         => (TypeOK /\ JobsHold /\ MemoryHolds)'
  BY TypeStep, JobsStep, MemoryStep
<1>3. MemoryHolds => \A a \in Auctions : ~wiped[a]
  BY DEF MemoryHolds
<1> QED
  BY <1>1, <1>2, <1>3, PTL DEF Spec

(* So an auction without a reserve whose close has read a bid is not left  *)
(* unsold, as long as no fault makes its hash forget that bid.             *)
THEOREM BidsAreNotLost ==
  ASSUME Steady
  PROVE  Spec => []UnsoldHasNoBids
<1>1. /\ \A a \in Auctions : ~wiped[a]
      /\ TypeOK /\ ClosesFit
      => UnsoldHasNoBids
  <2> SUFFICES ASSUME NEW a \in Auctions, ~wiped[a], TypeOK, ClosesFit,
                      row[a].status = "UNSOLD", row[a].reserve = 0, seen[a] # 0
               PROVE  FALSE
    BY DEF UnsoldHasNoBids
  <2>1. FitsBest(row[a], seen[a], log[a], req, row[a].reserve)
    BY DEF ClosesFit, CloseFits, Settled
  <2>2. row[a].price \in Nat
    BY DEF TypeOK, DbOK, Row
  <2>3. MeetsReserve(row[a].price, row[a].reserve)
    BY <2>2, AuctionSystemAssumption DEF MeetsReserve
  <2> QED
    BY <2>1, <2>3 DEF FitsBest
<1> QED
  BY <1>1, MemoryIsKept, ClosesInvariant, PTL

-----------------------------------------------------------------------------
(* The auctions of a Redis that does not fail.                             *)

(* Only commits of requests fail.                                          *)
Undisturbed == FaultKinds \subseteq {"commit_error"}

(* The inductive invariant, with MemoryHolds: what has started has a key.  *)
KeysPresent ==
    \A a \in Auctions :
        row[a].status \notin {"absent", "UPCOMING"} \/ a \in startDone
            => hash[a].state # "none"

LEMMA PresentInit == Init => KeysPresent
  BY DEF Init, KeysPresent, NoRow

(* A key that is there is not removed.                                     *)
LEMMA KeysStay ==
  ASSUME TypeOK, JobsHold, [Next]_vars, ~RedisLoss,
         NEW a \in Auctions, hash[a].state # "none"
  PROVE  hash'[a].state # "none"
<1>1. ASSUME NEW b \in Auctions, CreateAuction(b) \/ CreateAuctionLosesCommit(b)
      PROVE  hash'[a] = hash[a]
  <2>1. b # a
    BY <1>1 DEF CreateAuction, CreateAuctionLosesCommit, Listable
  <2> QED
    BY <1>1, <2>1, CreatedHash
<1>2. ASSUME NEW r \in Requests, BidAccepted(r)
      PROVE  hash'[a] = hash[a] \/ hash'[a].state = "ACTIVE"
  BY <1>2, AcceptedBid
<1>3. ASSUME NEW b \in Auctions, InitKey(b)
      PROVE  hash'[a] = hash[a] \/ hash'[a].state = "ACTIVE"
  BY <1>3, OpenedHash
<1>4. CASE SettleCurrent /\ MarkClosed
  BY <1>4, MarkedHash DEF Settled
<1> QED
  BY <1>1, <1>2, <1>3, <1>4, HashWriters

LEMMA PresentStep ==
  ASSUME Undisturbed, TypeOK, JobsHold, KeysPresent, [Next]_vars
  PROVE  KeysPresent'
<1>1. /\ ~RedisLoss /\ ~AppCrash /\ ~CommitStartsError
      /\ ~\E a \in Auctions : StartAuctionError(a)
  BY DEF Undisturbed, RedisLoss, AppCrash, CommitStartsError, StartAuctionError, Fault
<1> SUFFICES ASSUME NEW a \in Auctions,
                    row'[a].status \notin {"absent", "UPCOMING"} \/ a \in startDone'
             PROVE  hash'[a].state # "none"
  BY DEF KeysPresent
<1>2. CASE hash[a].state # "none"
  BY <1>1, <1>2, KeysStay
<1>3. CASE hash[a].state = "none"
  <2>1. row[a].status \in {"absent", "UPCOMING"} /\ a \notin startDone
    BY <1>3 DEF KeysPresent
  <2>2. ASSUME NEW b \in Auctions, CreateAuction(b) \/ CreateAuctionLosesCommit(b)
        PROVE  hash'[a].state # "none"
    <3>1. startDone' = startDone
      BY <2>2 DEF CreateAuction, CreateAuctionLosesCommit, startVars
    <3>2. row'[a] # row[a]
      BY <2>1, <3>1
    <3>3. CreateAuction(a)
      BY <2>2, <3>2 DEF CreateAuction, CreateAuctionLosesCommit, dbVars, TypeOK, DbOK
    <3>4. PICK sc \in Schedules, reserve \in Reserves, inc \in Increments :
             /\ row' = [row EXCEPT ![a] = NewRow(sc, reserve, inc)]
             /\ hash' = [hash EXCEPT ![a] = HashOf(NewRow(sc, reserve, inc))]
      BY <3>3 DEF CreateAuction
    <3> DEFINE new == NewRow(sc, reserve, inc)
    <3>5. row'[a] = new /\ hash'[a] = HashOf(new)
      BY <3>4 DEF TypeOK, DbOK, RedisOK
    <3>6. new.status = "ACTIVE" \/ new.status = "UPCOMING"
      BY DEF NewRow
    <3> HIDE DEF new
    <3> QED
      BY <2>1, <3>1, <3>5, <3>6 DEF HashOf, InitHash
  <2>3. ASSUME NEW b \in Auctions, StartAuction(b)
        PROVE  hash'[a].state # "none"
    <3>1. /\ row' = row /\ startDone' = startDone \cup {b}
          /\ InitKey(b)
      BY <2>3 DEF StartAuction, MarkStarted, dbVars
    <3> QED
      BY <2>1, <3>1, OpenedHash
  <2>4. CASE UNCHANGED <<row, startDone>>
    BY <2>1, <2>4
  <2>5. CASE CommitStarts
    BY <2>1, <2>5 DEF CommitStarts
  <2>6. CASE CommitCloses
    BY <2>1, <2>6 DEF CommitCloses, JobsHold, ClosesHold, startVars
  <2>7. ASSUME NEW r \in Requests, Receive(r) \/ Serve(r) \/ ServeFault(r)
        PROVE  UNCHANGED <<row, startDone>>
    BY <2>7, RequestsLeaveJobs DEF startVars
  <2>8. CASE Tick \/ UNCHANGED vars \/ PollStarts
    BY <2>4, <2>8 DEF Tick, vars, PollStarts, dbVars, startVars
  <2>9. CASE (CloseJob /\ ~CommitCloses) \/ (JobFault /\ ~CommitStartsError
                /\ ~\E b \in Auctions : StartAuctionError(b))
    BY <2>4, <2>9 DEF CloseJob, JobFault, PollCloses, CloseRead, CloseApply,
       CloseFlushFails, CommitClosesError, CloseApplyError, CloseReadError,
       dbVars, startVars
  <2> QED
    BY <1>1, <2>2, <2>3, <2>4, <2>5, <2>6, <2>7, <2>8, <2>9 DEF Next, StartJob
<1> QED
  BY <1>2, <1>3

LEMMA PresentInvariant ==
  ASSUME Undisturbed
  PROVE  Spec => [](KeysPresent /\ \A a \in Auctions : ~wiped[a])
<1>1. TypeOK /\ JobsHold /\ KeysPresent /\ [Next]_vars => KeysPresent'
  BY PresentStep
<1>2. Steady
  BY DEF Undisturbed, Steady
<1>3. Spec => [](\A a \in Auctions : ~wiped[a])
  BY <1>2, MemoryIsKept
<1>4. Spec => []KeysPresent
  BY <1>1, PresentInit, KeysInvariant, PTL DEF Spec
<1> QED
  BY <1>3, <1>4, PTL

(* As long as Redis and the process do not fail the hash of each auction   *)
(* implements the ascending auction: it opens once, each accepted bid      *)
(* beats the price by the increment, and what it has when it closes is     *)
(* final, whatever the interleaving of bids and jobs.                      *)
THEOREM EachAuctionAscends ==
  ASSUME Undisturbed
  PROVE  \A a \in Auctions : Spec => Key(a)!Spec
<1> SUFFICES ASSUME NEW x \in Auctions
             PROVE  Spec => Key(x)!Spec
  OBVIOUS
<1>1. Init => Key(x)!Init
  BY DEF Init, Key!Init, NoHash
<1> DEFINE Held == /\ TypeOK /\ JobsHold /\ TimesHold /\ LadderHolds /\ KeysFit
                   /\ KeysPresent /\ \A a \in Auctions : ~wiped[a]
<1>2. Held /\ Held' /\ [Next]_vars => [Key(x)!Next]_(Key(x)!vars)
  <2> SUFFICES ASSUME Held, Held', [Next]_vars
               PROVE  Key(x)!Next \/ UNCHANGED Key(x)!vars
    OBVIOUS
  <2>1. ~RedisLoss
    BY DEF Undisturbed, RedisLoss, Fault
  <2>2. ~(MarksMissingKey(x) /\ closeCur = x)
    <3>1. closeCur = x => row[x].status = "ACTIVE"
      BY AuctionSystemAssumption DEF JobsHold, ClosesHold
    <3> QED
      BY <3>1 DEF MarksMissingKey, KeysPresent
  <2> QED
    BY <2>1, <2>2, KeyStep
<1>3. Spec => []Held
  BY PresentInvariant, KeysInvariant, PTL
<1> QED
  BY <1>1, <1>2, <1>3, PTL DEF Spec, Key!Spec

-----------------------------------------------------------------------------
(* What blocks a close.                                                    *)

(* The inductive invariant: a bid whose bidder has no user row, or whose   *)
(* price overflows, gets no bid row, no proxy row and no verdict.          *)
UnfitFails(r) ==
    pc[r] = "idle" \/ ~BidFits(r) =>
        /\ pc[r] \notin {"inserting", "finishing", "replied"}
        /\ bidRow[r].status = "none"
        /\ told[r] \notin {"ACCEPTED", "REJECTED"}

UnfitsFail == \A r \in Requests : UnfitFails(r)

LEMMA UnfitStep ==
  ASSUME TypeOK, NEW r \in Requests, UnfitFails(r),
         Receive(r) \/ Serve(r) \/ ServeFault(r)
  PROVE  UnfitFails(r)'
<1> USE DEF TypeOK, RequestsOK, DbOK, UnfitFails, BidFits, Answer, Goto
<1>1. CASE Receive(r)
  BY <1>1 DEF Receive, dbVars
<1>2. CASE AppendStream(r) \/ AppendStreamError(r)
  BY <1>2 DEF AppendStream, AppendStreamError, dbVars
<1>3. CASE EvaluateAccepts(r) \/ EvaluateRejects(r)
  BY <1>3 DEF EvaluateAccepts, EvaluateRejects, dbVars
<1>4. CASE EvaluateError(r) \/ ReadBackError(r)
  BY <1>4 DEF EvaluateError, ReadBackError, dbVars
<1>5. CASE ReadBack(r)
  BY <1>5 DEF ReadBack, dbVars
<1>6. CASE Persist(r)
  BY <1>6 DEF Persist, dbVars
<1>7. CASE InsertProxy(r) \/ ReplyBeforeCommit(r)
  BY <1>7 DEF InsertProxy, ReplyBeforeCommit, dbVars
<1>8. CASE CommitBid(r) \/ CommitBidError(r)
  BY <1>8 DEF CommitBid, CommitBidError, AtCommit, dbVars
<1> QED
  BY <1>1, <1>2, <1>3, <1>4, <1>5, <1>6, <1>7, <1>8 DEF Serve, ServeFault

LEMMA UnfitsStep ==
  ASSUME TypeOK, UnfitsFail, [Next]_vars
  PROVE  UnfitsFail'
<1> SUFFICES ASSUME NEW r \in Requests PROVE UnfitFails(r)'
  BY DEF UnfitsFail
<1>1. UnfitFails(r)
  BY DEF UnfitsFail
<1>2. CASE Receive(r) \/ Serve(r) \/ ServeFault(r)
  BY <1>1, <1>2, UnfitStep
<1>3. ASSUME NEW q \in Requests \ {r}, Receive(q) \/ Serve(q) \/ ServeFault(q)
      PROVE  UnfitFails(r)'
  <2>1. req'[r] = req[r]
    BY <1>3 DEF Receive, Serve, ServeFault, AppendStream, AppendStreamError,
       EvaluateAccepts, EvaluateRejects, EvaluateError, ReadBack, ReadBackError,
       Persist, InsertProxy, ReplyBeforeCommit, CommitBid, CommitBidError,
       TypeOK, RequestsOK
  <2> QED
    BY <1>1, <1>3, <2>1, OtherStep DEF UnfitFails, BidFits
<1>4. CASE AppCrash
  <2>1. /\ pc[r] \in PCs /\ req'[r] = req[r] /\ bidRow'[r] = bidRow[r]
        /\ pc'[r] = (IF InFlight(r) THEN "done" ELSE pc[r])
        /\ told'[r] = (IF InFlight(r) /\ told[r] = "none" THEN "ERROR" ELSE told[r])
    BY <1>4 DEF AppCrash, dbVars, TypeOK, RequestsOK
  <2> QED
    BY <1>1, <2>1 DEF InFlight, UnfitFails, BidFits, PCs
<1>5. CASE \/ Tick \/ RedisLoss \/ UNCHANGED vars
           \/ StartJob \/ CloseJob \/ JobFault
           \/ \E a \in Auctions : CreateAuction(a) \/ CreateAuctionLosesCommit(a)
  <2>1. UNCHANGED <<pc, req, told, bidRow>>
    BY <1>5 DEF Tick, CreateAuction, CreateAuctionLosesCommit, StartJob,
       CloseJob, JobFault, PollStarts, StartAuction, StartAuctionError,
       CommitStarts, CommitStartsError, PollCloses, CloseRead, CloseReadError,
       CloseApply, CloseApplyError, CloseFlushFails, CommitCloses,
       CommitClosesError, RedisLoss, vars, reqVars, dbVars
  <2> QED
    BY <1>1, <2>1 DEF UnfitFails, BidFits
<1> QED
  BY <1>2, <1>3, <1>4, <1>5 DEF Next

(* A close that fails on its leader or on the price, and takes its whole   *)
(* batch with it, does so over a bid that the script accepted, that no     *)
(* table holds and whose bidder is told of an error, if anything, never of *)
(* a verdict.                                                              *)
THEOREM OnlyRefusedBidsBlock ==
  Spec => [](closeCur # NoAuction /\ ~LeaderFits =>
               \E i \in 1..Len(log[closeCur]) :
                  LET r == log[closeCur][i].req
                  IN  /\ req[r].bidder = closeSnap.leader
                      /\ Offer(r) = closeSnap.price
                      /\ bidRow[r].status = "none"
                      /\ told[r] \in {"none", "ERROR"})
<1> DEFINE Blocks == closeCur # NoAuction /\ ~LeaderFits =>
               \E i \in 1..Len(log[closeCur]) :
                  LET r == log[closeCur][i].req
                  IN  /\ req[r].bidder = closeSnap.leader
                      /\ Offer(r) = closeSnap.price
                      /\ bidRow[r].status = "none"
                      /\ told[r] \in {"none", "ERROR"}
<1>1. Init => UnfitsFail
  BY DEF Init, UnfitsFail, UnfitFails
<1>2. TypeOK /\ UnfitsFail /\ [Next]_vars => UnfitsFail'
  BY UnfitsStep
<1>3. TypeOK /\ SalesHold /\ AnswersHold /\ UnfitsFail => Blocks
  <2> SUFFICES ASSUME TypeOK, SalesHold, AnswersHold, UnfitsFail,
                      closeCur # NoAuction, ~LeaderFits
               PROVE  \E i \in 1..Len(log[closeCur]) :
                  LET r == log[closeCur][i].req
                  IN  /\ req[r].bidder = closeSnap.leader
                      /\ Offer(r) = closeSnap.price
                      /\ bidRow[r].status = "none"
                      /\ told[r] \in {"none", "ERROR"}
    OBVIOUS
  <2> DEFINE a == closeCur
  <2>1. /\ a \in Auctions /\ closeSnap.leader # NoBidder
        /\ ~Storable(closeSnap.leader, closeSnap.price)
    BY DEF TypeOK, ClosesOK, LeaderFits
  <2>2. <<closeSnap.leader, closeSnap.price>> \in Offers(a)
    BY <2>1 DEF SalesHold, CloseHoldsBids
  <2>3. PICK i \in 1..Len(log[a]) :
           /\ req[log[a][i].req].bidder = closeSnap.leader
           /\ Offer(log[a][i].req) = closeSnap.price
    BY <2>2 DEF Offers
  <2> DEFINE r == log[a][i].req
  <2>4. r \in Requests
    <3>1. log[a][i] \in Entry
      BY <2>1 DEF TypeOK, HistoryOK
    <3> QED
      BY <3>1 DEF Entry
  <2>5. Accepted(r)
    BY <2>1 DEF Accepted
  <2>6. bidRow[r].status = "none" /\ told[r] \notin {"ACCEPTED", "REJECTED"}
    BY <2>1, <2>3, <2>4 DEF UnfitsFail, UnfitFails, BidFits, Offer
  <2>7. told[r] # "NOT_FOUND" /\ told[r] \in Tolds
    <3>1. ToldRight(r) /\ pc[r] \in PCs /\ told[r] \in Tolds
      BY <2>4 DEF AnswersHold, TypeOK, RequestsOK
    <3> QED
      BY <2>5, <3>1 DEF ToldRight, StatusOf
  <2> QED
    BY <2>3, <2>6, <2>7 DEF Tolds
<1> QED
  BY <1>1, <1>2, <1>3, AnsweredInvariant, SalesInvariant, PTL DEF Spec

-----------------------------------------------------------------------------
(* What the jobs have selected.                                            *)

(* The auction is in the batch of the start job, or of the close job.      *)
InStarts(a) == a \in startTodo \cup startDone

InCloses(a) == a \in closeTodo \/ closeCur = a \/ closeDone[a].status # "none"

(* What the start job has selected it keeps, unless it commits or fails.   *)
LEMMA StartBatchKept ==
  ASSUME [Next]_vars, NEW a \in Auctions, InStarts(a)
  PROVE  \/ a \in startTodo' \cup startDone'
         \/ CommitStarts /\ a \in startDone
         \/ faults' = faults + 1
<1>1. CASE UNCHANGED startVars
  BY <1>1 DEF InStarts, startVars
<1>2. CASE \E r \in Requests : Receive(r) \/ Serve(r) \/ ServeFault(r)
  BY <1>1, <1>2, RequestsLeaveJobs
<1>3. CASE \/ Tick \/ UNCHANGED vars \/ CloseJob
           \/ \E b \in Auctions : CreateAuction(b) \/ CreateAuctionLosesCommit(b)
  BY <1>1, <1>3 DEF Tick, vars, CreateAuction, CreateAuctionLosesCommit, CloseJob,
     PollCloses, CloseRead, CloseApply, CloseFlushFails, CommitCloses
<1>4. CASE StartJob
  BY <1>4 DEF StartJob, PollStarts, StartsIdle, CommitStarts, StartsReady,
     StartAuction, MarkStarted, InStarts
<1>5. CASE JobFault \/ AppCrash \/ RedisLoss
  BY <1>5 DEF JobFault, CommitStartsError, CommitClosesError, CloseApplyError,
     StartAuctionError, CloseReadError, AppCrash, RedisLoss, Fault
<1> QED
  BY <1>2, <1>3, <1>4, <1>5 DEF Next

(* The close job does too; an auction it has read it settles in its        *)
(* session, one way or the other.                                          *)
LEMMA CloseBatchKept ==
  ASSUME TypeOK, [Next]_vars, NEW a \in Auctions, InCloses(a)
  PROVE  \/ a \in closeTodo' \/ closeCur' = a \/ closeDone'[a].status # "none"
         \/ CommitCloses /\ closeDone[a].status # "none"
         \/ CloseFlushFails
         \/ faults' = faults + 1
<1>1. CASE UNCHANGED closeVars
  BY <1>1 DEF InCloses, closeVars
<1>2. CASE \E r \in Requests : Receive(r) \/ Serve(r) \/ ServeFault(r)
  BY <1>1, <1>2, RequestsLeaveJobs
<1>3. CASE \/ Tick \/ UNCHANGED vars \/ StartJob
           \/ \E b \in Auctions : CreateAuction(b) \/ CreateAuctionLosesCommit(b)
  BY <1>1, <1>3 DEF Tick, vars, CreateAuction, CreateAuctionLosesCommit, StartJob,
     PollStarts, StartAuction, CommitStarts
<1>4. CASE CloseApply
  <2>1. CASE closeCur = a
    <3>1. closeDone'[a] = Settlement(a, closeSnap)
      BY <1>4, <2>1 DEF CloseApply, SettleCurrent, TypeOK, ClosesOK
    <3> QED
      BY <3>1 DEF Settlement
  <2>2. CASE closeCur # a
    BY <1>4, <2>2 DEF CloseApply, SettleCurrent, InCloses, TypeOK, ClosesOK
  <2> QED
    BY <2>1, <2>2
<1>5. CASE PollCloses \/ CommitCloses \/ \E b \in Auctions : CloseRead(b)
  BY <1>5, AuctionSystemAssumption
  DEF PollCloses, ClosesIdle, CommitCloses, ClosesReady, CloseRead, Turn,
      NothingDone, NoOutcome, InCloses
<1>6. CASE JobFault \/ AppCrash \/ RedisLoss
  BY <1>6 DEF JobFault, CommitStartsError, CommitClosesError, CloseApplyError,
     StartAuctionError, CloseReadError, AppCrash, RedisLoss, Fault
<1> QED
  BY <1>2, <1>3, <1>4, <1>5, <1>6 DEF Next, CloseJob

(* An auction that a job has selected leaves its batch started or settled, *)
(* as the batch commits; only a fault, or a close that fails on its leader *)
(* or on the leader's price (the case of OnlyRefusedBidsBlock), takes it   *)
(* out in any other way.                                                   *)
THEOREM SelectedAreServed ==
  Spec => [][\A a \in Auctions :
               /\ InStarts(a) /\ ~InStarts(a)' =>
                     row'[a].status = "ACTIVE" \/ faults' = faults + 1
               /\ InCloses(a) /\ ~InCloses(a)' =>
                     \/ row'[a].status \in Settled
                     \/ faults' = faults + 1 \/ CloseFlushFails]_vars
<1>1. ASSUME TypeOK, [Next]_vars, NEW a \in Auctions,
             InStarts(a), ~InStarts(a)'
      PROVE  row'[a].status = "ACTIVE" \/ faults' = faults + 1
  <2>1. (CommitStarts /\ a \in startDone) \/ faults' = faults + 1
    BY <1>1, StartBatchKept DEF InStarts
  <2>2. CASE CommitStarts /\ a \in startDone
    <3>1. row'[a] = [row[a] EXCEPT !.status = "ACTIVE"] /\ row[a] \in Row
      BY <1>1, <2>2 DEF CommitStarts, TypeOK, DbOK
    <3> QED
      BY <3>1 DEF Row
  <2> QED
    BY <2>1, <2>2
<1>2. ASSUME TypeOK, [Next]_vars, NEW a \in Auctions,
             InCloses(a), ~InCloses(a)'
      PROVE  row'[a].status \in Settled \/ faults' = faults + 1 \/ CloseFlushFails
  <2>1. \/ CommitCloses /\ closeDone[a].status # "none"
        \/ faults' = faults + 1 \/ CloseFlushFails
    BY <1>2, CloseBatchKept DEF InCloses
  <2>2. CASE CommitCloses /\ closeDone[a].status # "none"
    <3>1. /\ row'[a] = [row[a] EXCEPT !.status = closeDone[a].status,
                                      !.price  = closeDone[a].price,
                                      !.winner = closeDone[a].winner]
          /\ row[a] \in Row /\ closeDone[a].status \in Settled
      BY <1>2, <2>2 DEF CommitCloses, TypeOK, DbOK, ClosesOK, Outcome
    <3> QED
      BY <3>1 DEF Row
  <2> QED
    BY <2>1, <2>2
<1>3. TypeOK /\ [Next]_vars
         => [\A a \in Auctions :
               /\ InStarts(a) /\ ~InStarts(a)' =>
                     row'[a].status = "ACTIVE" \/ faults' = faults + 1
               /\ InCloses(a) /\ ~InCloses(a)' =>
                     \/ row'[a].status \in Settled
                     \/ faults' = faults + 1 \/ CloseFlushFails]_vars
  BY <1>1, <1>2
<1> QED
  BY <1>3, TypeCorrect, PTL DEF Spec

(* What is due stays due, for every poll to see, until it is started or    *)
(* settled, whatever is lost and however often a batch is rolled back.     *)
THEOREM DueStaysDue ==
  Spec => [][\A a \in Auctions :
               /\ a \in DueStarts => a \in DueStarts' \/ row'[a].status = "ACTIVE"
               /\ a \in DueCloses =>
                     a \in DueCloses' \/ row'[a].status \in Settled]_vars
<1>1. ASSUME TypeOK, JobsHold, [Next]_vars, NEW a \in Auctions,
             row[a].status \in {"UPCOMING", "ACTIVE"}
      PROVE  /\ now \in Nat /\ now' \in Nat /\ now <= now'
             /\ row[a] \in Row
             /\ row'[a].start = row[a].start /\ row'[a].end = row[a].end
             /\ \/ row'[a].status = row[a].status
                \/ row[a].status = "UPCOMING" /\ row'[a].status = "ACTIVE"
                \/ row[a].status = "ACTIVE" /\ row'[a].status \in Settled
  <2>1. row[a] \in Row /\ closeDone[a] \in Outcome
    BY <1>1 DEF TypeOK, DbOK, ClosesOK
  <2>2. CASE UNCHANGED row \/ \E b \in Auctions : CreateAuction(b)
    <3>1. row'[a] = row[a]
      BY <1>1, <2>2 DEF CreateAuction, Listable, TypeOK, DbOK
    <3> QED
      BY <1>1, <3>1, <2>1, TimePasses
  <2>3. CASE CommitStarts
    <3>1. /\ row'[a] = IF a \in startDone THEN [row[a] EXCEPT !.status = "ACTIVE"]
                       ELSE row[a]
          /\ a \in startDone => row[a].status = "UPCOMING"
      BY <1>1, <2>3 DEF CommitStarts, JobsHold, StartsHold
    <3> QED
      BY <1>1, <2>1, <3>1, TimePasses DEF Row
  <2>4. CASE CommitCloses
    <3>1. /\ row'[a] = IF closeDone[a].status = "none" THEN row[a]
                       ELSE [row[a] EXCEPT !.status = closeDone[a].status,
                                           !.price  = closeDone[a].price,
                                           !.winner = closeDone[a].winner]
          /\ closeDone[a].status # "none" =>
                row[a].status = "ACTIVE" /\ closeDone[a].status \in Settled
      BY <1>1, <2>1, <2>4 DEF CommitCloses, JobsHold, ClosesHold, Outcome
    <3> QED
      BY <1>1, <2>1, <3>1, TimePasses DEF Row
  <2> QED
    BY <1>1, <2>2, <2>3, <2>4, RowWriters
<1>2. ASSUME TypeOK, JobsHold, [Next]_vars, NEW a \in DueStarts
      PROVE  a \in DueStarts' \/ row'[a].status = "ACTIVE"
  BY <1>1, <1>2 DEF DueStarts, Row
<1>3. ASSUME TypeOK, JobsHold, [Next]_vars, NEW a \in DueCloses
      PROVE  a \in DueCloses' \/ row'[a].status \in Settled
  BY <1>1, <1>3 DEF DueCloses, Row
<1>4. TypeOK /\ JobsHold /\ [Next]_vars
         => [\A a \in Auctions :
               /\ a \in DueStarts => a \in DueStarts' \/ row'[a].status = "ACTIVE"
               /\ a \in DueCloses =>
                     a \in DueCloses' \/ row'[a].status \in Settled]_vars
  BY <1>2, <1>3
<1> QED
  BY <1>4, JobsCorrect, PTL DEF Spec

=============================================================================
