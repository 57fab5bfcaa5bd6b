--------------------------- MODULE ReadersProofs ---------------------------
(***************************************************************************)
(* Theorems about Readers, for every set of auctions, requests, prices and *)
(* schedules, every page size and any number of faults: a walk through the *)
(* bid history is complete, a view's price covers its bids, and what views *)
(* show of an auction only moves on and is what will be recorded.  A close *)
(* misses late bids only, and where there are none the best bid wins.      *)
(***************************************************************************)
EXTENDS Readers, HistoryProofs, FunctionTheorems, SequenceTheorems

(* Readers take no step of the system, and Watch only looks on.            *)
LEMMA ReadersRefine == ReadersSpec => Spec
<1>1. ReadersInit => Init
  BY DEF ReadersInit
<1>2. [ReadersNext]_allVars => [Next]_vars
  BY DEF ReadersNext, allVars
<1> QED
  BY <1>1, <1>2, PTL DEF ReadersSpec, Spec

SystemHolds ==
    /\ TypeOK /\ JobsHold /\ TimesHold /\ HistoryServed
    /\ AnswersHold /\ LadderHolds /\ NumbersHold /\ BiddersNamed

LEMMA SystemInvariant == ReadersSpec => []SystemHolds
<1>1. ClosesFit => BiddersNamed
  BY DEF ClosesFit
<1> QED
  BY <1>1, ReadersRefine, ClosesInvariant, PTL DEF SystemHolds

-----------------------------------------------------------------------------
(* What readers find.                                                      *)

(* The inductive invariant of what they read, with KeysFit and             *)
(* RowsUnpriced: a bid's row is committed as its request ends; and as long *)
(* as nothing has failed a key has the outcome of its row and before the   *)
(* commit that of the closing session.                                     *)
Recorded == \A r \in Requests : bidRow[r].status # "none" => pc[r] = "done"

MarksFit ==
    faults = 0 => \A a \in Auctions :
        /\ closeDone[a].status # "none"
              => hash[a].state \in {"none", closeDone[a].status}
        /\ row[a].status \in Settled => hash[a].state \in {"none", row[a].status}

StoresHold == Recorded /\ KeysFit /\ RowsUnpriced /\ MarksFit

LEMMA StoresInit == Init => StoresHold
  BY DEF Init, StoresHold, Recorded, KeysFit, RowsUnpriced, MarksFit, NoHash, NoRow,
     NothingDone, NoOutcome, Settled

(* Bid rows are written at the end of a request.                           *)
LEMMA BidRowWriters ==
  ASSUME [Next]_vars
  PROVE  UNCHANGED bidRow \/ \E r \in Requests : CommitBid(r)
<1>1. CASE \/ Tick \/ AppCrash \/ RedisLoss \/ UNCHANGED vars
           \/ \E a \in Auctions : CreateAuction(a) \/ CreateAuctionLosesCommit(a)
  BY <1>1 DEF Tick, AppCrash, RedisLoss, vars, CreateAuction,
     CreateAuctionLosesCommit, dbVars
<1>2. ASSUME NEW r \in Requests, Receive(r) \/ Serve(r) \/ ServeFault(r)
      PROVE  UNCHANGED bidRow \/ CommitBid(r)
  BY <1>2 DEF Receive, Serve, ServeFault, AppendStream, AppendStreamError,
     EvaluateAccepts, EvaluateRejects, EvaluateError, ReadBack, ReadBackError,
     Persist, InsertProxy, ReplyBeforeCommit, CommitBidError, dbVars
<1>3. CASE StartJob \/ CloseJob \/ JobFault
  BY <1>3 DEF StartJob, CloseJob, JobFault, PollStarts, StartAuction,
     StartAuctionError, CommitStarts, CommitStartsError, PollCloses, CloseRead,
     CloseReadError, CloseApply, CloseApplyError, CloseFlushFails, CommitCloses,
     CommitClosesError, dbVars
<1> QED
  BY <1>1, <1>2, <1>3 DEF Next

LEMMA RecordedStep ==
  ASSUME TypeOK, Recorded, [Next]_vars
  PROVE  Recorded'
<1> SUFFICES ASSUME NEW r \in Requests, bidRow'[r].status # "none"
             PROVE  pc'[r] = "done"
  BY DEF Recorded
<1>1. ASSUME pc[r] = "done"
      PROVE  pc'[r] = "done"
  <2>1. ~Receive(r)
    BY <1>1 DEF Receive
  <2> QED
    BY <1>1, <2>1, RequestsStay
<1>2. CASE bidRow'[r] = bidRow[r]
  BY <1>1, <1>2 DEF Recorded
<1>3. ASSUME NEW q \in Requests, CommitBid(q), q # r
      PROVE  bidRow'[r] = bidRow[r]
  BY <1>3 DEF CommitBid, TypeOK, DbOK
<1>4. CASE CommitBid(r)
  BY <1>4 DEF CommitBid, Answer, Goto, TypeOK, RequestsOK
<1> QED
  BY <1>2, <1>3, <1>4, BidRowWriters

(* An accepted bid's row and its request are never written again.          *)
LEMMA RecordsStay ==
  ASSUME TypeOK, Recorded, [Next]_vars, NEW r \in Requests,
         bidRow[r].status = "ACCEPTED"
  PROVE  bidRow'[r] = bidRow[r] /\ req'[r] = req[r]
<1>1. pc[r] = "done"
  BY DEF Recorded
<1>2. req'[r] = req[r]
  BY <1>1, RequestsStay
<1>3. ~CommitBid(r)
  BY <1>1 DEF CommitBid, AtCommit
<1>4. ASSUME NEW q \in Requests, CommitBid(q), q # r
      PROVE  bidRow'[r] = bidRow[r]
  BY <1>4 DEF CommitBid, TypeOK, DbOK
<1> QED
  BY <1>2, <1>3, <1>4, BidRowWriters

(* The key of an auction that has been opened is written by bids, if it    *)
(* takes them, by its own close, and by nothing else but its loss.         *)
LEMMA QuietKey ==
  ASSUME TypeOK, JobsHold, [Next]_vars, NEW a \in Auctions,
         hash[a].state # "ACTIVE", row[a].status \notin {"absent", "UPCOMING"}
  PROVE  \/ hash'[a] = hash[a]
         \/ SettleCurrent /\ MarkClosed /\ closeCur = a /\ UNCHANGED <<row, log>>
         \/ RedisLoss
<1>1. ASSUME NEW b \in Auctions, CreateAuction(b) \/ CreateAuctionLosesCommit(b)
      PROVE  hash'[a] = hash[a]
  BY <1>1, CreatedHash
<1>2. ASSUME NEW r \in Requests, BidAccepted(r)
      PROVE  hash'[a] = hash[a]
  BY <1>2, AcceptedBid
<1>3. ASSUME NEW b \in Auctions, b \in startTodo, InitKey(b)
      PROVE  hash'[a] = hash[a]
  BY <1>3, OpenedHash DEF JobsHold, StartsHold
<1>4. CASE SettleCurrent /\ MarkClosed /\ UNCHANGED <<row, log>>
  BY <1>4, MarkedHash
<1> QED
  BY <1>1, <1>2, <1>3, <1>4, HashWriters

(* Without a fault a closing session gains an outcome only with its mark.  *)
LEMMA SessionWriters ==
  ASSUME TypeOK, [Next]_vars, faults' = 0
  PROVE  \/ UNCHANGED closeDone
         \/ SettleCurrent /\ MarkClosed /\ UNCHANGED row
         \/ AbandonCloses
<1>1. ~CloseApplyError
  BY NoFaultYet
<1>2. CASE Tick \/ RedisLoss \/ UNCHANGED vars \/ StartJob
  BY <1>2 DEF Tick, RedisLoss, vars, StartJob, PollStarts, CommitStarts,
     StartAuction, closeVars
<1>3. ASSUME NEW a \in Auctions, CreateAuction(a) \/ CreateAuctionLosesCommit(a)
      PROVE  UNCHANGED closeDone
  BY <1>3 DEF CreateAuction, CreateAuctionLosesCommit, closeVars
<1>4. ASSUME NEW r \in Requests, Receive(r) \/ Serve(r) \/ ServeFault(r)
      PROVE  UNCHANGED closeDone
  BY <1>4, RequestsLeaveJobs DEF closeVars
<1>5. CASE CloseJob \/ JobFault
  BY <1>1, <1>5 DEF CloseJob, JobFault, PollCloses, CloseRead, CloseApply,
     CloseFlushFails, CommitCloses, CommitStartsError, CommitClosesError,
     StartAuctionError, CloseReadError, closeVars, dbVars
<1>6. CASE AppCrash
  BY <1>6 DEF AppCrash
<1> QED
  BY <1>2, <1>3, <1>4, <1>5, <1>6 DEF Next

LEMMA MarksFitStep ==
  ASSUME TypeOK, JobsHold, MarksFit, [Next]_vars
  PROVE  MarksFit'
<1> SUFFICES ASSUME faults' = 0, NEW a \in Auctions
             PROVE  /\ closeDone'[a].status # "none"
                          => hash'[a].state \in {"none", closeDone'[a].status}
                    /\ row'[a].status \in Settled
                          => hash'[a].state \in {"none", row'[a].status}
  BY DEF MarksFit
<1>1. faults = 0 /\ ~RedisLoss
  BY NoFaultYet
<1>2. /\ closeDone[a].status \in {"none"} \cup Settled
      /\ closeDone \in [Auctions -> Outcome]
      /\ closeDone[a].status # "none" => row[a].status = "ACTIVE"
      /\ closeCur = a => row[a].status = "ACTIVE"
  BY AuctionSystemAssumption DEF TypeOK, ClosesOK, Outcome, JobsHold, ClosesHold
<1>3. ASSUME SettleCurrent, MarkClosed, closeCur = a
      PROVE  /\ hash'[a].state = closeDone'[a].status
             /\ row[a].status = "ACTIVE"
  <2>1. hash[a] \in Hash
    BY DEF TypeOK, RedisOK
  <2> QED
    BY <1>2, <1>3, <2>1 DEF SettleCurrent, MarkClosed, TypeOK, RedisOK, Hash
<1>4. closeDone'[a].status # "none" => hash'[a].state \in {"none", closeDone'[a].status}
  <2>1. CASE closeDone'[a] = closeDone[a] /\ closeDone[a].status # "none"
    <3>1. hash[a].state \in {"none", closeDone[a].status} /\ hash[a].state # "ACTIVE"
      BY <1>1, <1>2, <2>1 DEF MarksFit, Settled
    <3>2. row[a].status \notin {"absent", "UPCOMING"}
      BY <1>2, <2>1
    <3> QED
      BY <1>1, <1>3, <2>1, <3>1, <3>2, QuietKey
  <2>2. CASE SettleCurrent /\ MarkClosed
    <3>1. CASE closeCur = a
      BY <1>3, <2>2, <3>1
    <3>2. CASE closeCur # a
      BY <1>2, <2>1, <2>2, <3>2 DEF SettleCurrent
    <3> QED
      BY <3>1, <3>2
  <2>3. CASE AbandonCloses
    BY <2>3 DEF AbandonCloses, NothingDone, NoOutcome
  <2> QED
    BY <2>1, <2>2, <2>3, SessionWriters
<1>5. row'[a].status \in Settled => hash'[a].state \in {"none", row'[a].status}
  <2>1. CASE row[a].status \in Settled
    <3>1. hash[a].state \in {"none", row[a].status} /\ hash[a].state # "ACTIVE"
      BY <1>1, <2>1 DEF MarksFit, Settled
    <3>2. row[a].status \notin {"absent", "UPCOMING", "ACTIVE"}
      BY <2>1 DEF Settled
    <3>3. row'[a] = row[a]
      BY <2>1, SettledRowStays
    <3> QED
      BY <1>1, <1>2, <3>1, <3>2, <3>3, QuietKey
  <2>2. CASE row[a].status \notin Settled /\ row'[a].status \in Settled
    <3>1. CommitCloses
      <4>1. ASSUME NEW b \in Auctions, CreateAuction(b)
            PROVE  FALSE
        BY <2>2, <4>1 DEF CreateAuction, NewRow, TypeOK, DbOK, Settled
      <4>2. CASE CommitStarts
        BY <2>2, <4>2 DEF CommitStarts, TypeOK, DbOK, Row, Settled
      <4> QED
        BY <2>2, <4>1, <4>2, RowWriters
    <3>2. /\ closeDone[a].status # "none"
          /\ row'[a].status = closeDone[a].status /\ hash' = hash
      BY <2>2, <3>1 DEF CommitCloses, TypeOK, DbOK, Row, redisVars
    <3> QED
      BY <1>1, <3>2 DEF MarksFit
  <2> QED
    BY <2>1, <2>2
<1> QED
  BY <1>4, <1>5

LEMMA StoresInvariant == ReadersSpec => [](SystemHolds /\ StoresHold)
<1>1. SystemHolds /\ StoresHold /\ [Next]_vars => StoresHold'
  BY RecordedStep, KeysFitStep, RowsUnpricedStep, MarksFitStep
  DEF SystemHolds, StoresHold
<1> QED
  BY <1>1, StoresInit, SystemInvariant, ReadersRefine, PTL DEF Spec

-----------------------------------------------------------------------------
(* The walk through the history.                                           *)

(* The history of an auction is finite, and stays as it is and grows.      *)
LEMMA HistoryFinite ==
  ASSUME SystemHolds, NEW a \in Auctions
  PROVE  History(a) \in SUBSET Requests /\ IsFiniteSet(History(a))
<1> DEFINE I == 1..Len(log[a])
           f == [i \in I |-> log[a][i].req]
           T == {f[i] : i \in I}
<1>1. IsFiniteSet(I)
  <2>1. 1 \in Int /\ Len(log[a]) \in Int
    BY DEF SystemHolds, TypeOK, HistoryOK
  <2> QED
    BY <2>1, FS_Interval
<1>2. f \in Surjection(I, T)
  BY DEF Surjection
<1>3. History(a) \subseteq T
  <2> SUFFICES ASSUME NEW r \in Requests, bidRow[r].status = "ACCEPTED", req[r].auction = a
               PROVE  r \in T
    BY DEF History
  <2>1. Numbered(r, bidRow[r].seq, log, req)
    BY DEF SystemHolds, NumbersHold
  <2>2. \E i \in I : log[a][i] = [req |-> r, seq |-> bidRow[r].seq]
    BY <2>1 DEF Numbered
  <2> QED
    BY <2>2
<1>4. IsFiniteSet(T)
  <2> HIDE DEF f, I, T
  <2> QED
    BY <1>1, <1>2, FS_Surjection
<1> HIDE DEF T
<1>5. IsFiniteSet(History(a))
  BY <1>3, <1>4, FS_Subset
<1> QED
  BY <1>5 DEF History

LEMMA HistoryOnlyGrows ==
  ASSUME SystemHolds, Recorded, [Next]_vars, NEW a
  PROVE  \A r \in History(a) : r \in History(a)' /\ bidRow'[r] = bidRow[r]
<1> SUFFICES ASSUME NEW r \in Requests, bidRow[r].status = "ACCEPTED", req[r].auction = a
             PROVE  /\ bidRow'[r].status = "ACCEPTED" /\ req'[r].auction = a
                    /\ bidRow'[r] = bidRow[r]
  BY DEF History
<1> QED
  BY RecordsStay DEF SystemHolds

(* A page of a query over a finite set: the newest n of the bids, or all.  *)
LEMMA PageIsNewest ==
  ASSUME NEW S \in SUBSET Requests, IsFiniteSet(S), NEW n \in Nat,
         NEW page \in Newest(S, n)
  PROVE  /\ page \in Seq(S)
         /\ Len(page) = IF Cardinality(S) < n THEN Cardinality(S) ELSE n
         /\ \A i, j \in 1..Len(page) : i < j =>
               page[i] # page[j] /\ bidRow[page[i]].seq >= bidRow[page[j]].seq
         /\ \A r \in S : \/ \E i \in 1..Len(page) : page[i] = r
                         \/ \A i \in 1..Len(page) : bidRow[r].seq <= bidRow[page[i]].seq
         /\ Cardinality(S) <= n => \A r \in S : \E i \in 1..Len(page) : page[i] = r
<1> DEFINE size == Cardinality(S)
           k == IF size < n THEN size ELSE n
<1>1. size \in Nat /\ k \in Nat
  BY FS_CardinalityType
<1>2. /\ page \in [1..k -> S]
      /\ \A i, j \in 1..k : i < j =>
            page[i] # page[j] /\ bidRow[page[i]].seq >= bidRow[page[j]].seq
      /\ \A r \in S \ {page[i] : i \in 1..k} : \A i \in 1..k :
            bidRow[r].seq <= bidRow[page[i]].seq
  BY DEF Newest
<1>3. ASSUME size <= n
      PROVE  \A r \in S : \E i \in 1..k : page[i] = r
  <2>1. k = size
    BY <1>1, <1>3
  <2>2. \A i, j \in 1..k : page[i] = page[j] => i = j
    <3> SUFFICES ASSUME NEW i \in 1..k, NEW j \in 1..k, page[i] = page[j], i # j
                 PROVE  FALSE
      OBVIOUS
    <3>1. i < j \/ j < i
      BY <1>1
    <3> QED
      BY <1>2, <3>1
  <2> HIDE DEF k, size
  <2>3. page \in Injection(1..k, S)
    BY <1>2, <2>2, Fun_IsInj
  <2>4. Cardinality(1..k) = k
    <3>1. 1 \in Int /\ k \in Int
      BY <1>1
    <3> QED
      BY <1>1, <3>1, FS_Interval
  <2>5. page \in Surjection(1..k, S)
    BY <2>1, <2>3, <2>4, FS_Injection DEF size
  <2> QED
    BY <2>5 DEF Surjection
<1> HIDE DEF k
<1>4. page \in Seq(S) /\ Len(page) = k
  BY <1>1, <1>2
<1> QED
  BY <1>2, <1>3, <1>4 DEF k

(* The inductive invariant of a walk: the bids it got are of its auction's *)
(* history, newest first and, unless the hash has begun anew, with numbers *)
(* that fall; until the last page, the bids that were due are among them,  *)
(* or have the number of one of them, or lie below the cursor; after it    *)
(* none is left below.                                                     *)
Covered(w, r) ==
    \E i \in 1..Len(w.got) :
        w.got[i] = r \/ (wiped[w.auction] /\ bidRow[w.got[i]].seq = bidRow[r].seq)

Falls(w) ==
    LET n(i) == bidRow[w.got[i]].seq
    IN  \A i, j \in 1..Len(w.got) : i < j =>
            /\ w.got[i] # w.got[j]
            /\ n(i) >= n(j)
            /\ n(i) = n(j) => wiped[w.auction]

WalkFits(w) ==
    /\ w.auction \in Auctions
    /\ w.due \subseteq History(w.auction)
    /\ \A i \in 1..Len(w.got) : w.got[i] \in History(w.auction)
    /\ Falls(w)

(* What the next page chooses from.                                        *)
Left(w) == IF w.got = << >> THEN History(w.auction)
           ELSE Below(History(w.auction), bidRow[w.got[Len(w.got)]].seq)

DueFound(w) == \A r \in w.due : Covered(w, r) \/ r \in Left(w)

DueGot(w) == \A r \in w.due : Covered(w, r)

WalkHolds ==
    /\ \/ walk = NoWalk
       \/ walk \in Walk /\ WalkFits(walk)
    /\ doing = "paging" => /\ walk # NoWalk /\ walk.got # << >> /\ ~walk.ended
                           /\ DueFound(walk)
    /\ walk.ended => DueGot(walk)

LEMMA JoinedPages ==
  ASSUME NEW s \in Seq(Requests), NEW t \in Seq(Requests)
  PROVE  /\ s \o t \in Seq(Requests)
         /\ Len(s) \in Nat /\ Len(t) \in Nat /\ Len(s \o t) = Len(s) + Len(t)
         /\ \A i \in 1..Len(s) : i \in 1..Len(s \o t) /\ (s \o t)[i] = s[i]
         /\ \A i \in 1..Len(t) : /\ Len(s) + i \in 1..Len(s \o t)
                                 /\ (s \o t)[Len(s) + i] = t[i]
         /\ \A j \in 1..Len(s \o t) :
               \/ j \in 1..Len(s)
               \/ j - Len(s) \in 1..Len(t) /\ (s \o t)[j] = t[j - Len(s)]
  OBVIOUS

(* One page more.                                                          *)
LEMMA PageStep ==
  ASSUME SystemHolds, ReadersTypeOK, NEW w \in Walk, WalkFits(w), DueFound(w),
         Page(w, Left(w)), UNCHANGED vars
  PROVE  /\ walk' \in Walk /\ WalkFits(walk)' /\ doing' \in {"paging", "nothing"}
         /\ doing' = "paging" => /\ walk'.got # << >> /\ ~walk'.ended
                                 /\ DueFound(walk)'
         /\ walk'.ended => DueGot(walk)'
<1> DEFINE a == w.auction
           rows == Left(w)
           more == (Cardinality(rows) > PageSize)
           N == Len(w.got)
           n(r) == bidRow[r].seq
<1>1. PICK page \in Newest(rows, PageSize) :
         walk' = [w EXCEPT !.got = @ \o page, !.ended = ~more]
  BY DEF Page
<1> DEFINE g == w.got \o page
           new == [w EXCEPT !.got = g, !.ended = ~more]
<1>2. /\ a \in Auctions /\ w.due \subseteq History(a) /\ N \in Nat
      /\ w.got \in Seq(Requests) /\ PageSize \in Nat \ {0}
      /\ new.got = g /\ new.ended = ~more /\ new.due = w.due /\ new.auction = a
  BY ReadersAssumption DEF WalkFits, Walk
<1>3. /\ rows \subseteq History(a) /\ rows \in SUBSET Requests /\ IsFiniteSet(rows)
      /\ Cardinality(rows) \in Nat
  <2>1. rows \subseteq History(a)
    BY DEF Left, Below
  <2> HIDE DEF rows
  <2> QED
    BY <1>2, <2>1, HistoryFinite, FS_Subset, FS_CardinalityType
<1>4. /\ page \in Seq(rows)
      /\ Len(page) = IF Cardinality(rows) < PageSize THEN Cardinality(rows) ELSE PageSize
      /\ \A i, j \in 1..Len(page) : i < j => page[i] # page[j] /\ n(page[i]) >= n(page[j])
      /\ \A r \in rows : \/ \E i \in 1..Len(page) : page[i] = r
                         \/ \A i \in 1..Len(page) : n(r) <= n(page[i])
      /\ ~more => \A r \in rows : \E i \in 1..Len(page) : page[i] = r
  <2>1. ~more => Cardinality(rows) <= PageSize
    BY <1>2, <1>3
  <2> HIDE DEF rows
  <2> QED
    BY <1>2, <1>3, <2>1, PageIsNewest
<1> HIDE DEF rows
<1>5. /\ \A i \in 1..Len(page) : page[i] \in rows
      /\ \A i \in 1..Len(page) : page[i] \in History(a)
      /\ Len(page) \in Nat
  BY <1>3, <1>4
<1>6. /\ g \in Seq(Requests) /\ Len(g) = N + Len(page)
      /\ \A i \in 1..N : i \in 1..Len(g) /\ g[i] = w.got[i]
      /\ \A i \in 1..Len(page) : N + i \in 1..Len(g) /\ g[N + i] = page[i]
      /\ \A j \in 1..Len(g) : \/ j \in 1..N
                              \/ j - N \in 1..Len(page) /\ g[j] = page[j - N]
  <2>1. page \in Seq(Requests)
    BY <1>3, <1>4
  <2> QED
    BY <1>2, <2>1, JoinedPages, SMT
<1> HIDE DEF g, N
(* In one history without a new count no two bids have one number.         *)
<1>7. /\ \A r \in History(a) : n(r) \in Nat
      /\ ~wiped[a] => \A r, q \in History(a) : r # q /\ n(r) <= n(q) => n(r) < n(q)
  <2>1. HistoryIsLadder
    BY NumbersOrder DEF SystemHolds
  <2> QED
    BY <2>1 DEF HistoryIsLadder, History, SystemHolds, TypeOK, DbOK, BidRow
<1>8. \A i \in 1..N : g[i] \in History(a) /\ \A r \in rows : n(r) < n(g[i])
  <2> SUFFICES ASSUME NEW i \in 1..N
               PROVE  g[i] \in History(a) /\ \A r \in rows : n(r) < n(g[i])
    OBVIOUS
  <2>1. /\ w.got[i] \in History(a) /\ w.got[N] \in History(a) /\ w.got # << >>
        /\ i = N \/ n(w.got[i]) >= n(w.got[N])
    BY <1>2 DEF WalkFits, Falls, N
  <2>2. \A r \in rows : n(r) < n(w.got[N])
    BY <2>1 DEF rows, Left, Below, N
  <2>3. ASSUME NEW r \in rows
        PROVE  n(r) < n(w.got[i])
    <3>1. n(r) \in Nat /\ n(w.got[i]) \in Nat /\ n(w.got[N]) \in Nat
      BY <1>3, <1>7, <2>1
    <3> QED
      BY <2>1, <2>2, <3>1
  <2> QED
    BY <1>6, <2>1, <2>3
<1>9. \A i \in 1..Len(g) : g[i] \in History(a)
  BY <1>5, <1>6, <1>8
<1>10. ASSUME NEW i \in 1..Len(g), NEW j \in 1..Len(g), i < j
       PROVE  /\ g[i] # g[j] /\ n(g[i]) >= n(g[j])
              /\ n(g[i]) = n(g[j]) => wiped[a]
  <2>1. CASE j \in 1..N
    <3>1. i \in 1..N
      BY <1>2, <1>10, <2>1
    <3> QED
      BY <1>6, <1>10, <2>1, <3>1 DEF WalkFits, Falls, N
  <2>2. CASE i \in 1..N /\ j \notin 1..N
    <3>1. g[j] \in rows
      BY <1>5, <1>6, <2>2
    <3>2. n(g[j]) < n(g[i]) /\ n(g[i]) \in Nat /\ n(g[j]) \in Nat
      BY <1>7, <1>8, <1>9, <2>2, <3>1
    <3> QED
      BY <3>2
  <2>3. CASE i \notin 1..N
    <3> DEFINE x == i - N
               y == j - N
    <3>1. /\ x \in 1..Len(page) /\ g[i] = page[x]
          /\ y \in 1..Len(page) /\ g[j] = page[y] /\ x < y
      BY <1>2, <1>6, <1>10, <2>3
    <3> HIDE DEF x, y
    <3>2. g[i] # g[j] /\ n(g[i]) >= n(g[j])
      BY <1>4, <3>1
    <3> QED
      BY <1>7, <1>9, <1>10, <3>2
  <2> QED
    BY <2>1, <2>2, <2>3
<1>11. \A r : Covered(w, r) => Covered(new, r)
  <2> SUFFICES ASSUME NEW r, Covered(w, r) PROVE Covered(new, r)
    OBVIOUS
  <2>1. PICK i \in 1..N :
           w.got[i] = r \/ (wiped[a] /\ bidRow[w.got[i]].seq = bidRow[r].seq)
    BY DEF Covered, N
  <2>2. i \in 1..Len(new.got) /\ new.got[i] = w.got[i]
    BY <1>2, <1>6
  <2> QED
    BY <1>2, <2>1, <2>2 DEF Covered
<1>12. ASSUME NEW i \in 1..Len(page), NEW r,
              page[i] = r \/ (wiped[a] /\ n(page[i]) = n(r))
       PROVE  Covered(new, r)
  <2>1. N + i \in 1..Len(new.got) /\ new.got[N + i] = page[i]
    BY <1>2, <1>6
  <2> QED
    BY <1>2, <1>12, <2>1 DEF Covered
<1>13. more => g # << >> /\ DueFound(new)
  <2> SUFFICES ASSUME more PROVE g # << >> /\ DueFound(new)
    OBVIOUS
  <2>1. Len(page) = PageSize /\ Len(page) \in 1..Len(page) /\ Len(g) # 0
    BY <1>2, <1>3, <1>4, <1>6
  <2>2. g[Len(g)] = page[Len(page)] /\ g # << >>
    BY <1>6, <2>1
  <2>3. ASSUME NEW r \in rows, ~Covered(new, r)
        PROVE  r \in Left(new)
    <3> DEFINE last == page[Len(page)]
    <3>1. n(r) <= n(last) /\ r # last /\ (wiped[a] => n(r) # n(last))
      BY <1>4, <1>12, <2>1, <2>3
    <3>2. r \in History(a) /\ last \in History(a)
      BY <1>3, <1>5, <2>1
    <3>3. n(r) < n(last)
      <4> HIDE DEF last
      <4>1. n(r) \in Nat /\ n(last) \in Nat /\ (~wiped[a] => n(r) < n(last))
        BY <1>7, <3>1, <3>2
      <4> QED
        BY <3>1, <4>1
    <3> QED
      BY <1>2, <2>2, <3>2, <3>3 DEF Left, Below
  <2> QED
    BY <1>2, <1>11, <2>2, <2>3 DEF DueFound, rows
<1>14. ~more => DueGot(new)
  BY <1>2, <1>4, <1>11, <1>12 DEF DueFound, DueGot, rows
<1>15. walk' = new /\ new \in Walk /\ doing' = IF more THEN "paging" ELSE "nothing"
  <2>1. walk' = new
    BY <1>1 DEF g
  <2>2. doing' = IF more THEN "paging" ELSE "nothing"
    BY DEF Page, rows
  <2>3. new \in Walk
    BY <1>6 DEF Walk
  <2> QED
    BY <2>1, <2>2, <2>3
<1>16. WalkFits(new)
  BY <1>2, <1>9, <1>10 DEF WalkFits, Falls
<1> HIDE DEF new
<1>17. /\ WalkFits(walk)' <=> WalkFits(new)
       /\ DueFound(walk)' <=> DueFound(new)
       /\ DueGot(walk)' <=> DueGot(new)
  BY <1>15 DEF WalkFits, Falls, DueFound, DueGot, Left, Below, Covered, History,
     vars, dbVars, reqVars, ghostVars
<1> QED
  BY <1>2, <1>13, <1>14, <1>15, <1>16, <1>17

(* The pages a client asks for.                                            *)
LEMMA PagesFit ==
  ASSUME SystemHolds, ReadersTypeOK, WalkHolds, UNCHANGED vars,
         NextPage \/ \E a \in Auctions : FirstPage(a)
  PROVE  /\ walk' \in Walk /\ WalkFits(walk)' /\ doing' \in {"paging", "nothing"}
         /\ doing' = "paging" => /\ walk'.got # << >> /\ ~walk'.ended
                                 /\ DueFound(walk)'
         /\ walk'.ended => DueGot(walk)'
         /\ shown' = NothingShown /\ UNCHANGED view
<1>1. CASE NextPage
  <2>1. /\ walk \in Walk /\ WalkFits(walk) /\ DueFound(walk) /\ walk.got # << >>
        /\ Page(walk, Below(History(walk.auction), bidRow[walk.got[Len(walk.got)]].seq))
    BY <1>1 DEF NextPage, WalkHolds
  <2>2. Page(walk, Left(walk))
    BY <2>1 DEF Left
  <2>3. shown' = NothingShown /\ UNCHANGED view
    BY <2>1 DEF Page
  <2> QED
    BY <2>1, <2>2, <2>3, PageStep
<1>2. ASSUME NEW a \in Auctions, FirstPage(a)
      PROVE  /\ walk' \in Walk /\ WalkFits(walk)' /\ doing' \in {"paging", "nothing"}
             /\ doing' = "paging" => /\ walk'.got # << >> /\ ~walk'.ended
                                     /\ DueFound(walk)'
             /\ walk'.ended => DueGot(walk)'
             /\ shown' = NothingShown /\ UNCHANGED view
  <2> DEFINE w == [NoWalk EXCEPT !.auction = a, !.due = History(a)]
  <2>1. /\ w \in Walk /\ w.auction = a /\ w.due = History(a) /\ w.got = << >>
        /\ Page(w, History(a))
    <3>1. Page(w, History(a))
      BY <1>2 DEF FirstPage
    <3>2. History(a) \in SUBSET Requests /\ << >> \in Seq(Requests)
      BY DEF History
    <3> QED
      BY <3>1, <3>2 DEF NoWalk, Walk
  <2> HIDE DEF w
  <2>2. WalkFits(w) /\ DueFound(w) /\ Left(w) = History(a)
    BY <2>1 DEF WalkFits, Falls, DueFound, Left
  <2>3. shown' = NothingShown /\ UNCHANGED view
    BY <2>1 DEF Page
  <2> QED
    BY <2>1, <2>2, <2>3, PageStep
<1> QED
  BY <1>1, <1>2

(* What the system does meanwhile.                                         *)
LEMMA WalkKept ==
  ASSUME SystemHolds, Recorded, [Next]_vars, walk \in Walk, WalkFits(walk), UNCHANGED walk
  PROVE  /\ WalkFits(walk)'
         /\ DueFound(walk) => DueFound(walk)'
         /\ DueGot(walk) => DueGot(walk)'
<1> DEFINE a == walk.auction
           got == walk.got
<1>1. /\ a \in Auctions /\ walk.due \subseteq History(a) /\ got \in Seq(Requests)
      /\ \A i \in 1..Len(got) : got[i] \in History(a)
  BY DEF WalkFits, Walk
<1>2. \A r \in History(a) : r \in History(a)' /\ bidRow'[r] = bidRow[r]
  BY HistoryOnlyGrows
<1>3. ~wiped'[a] => ~wiped[a]
  BY <1>1, WipesStay DEF SystemHolds
<1>4. \A i \in 1..Len(got) : bidRow'[got[i]] = bidRow[got[i]]
  BY <1>1, <1>2
<1>5. Falls(walk)'
  BY <1>1, <1>3, <1>4 DEF WalkFits, Falls, SystemHolds, TypeOK, HistoryOK
<1>6. WalkFits(walk)'
  BY <1>1, <1>2, <1>5 DEF WalkFits
<1>7. Left(walk) \subseteq Left(walk)'
  <2>1. CASE got = << >>
    BY <1>2, <2>1 DEF Left
  <2>2. CASE got # << >>
    <3>1. Len(got) \in 1..Len(got)
      BY <1>1, <2>2
    <3> QED
      BY <1>2, <1>4, <2>2, <3>1 DEF Left, Below
  <2> QED
    BY <2>1, <2>2
<1>8. ASSUME NEW r \in walk.due, Covered(walk, r)
      PROVE  Covered(walk, r)'
  <2>1. PICK i \in 1..Len(got) :
           got[i] = r \/ (wiped[a] /\ bidRow[got[i]].seq = bidRow[r].seq)
    BY <1>8 DEF Covered
  <2>2. bidRow'[got[i]] = bidRow[got[i]] /\ bidRow'[r] = bidRow[r]
    BY <1>1, <1>2, <1>4
  <2> QED
    BY <1>3, <2>1, <2>2 DEF Covered
<1>9. DueFound(walk) => DueFound(walk)'
  <2> HIDE DEF a, got
  <2> QED
    BY <1>7, <1>8 DEF DueFound
<1>10. DueGot(walk) => DueGot(walk)'
  BY <1>8 DEF DueGot
<1> QED
  BY <1>6, <1>9, <1>10

LEMMA WalkStep ==
  ASSUME SystemHolds, ReadersTypeOK, Recorded, WalkHolds, [ReadersNext]_allVars
  PROVE  WalkHolds'
<1>1. CASE \/ Next /\ Watch /\ UNCHANGED readerVars
           \/ UNCHANGED allVars
  <2>1. [Next]_vars /\ UNCHANGED <<doing, walk>>
    BY <1>1 DEF allVars, readerVars
  <2>2. CASE walk = NoWalk
    BY <2>1, <2>2 DEF WalkHolds, NoWalk
  <2>3. CASE walk \in Walk /\ WalkFits(walk)
    BY <2>1, <2>3, WalkKept DEF WalkHolds
  <2> QED
    BY <2>2, <2>3 DEF WalkHolds
<1>2. CASE UNCHANGED vars /\ (NextPage \/ \E a \in Auctions : FirstPage(a))
  <2>1. walk' # NoWalk \/ doing' # "paging"
    BY <1>2, PagesFit DEF NoWalk
  <2> QED
    BY <1>2, <2>1, PagesFit DEF WalkHolds
<1>3. ASSUME NEW a \in Auctions, ViewRow(a)
      PROVE  WalkHolds'
  BY <1>3 DEF ViewRow, WalkHolds, NoWalk
<1>4. CASE UNCHANGED vars /\ (ViewBids \/ ViewHash \/ ViewHashError)
  <2>1. UNCHANGED walk /\ doing' # "paging"
    BY <1>4 DEF ViewBids, ViewHash, ViewHashError
  <2>2. [Next]_vars
    BY <1>4
  <2>3. CASE walk = NoWalk
    BY <2>1, <2>3 DEF WalkHolds, NoWalk
  <2>4. CASE walk \in Walk /\ WalkFits(walk)
    BY <2>1, <2>2, <2>4, WalkKept DEF WalkHolds
  <2> QED
    BY <2>3, <2>4 DEF WalkHolds
<1> QED
  BY <1>1, <1>2, <1>3, <1>4 DEF ReadersNext, Read

-----------------------------------------------------------------------------
(* The view of one auction.                                                *)

(* The inductive invariant of a view: the row it has read is one the       *)
(* auction has had, and still has if it is settled; the bids it has read   *)
(* are in the history; what is shown is an auction that was listed.        *)
Viewing == doing \in {"counting", "asking"}

ViewFits ==
    LET a == view.auction
    IN  /\ view.row.status # "absent" /\ row[a].status # "absent"
        /\ view.row.status \in Settled => row[a] = view.row
        /\ Rank(view.row.status) <= Rank(row[a].status)
        /\ view.bids \subseteq History(a)

ShownFits ==
    IF shown.auction = NoAuction THEN shown = NothingShown
    ELSE shown.state # "none" /\ row[shown.auction].status # "absent"

ViewHolds == (Viewing => ViewFits) /\ ShownFits

ReadersHold == ReadersTypeOK /\ WalkHolds /\ ViewHolds

LEMMA ReadersHoldInit == ReadersInit => ReadersHold
<1>1. << >> \in Seq(Requests)
  OBVIOUS
<1>2. NoRow \in Row
  BY DEF NoRow, Row, AnyBidder
<1> QED
  BY <1>1, <1>2 DEF ReadersInit, ReadersHold, ReadersTypeOK, WalkHolds, ViewHolds,
     ViewFits, ShownFits, Viewing, Doings, NoWalk, Walk, NoView, View,
     NothingShown, Shown, HashState

LEMMA Ranks ==
  /\ Rank("UPCOMING") = 1 /\ Rank("ACTIVE") = 2
  /\ \A s : /\ Rank(s) \in 1..3
            /\ s # "UPCOMING" => Rank(s) >= 2
            /\ s \notin {"UPCOMING", "ACTIVE"} => Rank(s) = 3
  BY DEF Rank

LEMMA RowsRankHigher ==
  ASSUME TypeOK, JobsHold, [Next]_vars, NEW a \in Auctions, row[a].status # "absent"
  PROVE  row'[a].status # "absent" /\ Rank(row[a].status) <= Rank(row'[a].status)
<1>1. row[a].status \in {"UPCOMING", "ACTIVE"} \cup Settled
  BY DEF TypeOK, DbOK, Row
<1>2. CASE row[a].status \in Settled
  BY <1>2, SettledRowStays, Ranks
<1>3. CASE row[a].status \in {"UPCOMING", "ACTIVE"}
  BY <1>3, RowsMoveOn, Ranks
<1> QED
  BY <1>1, <1>2, <1>3

(* The last read makes a view.                                             *)
LEMMA MergeType ==
  ASSUME TypeOK, ReadersTypeOK, ViewFits, NEW a \in Auctions
  PROVE  /\ Merge(a) \in Shown /\ Merge(a).auction = a /\ Merge(a).state # "none"
         /\ Merge(a).live <=> hash[a].state # "none"
         /\ Merge(a).live => /\ Merge(a).state = hash[a].state
                             /\ Merge(a).price = hash[a].price
         /\ ~Merge(a).live => Merge(a).state = view.row.status
<1>1. hash[a].state \in HashState /\ hash[a].price \in Nat
  BY DEF TypeOK, RedisOK, Hash
<1>2. /\ view.row.status \in {"UPCOMING", "ACTIVE"} \cup Settled
      /\ view.row.price \in Nat /\ StartingPrice \in Nat
  BY ReadersAssumption DEF ReadersTypeOK, View, Row, ViewFits
<1> QED
  BY <1>1, <1>2 DEF Merge, Shown, HashState, Settled

(* A client's own step.                                                    *)
LEMMA ReadStep ==
  ASSUME SystemHolds, Recorded, ReadersHold, Read, UNCHANGED <<vars, late>>
  PROVE  ReadersTypeOK' /\ ViewHolds'
<1> USE DEF SystemHolds, ReadersHold
<1>1. late' = late /\ late \in [Auctions -> {"open", "read", "late"}]
  BY DEF ReadersTypeOK
<1>2. UNCHANGED <<row, bidRow, req, hash>>
  BY DEF vars, dbVars, reqVars, redisVars
<1>3. NoView \in View /\ NothingShown \in Shown
  BY DEF NoView, View, NoRow, Row, AnyBidder, NothingShown, Shown, HashState
<1>4. CASE NextPage \/ \E a \in Auctions : FirstPage(a)
  <2>1. /\ walk' \in Walk /\ doing' \in {"paging", "nothing"}
        /\ doing' = "paging" => walk'.got # << >> /\ ~walk'.ended
        /\ shown' = NothingShown /\ UNCHANGED view
    BY <1>4, PagesFit
  <2> QED
    BY <1>1, <1>3, <2>1 DEF ReadersTypeOK, Doings, ViewHolds, ShownFits, Viewing,
       NothingShown
<1>5. ASSUME NEW a \in Auctions, ViewRow(a)
      PROVE  ReadersTypeOK' /\ ViewHolds'
  <2> DEFINE v == [auction |-> a, row |-> row[a], bids |-> {}]
  <2>1. /\ row[a].status # "absent" /\ row[a] \in Row
        /\ view' = v /\ v \in View
        /\ doing' = "counting" /\ walk' = NoWalk /\ UNCHANGED shown
    BY <1>5 DEF ViewRow, TypeOK, DbOK, View
  <2>2. ReadersTypeOK'
    <3>1. NoWalk \in Walk
      BY DEF NoWalk, Walk
    <3> QED
      BY <1>1, <2>1, <3>1 DEF ReadersTypeOK, Doings
  <2>3. ViewFits'
    BY <1>2, <2>1, Ranks DEF ViewFits
  <2>4. ShownFits'
    BY <1>2, <2>1 DEF ViewHolds, ShownFits
  <2> QED
    BY <2>2, <2>3, <2>4 DEF ViewHolds
<1>6. CASE ViewBids
  <2> DEFINE v == [view EXCEPT !.bids = History(view.auction)]
  <2>1. /\ doing = "counting" /\ doing' = "asking" /\ UNCHANGED <<walk, shown>>
        /\ view' = v /\ view.auction \in Auctions
    BY <1>6 DEF ViewBids, ReadersTypeOK
  <2>2. /\ v \in View /\ v.auction = view.auction /\ v.row = view.row
        /\ v.bids = History(view.auction)
    <3>1. History(view.auction) \in SUBSET Requests
      BY DEF History
    <3> QED
      BY <3>1 DEF ReadersTypeOK, View
  <2> HIDE DEF v
  <2>3. ReadersTypeOK'
    BY <1>1, <2>1, <2>2 DEF ReadersTypeOK, Doings
  <2>4. ViewFits'
    <3>1. History(view.auction)' = History(view.auction)
      BY <1>2, <2>1, <2>2 DEF History
    <3>2. ViewFits
      BY <2>1 DEF ViewHolds, Viewing
    <3> QED
      BY <1>2, <2>1, <2>2, <3>1, <3>2 DEF ViewFits, History
  <2>5. ShownFits'
    BY <1>2, <2>1 DEF ViewHolds, ShownFits
  <2> QED
    BY <2>3, <2>4, <2>5 DEF ViewHolds
<1>7. CASE ViewHash
  <2>1. /\ doing = "asking" /\ doing' = "nothing" /\ UNCHANGED walk
        /\ shown' = Merge(view.auction) /\ view' = NoView
        /\ view.auction \in Auctions /\ ViewFits
    BY <1>7 DEF ViewHash, ReadersTypeOK, ViewHolds, Viewing
  <2>2. /\ shown' \in Shown /\ shown'.auction = view.auction
        /\ shown'.state # "none"
    BY <2>1, MergeType
  <2>3. ReadersTypeOK'
    BY <1>1, <1>3, <2>1, <2>2 DEF ReadersTypeOK, Doings
  <2>4. ShownFits'
    BY <1>2, <2>1, <2>2, AuctionSystemAssumption DEF ViewFits, ShownFits
  <2> QED
    BY <2>1, <2>3, <2>4 DEF ViewHolds, Viewing
<1>8. CASE ViewHashError
  <2>1. /\ doing' = "nothing" /\ UNCHANGED walk
        /\ shown' = NothingShown /\ view' = NoView
    BY <1>8 DEF ViewHashError
  <2>2. ReadersTypeOK'
    BY <1>1, <1>3, <2>1 DEF ReadersTypeOK, Doings
  <2> QED
    BY <2>1, <2>2 DEF ViewHolds, ShownFits, Viewing, NothingShown
<1> QED
  BY <1>4, <1>5, <1>6, <1>7, <1>8 DEF Read

(* What the system does while the client waits.                            *)
LEMMA WaitStep ==
  ASSUME SystemHolds, Recorded, ReadersHold, [Next]_vars, UNCHANGED readerVars,
         Watch \/ UNCHANGED late
  PROVE  ReadersTypeOK' /\ ViewHolds'
<1> USE DEF SystemHolds, ReadersHold
<1>1. UNCHANGED <<doing, walk, view, shown>>
  BY DEF readerVars
<1>2. ReadersTypeOK'
  <2>1. late' \in [Auctions -> {"open", "read", "late"}]
    BY DEF Watch, ReadersTypeOK
  <2> QED
    BY <1>1, <2>1 DEF ReadersTypeOK
<1>3. Viewing => ViewFits'
  <2> SUFFICES ASSUME Viewing PROVE ViewFits'
    OBVIOUS
  <2>1. view.auction \in Auctions /\ ViewFits
    BY DEF Viewing, ReadersTypeOK, ViewHolds
  <2>2. /\ row'[view.auction].status # "absent"
        /\ Rank(row[view.auction].status) <= Rank(row'[view.auction].status)
    BY <2>1, RowsRankHigher DEF ViewFits
  <2>3. row[view.auction].status \in Settled => row'[view.auction] = row[view.auction]
    BY <2>1, SettledRowStays
  <2>4. view.bids \subseteq History(view.auction)'
    <3>1. \A r \in History(view.auction) : r \in History(view.auction)'
      BY <1>1, HistoryOnlyGrows DEF History
    <3> QED
      BY <2>1, <3>1 DEF ViewFits
  <2>5. Rank(view.row.status) <= Rank(row'[view.auction].status)
    BY <2>1, <2>2, Ranks DEF ViewFits
  <2> QED
    BY <1>1, <2>1, <2>2, <2>3, <2>4, <2>5 DEF ViewFits
<1>4. ShownFits'
  <2>1. CASE shown.auction = NoAuction
    BY <1>1, <2>1 DEF ViewHolds, ShownFits
  <2>2. CASE shown.auction # NoAuction
    <3>1. shown.auction \in Auctions
      BY <2>2 DEF ReadersTypeOK, Shown
    <3> QED
      BY <1>1, <2>2, <3>1, RowsRankHigher DEF ViewHolds, ShownFits
  <2> QED
    BY <2>1, <2>2
<1> QED
  BY <1>1, <1>2, <1>3, <1>4 DEF ViewHolds, Viewing

LEMMA ReadersInvariant == ReadersSpec => [](SystemHolds /\ StoresHold /\ ReadersHold)
<1>1. SystemHolds /\ StoresHold /\ ReadersHold /\ [ReadersNext]_allVars => ReadersHold'
  <2> SUFFICES ASSUME SystemHolds, StoresHold, ReadersHold, [ReadersNext]_allVars
               PROVE  ReadersHold'
    OBVIOUS
  <2>1. WalkHolds'
    BY WalkStep DEF ReadersHold, StoresHold
  <2>2. ReadersTypeOK' /\ ViewHolds'
    BY ReadStep, WaitStep DEF StoresHold, ReadersNext, allVars
  <2> QED
    BY <2>1, <2>2 DEF ReadersHold
<1> QED
  BY <1>1, ReadersHoldInit, StoresInvariant, PTL DEF ReadersSpec

(* Every read of a client leaves it with well-formed pages and views.      *)
THEOREM ReadersTypesHold == ReadersSpec => []ReadersTypeOK
  BY ReadersInvariant, PTL DEF ReadersHold

(* However many bids commit between two pages, and in whatever order, the  *)
(* cursor repeats none and loses none that was due, but one that shares    *)
(* its number with a bid shown.                                            *)
THEOREM WalksAreComplete == ReadersSpec => []WalkIsComplete
<1>1. ReadersHold => WalkIsComplete
  <2> SUFFICES ASSUME ReadersHold PROVE WalkIsComplete
    OBVIOUS
  <2>1. CASE walk = NoWalk
    BY <2>1 DEF WalkIsComplete, NoWalk
  <2>2. CASE walk \in Walk /\ WalkFits(walk)
    BY <2>2 DEF ReadersHold, WalkHolds, WalkFits, Falls, WalkIsComplete, DueGot, Covered
  <2> QED
    BY <2>1, <2>2 DEF ReadersHold, WalkHolds
<1> QED
  BY <1>1, ReadersInvariant, PTL

-----------------------------------------------------------------------------
(* One view.                                                               *)

(* Only the last read of a view answers, and it changes nothing.           *)
LEMMA WhoAnswers ==
  ASSUME ReadersHold, [ReadersNext]_allVars, Answered
  PROVE  /\ ViewHash /\ UNCHANGED <<vars, late>>
         /\ view.auction \in Auctions /\ ViewFits
         /\ shown' = Merge(view.auction)
<1>1. ViewHash /\ UNCHANGED <<vars, late>>
  BY DEF ReadersNext, Read, Answered, NextPage, FirstPage, Page, ViewRow, ViewBids,
     ViewHashError, NothingShown, allVars, readerVars
<1> QED
  BY <1>1 DEF ViewHash, ReadersHold, ReadersTypeOK, ViewHolds, Viewing

(* The hash of an auction with bids in its history is there and has the    *)
(* highest of their prices, unless it has lost bids.                       *)
LEMMA HashCoversHistory ==
  ASSUME SystemHolds, KeysFit, NEW a \in Auctions, ~wiped[a], NEW r \in History(a)
  PROVE  hash[a].state # "none" /\ Offer(r) <= hash[a].price
<1> DEFINE n == Len(log[a])
           best == log[a][n].req
<1>1. /\ r \in Requests /\ req[r].auction = a
      /\ Numbered(r, bidRow[r].seq, log, req)
  BY DEF History, SystemHolds, NumbersHold
<1>2. PICK i \in 1..n : log[a][i] = [req |-> r, seq |-> bidRow[r].seq]
  BY <1>1 DEF Numbered
<1>3. n \in Nat /\ n # 0 /\ n \in 1..n /\ log[a][i].req = r
  BY <1>2 DEF SystemHolds, TypeOK, HistoryOK
<1>4. hash[a].leader = req[best].bidder /\ hash[a].price = Offer(best)
  BY <1>3 DEF SystemHolds, LadderHolds, LadderOf, BestIs, Offer
<1>5. req[best].bidder # NoBidder
  BY <1>3 DEF SystemHolds, BiddersNamed
<1>6. best \in Requests
  <2>1. log[a] \in Seq(Entry)
    BY DEF SystemHolds, TypeOK, HistoryOK
  <2>2. log[a][n] \in Entry
    BY <1>3, <2>1
  <2> QED
    BY <2>2 DEF Entry
<1>7. Offer(r) \in Nat /\ Offer(best) \in Nat /\ row[a].inc \in Nat
  BY <1>1, <1>6, OfferType DEF SystemHolds, TypeOK, DbOK, Row
<1>8. i < n => Offer(best) >= Offer(r) + row[a].inc
  BY <1>3 DEF SystemHolds, LadderHolds, LadderOf
<1> HIDE DEF best
<1>9. Offer(r) <= Offer(best)
  <2>1. i = n \/ i < n
    BY <1>3
  <2> QED
    BY <1>3, <1>7, <1>8, <2>1 DEF best
<1> QED
  BY <1>4, <1>5, <1>9 DEF KeysFit, NoHash

(* However the reads of a view interleave with bids and commits, it never  *)
(* lists a bid above the price it shows.                                   *)
THEOREM ViewsCoverBids == ReadersSpec => PriceCoversBids
<1>1. SystemHolds /\ StoresHold /\ ReadersHold /\ [ReadersNext]_allVars
      => [Answered /\ ~wiped[view.auction] =>
             \A r \in view.bids : Offer(r) <= shown'.price]_readerVars
  <2> SUFFICES ASSUME SystemHolds, StoresHold, ReadersHold, [ReadersNext]_allVars,
                      Answered, ~wiped[view.auction], NEW r \in view.bids
               PROVE  Offer(r) <= shown'.price
    OBVIOUS
  <2> DEFINE a == view.auction
  <2>1. a \in Auctions /\ r \in History(a) /\ shown' = Merge(a) /\ ViewFits
    BY WhoAnswers DEF ViewFits
  <2>2. hash[a].state # "none" /\ Offer(r) <= hash[a].price
    BY <2>1, HashCoversHistory DEF StoresHold
  <2> QED
    BY <2>1, <2>2 DEF Merge
<1> QED
  BY <1>1, ReadersInvariant, PTL DEF ReadersSpec, PriceCoversBids

(* While nothing has failed a view says of a settled row what it says.     *)
THEOREM SettledRowsAreShown == ReadersSpec => SettledRowIsShown
<1>1. SystemHolds /\ StoresHold /\ ReadersHold /\ [ReadersNext]_allVars
      => [Answered /\ faults = 0 /\ view.row.status \in Settled
             => shown'.state = view.row.status]_readerVars
  <2> SUFFICES ASSUME SystemHolds, StoresHold, ReadersHold, [ReadersNext]_allVars,
                      Answered, faults = 0, view.row.status \in Settled
               PROVE  shown'.state = view.row.status
    OBVIOUS
  <2> DEFINE a == view.auction
  <2>1. a \in Auctions /\ shown' = Merge(a) /\ row[a] = view.row
    BY WhoAnswers DEF ViewFits
  <2>2. hash[a].state \in {"none", view.row.status}
    BY <2>1 DEF StoresHold, MarksFit
  <2> QED
    BY <2>1, <2>2 DEF Merge
<1> QED
  BY <1>1, ReadersInvariant, PTL DEF ReadersSpec, SettledRowIsShown

-----------------------------------------------------------------------------
(* What is shown of the outcome.                                           *)

(* The outcome that these bids and this reserve decide.                    *)
Decided(bids, reqs, reserve) ==
    IF Len(bids) = 0 THEN [status |-> "UNSOLD", price |-> 0]
    ELSE LET p == Cents(reqs[bids[Len(bids)].req].amount)
         IN  [status |-> IF MeetsReserve(p, reserve) THEN "SOLD" ELSE "UNSOLD",
              price |-> p]

Fate(a) == Decided(log[a], req, row[a].reserve)

Agrees(o, fate) == o.status = fate.status /\ o.price = fate.price

(* The inductive invariant, auction by auction.  Until a close has read    *)
(* the hash nothing is settled or shown as settled.  From then on, unless  *)
(* the script accepts another bid or the hash is wiped, whatever was read, *)
(* is in the session, is committed, marks the hash or is shown is what the *)
(* bids decide.                                                            *)
Unsettled(a) ==
    /\ closeCur # a /\ closeDone[a].status = "none"
    /\ row[a].status \notin Settled /\ hash[a].state \notin Settled
    /\ shown.auction = a => shown.state \notin Settled

ShownAs(a, fate) ==
    shown.auction = a /\ shown.state \in Settled =>
        /\ shown.state = fate.status
        /\ shown.live => shown.price = fate.price

AsDecided(a, fate) ==
    /\ row[a].status # "absent"
    /\ closeCur = a => Agrees(Settlement(a, closeSnap), fate)
    /\ closeDone[a].status # "none" => Agrees(closeDone[a], fate)
    /\ row[a].status \in Settled => Agrees(row[a], fate)
    /\ hash[a].state \in Settled => hash[a].state = fate.status
    /\ ShownAs(a, fate)

OutcomeHolds(a) ==
    /\ late[a] = "open" => Unsettled(a)
    /\ late[a] = "read" /\ ~wiped[a] => AsDecided(a, Fate(a))

OutcomesHold == \A a \in Auctions : OutcomeHolds(a)

LEMMA OutcomesInit == ReadersInit => OutcomesHold
  BY AuctionSystemAssumption
  DEF ReadersInit, Init, OutcomesHold, OutcomeHolds, Unsettled, NothingDone,
     NoOutcome, NoRow, NoHash, NothingShown, Settled

(* A hash with its memory shows the price that its bids decide, and a      *)
(* close that reads it settles as they decide.                             *)
LEMMA KeyHasFate ==
  ASSUME SystemHolds, KeysFit, NEW a \in Auctions, ~wiped[a]
  PROVE  /\ hash[a].price = Fate(a).price
         /\ row[a].price = 0 => Agrees(Settlement(a, hash[a]), Fate(a))
<1> DEFINE n == Len(log[a])
           best == req[log[a][n].req]
<1>1. BestIs(hash[a], n, log[a], req)
  BY DEF SystemHolds, LadderHolds, LadderOf
<1>2. CASE n = 0
  <2>1. hash[a].leader = NoBidder /\ hash[a].price = 0
    BY <1>1, <1>2 DEF BestIs, KeysFit
  <2>2. Fate(a) = [status |-> "UNSOLD", price |-> 0]
    BY <1>2 DEF Fate, Decided
  <2> QED
    BY <2>1, <2>2 DEF Agrees, Settlement
<1>3. CASE n # 0
  <2>1. n \in 1..n
    BY <1>3 DEF SystemHolds, TypeOK, HistoryOK
  <2>2. hash[a].leader = best.bidder /\ best.bidder # NoBidder
    BY <1>1, <1>3, <2>1 DEF BestIs, SystemHolds, BiddersNamed
  <2>3. hash[a].price = Cents(best.amount)
    BY <1>1, <1>3 DEF BestIs
  <2>4. /\ Fate(a).price = Cents(best.amount)
        /\ Fate(a).status = IF MeetsReserve(Cents(best.amount), row[a].reserve)
                            THEN "SOLD" ELSE "UNSOLD"
    BY <1>3 DEF Fate, Decided
  <2> QED
    BY <2>2, <2>3, <2>4 DEF Agrees, Settlement
<1> QED
  BY <1>2, <1>3

(* As long as no bid is accepted the outcome stays decided.                *)
LEMMA FateStays ==
  ASSUME SystemHolds, [Next]_vars, NEW a \in Auctions, log'[a] = log[a],
         row[a].status # "absent"
  PROVE  Fate(a)' = Fate(a)
<1>1. row'[a].reserve = row[a].reserve
  BY RowsMoveOn DEF SystemHolds
<1>2. Len(log[a]) # 0 => /\ Len(log[a]) \in 1..Len(log[a])
                         /\ req'[log[a][Len(log[a])].req] = req[log[a][Len(log[a])].req]
  <2>1. Len(log[a]) \in Nat
    BY DEF SystemHolds, TypeOK, HistoryOK
  <2> QED
    BY <2>1, HistoryKept DEF SystemHolds
<1> QED
  BY <1>1, <1>2 DEF Fate, Decided

(* A row is settled only by what the session holds.                        *)
LEMMA SettlingStep ==
  ASSUME TypeOK, [Next]_vars, NEW a \in Auctions, row'[a].status \in Settled
  PROVE  \/ row'[a] = row[a]
         \/ /\ closeDone[a].status # "none"
            /\ row'[a].status = closeDone[a].status
            /\ row'[a].price = closeDone[a].price
<1>1. row[a] \in Row
  BY DEF TypeOK, DbOK
<1>2. CASE CommitStarts
  BY <1>1, <1>2 DEF CommitStarts, Row, Settled
<1>3. CASE CommitCloses
  BY <1>1, <1>3 DEF CommitCloses, Row
<1>4. ASSUME NEW b \in Auctions, CreateAuction(b)
      PROVE  row'[a] = row[a]
  <2>1. PICK sc \in Schedules, reserve \in Reserves, inc \in Increments :
           row' = [row EXCEPT ![b] = NewRow(sc, reserve, inc)]
    BY <1>4 DEF CreateAuction
  <2>2. NewRow(sc, reserve, inc).status \notin Settled
    BY DEF NewRow, Settled
  <2> QED
    BY <2>1, <2>2 DEF TypeOK, DbOK
<1> QED
  BY <1>2, <1>3, <1>4, RowWriters

(* A hash is marked only by the close of its auction.                      *)
LEMMA MarkingStep ==
  ASSUME TypeOK, JobsHold, [Next]_vars, NEW a \in Auctions,
         hash'[a].state \in Settled
  PROVE  \/ hash'[a] = hash[a]
         \/ /\ SettleCurrent /\ closeCur = a
            /\ hash'[a].state = Settlement(a, closeSnap).status
<1>1. hash'[a].state # "none" /\ hash'[a].state # "ACTIVE"
  BY DEF Settled
<1>2. ASSUME NEW b \in Auctions, CreateAuction(b) \/ CreateAuctionLosesCommit(b)
      PROVE  hash'[a] = hash[a]
  BY <1>1, <1>2, CreatedHash
<1>3. ASSUME NEW r \in Requests, BidAccepted(r)
      PROVE  hash'[a] = hash[a]
  BY <1>1, <1>3, AcceptedBid
<1>4. ASSUME NEW b \in Auctions, InitKey(b)
      PROVE  hash'[a] = hash[a]
  BY <1>1, <1>4, OpenedHash
<1>5. CASE SettleCurrent /\ MarkClosed
  <2>1. CASE closeCur = a
    <3>1. hash[a] \in Hash /\ hash \in [Auctions -> Hash]
      BY DEF TypeOK, RedisOK
    <3> QED
      BY <1>5, <2>1, <3>1 DEF MarkClosed, Hash
  <2>2. CASE closeCur # a
    BY <1>5, <2>2, MarkedHash
  <2> QED
    BY <2>1, <2>2
<1>6. CASE RedisLoss
  BY <1>1, <1>6 DEF RedisLoss, NoHash
<1> QED
  BY <1>2, <1>3, <1>4, <1>5, <1>6, HashWriters

(* What a close reads, and what it leaves in its session.                  *)
LEMMA SessionStep ==
  ASSUME TypeOK, [Next]_vars, NEW a \in Auctions
  PROVE  /\ closeCur' = a => CloseRead(a) \/ (closeCur = a /\ closeSnap' = closeSnap)
         /\ closeDone'[a].status # "none" =>
               \/ closeDone'[a] = closeDone[a]
               \/ closeCur = a /\ closeDone'[a] = Settlement(a, closeSnap)
<1>1. closeDone \in [Auctions -> Outcome] /\ a # NoAuction
  BY AuctionSystemAssumption DEF TypeOK, ClosesOK
<1>2. ASSUME NEW b \in Auctions, CloseRead(b)
      PROVE  closeCur' = b /\ closeDone' = closeDone
  BY <1>2 DEF CloseRead
<1>3. CASE SettleCurrent
  BY <1>1, <1>3 DEF SettleCurrent
<1>4. CASE AbandonCloses
  BY <1>1, <1>4 DEF AbandonCloses, NothingDone, NoOutcome
<1> QED
  BY <1>2, <1>3, <1>4, CloseWriters

(* A close reads the hash of an auction that has no outcome yet.           *)
LEMMA ReadDecides ==
  ASSUME SystemHolds, KeysFit, RowsUnpriced, NEW a \in Auctions, CloseRead(a), ~wiped[a]
  PROVE  /\ row[a].status = "ACTIVE" /\ log'[a] = log[a]
         /\ Agrees(Settlement(a, closeSnap), Fate(a))'
<1>1. /\ row[a].status = "ACTIVE" /\ closeSnap' = hash[a]
      /\ UNCHANGED <<row, log, req>>
  BY DEF CloseRead, Turn, SystemHolds, JobsHold, ClosesHold, dbVars, reqVars
<1>2. row[a].price = 0
  BY <1>1 DEF RowsUnpriced, Settled
<1>3. Agrees(Settlement(a, hash[a]), Fate(a))
  BY <1>2, KeyHasFate
<1>4. Settlement(a, closeSnap)' = Settlement(a, hash[a]) /\ Fate(a)' = Fate(a)
  BY <1>1 DEF Settlement, Fate
<1> QED
  BY <1>1, <1>3, <1>4 DEF Agrees

(* The system's step while no close has read the hash.                     *)
LEMMA UnsettledStep ==
  ASSUME SystemHolds, [Next]_vars, UNCHANGED shown, NEW a \in Auctions,
         Unsettled(a), closeCur' # a
  PROVE  Unsettled(a)'
<1>1. closeDone'[a].status = "none"
  BY SessionStep DEF SystemHolds, Unsettled
<1>2. row'[a].status \notin Settled
  BY SettlingStep DEF SystemHolds, Unsettled
<1>3. hash'[a].state \notin Settled
  BY MarkingStep DEF SystemHolds, Unsettled
<1> QED
  BY <1>1, <1>2, <1>3 DEF Unsettled

(* The step by which a close reads it.                                     *)
LEMMA DecidingStep ==
  ASSUME SystemHolds, KeysFit, RowsUnpriced, [Next]_vars, UNCHANGED shown,
         NEW a \in Auctions, Unsettled(a), closeCur' = a, ~wiped'[a]
  PROVE  AsDecided(a, Fate(a))'
<1>1. CloseRead(a)
  BY SessionStep DEF SystemHolds, Unsettled
<1>2. ~wiped[a]
  BY <1>1 DEF CloseRead
<1>3. UNCHANGED <<row, hash, closeDone>>
  BY <1>1 DEF CloseRead, dbVars, redisVars
<1>4. row[a].status = "ACTIVE" /\ Agrees(Settlement(a, closeSnap), Fate(a))'
  BY <1>1, <1>2, ReadDecides
<1> QED
  BY <1>3, <1>4 DEF Unsettled, AsDecided, ShownAs

(* The steps that follow, as long as the script accepts no other bid.      *)
LEMMA DecidedStep ==
  ASSUME SystemHolds, StoresHold, [Next]_vars, UNCHANGED shown,
         NEW a \in Auctions, AsDecided(a, Fate(a)), log'[a] = log[a], ~wiped[a],
         JobsHold', RowsUnpriced'
  PROVE  AsDecided(a, Fate(a))'
<1>1. Fate(a)' = Fate(a) /\ row'[a].status # "absent"
  BY FateStays, RowsMoveOn DEF AsDecided, SystemHolds
<1>2. closeCur' = a => Agrees(Settlement(a, closeSnap), Fate(a))'
  <2> SUFFICES ASSUME closeCur' = a PROVE Agrees(Settlement(a, closeSnap), Fate(a))'
    OBVIOUS
  <2>1. CASE CloseRead(a)
    BY <2>1, ReadDecides DEF StoresHold
  <2>2. CASE closeCur = a /\ closeSnap' = closeSnap
    <3>1. row[a].status = "ACTIVE" /\ row'[a].status = "ACTIVE"
      BY <2>2, AuctionSystemAssumption DEF SystemHolds, JobsHold, ClosesHold
    <3>2. row[a].price = 0 /\ row'[a].price = 0
      BY <3>1 DEF StoresHold, RowsUnpriced, Settled
    <3>3. row'[a].reserve = row[a].reserve
      BY <3>1, RowsMoveOn DEF SystemHolds
    <3>4. Settlement(a, closeSnap)' = Settlement(a, closeSnap)
      BY <2>2, <3>2, <3>3 DEF Settlement
    <3> QED
      BY <1>1, <2>2, <3>4 DEF AsDecided, Agrees
  <2> QED
    BY <2>1, <2>2, SessionStep DEF SystemHolds
<1>3. closeDone'[a].status # "none" => Agrees(closeDone'[a], Fate(a)')
  BY <1>1, SessionStep DEF SystemHolds, AsDecided
<1>4. row'[a].status \in Settled => Agrees(row'[a], Fate(a)')
  BY <1>1, SettlingStep DEF SystemHolds, AsDecided, Agrees
<1>5. hash'[a].state \in Settled => hash'[a].state = Fate(a)'.status
  BY <1>1, MarkingStep DEF SystemHolds, AsDecided, Agrees
<1> QED
  BY <1>1, <1>2, <1>3, <1>4, <1>5 DEF AsDecided, ShownAs

(* A new view shows what the hash says or, without one, the row.           *)
LEMMA ShowingStep ==
  ASSUME SystemHolds, StoresHold, ReadersHold, Read, UNCHANGED <<vars, late>>,
         NEW a \in Auctions, OutcomeHolds(a)
  PROVE  OutcomeHolds(a)'
<1>1. /\ UNCHANGED <<row, hash, log, req, wiped, closeCur, closeSnap, closeDone>>
      /\ UNCHANGED late /\ Fate(a)' = Fate(a)
      /\ Settlement(a, closeSnap)' = Settlement(a, closeSnap)
  BY DEF vars, dbVars, redisVars, ghostVars, reqVars, closeVars, Fate, Settlement
<1>2. CASE shown' = shown \/ shown'.auction # a
  BY <1>1, <1>2 DEF OutcomeHolds, Unsettled, AsDecided, ShownAs, Agrees
<1>3. CASE ViewHash /\ view.auction = a
  <2>1. shown' = Merge(a) /\ ViewFits
    BY <1>3 DEF ViewHash, ReadersHold, ViewHolds, Viewing
  <2>2. /\ Merge(a).live => /\ Merge(a).state = hash[a].state
                            /\ Merge(a).price = hash[a].price
        /\ ~Merge(a).live => Merge(a).state = view.row.status
    BY <2>1, MergeType DEF SystemHolds, ReadersHold
  <2>3. view.row.status \in Settled => row[a] = view.row
    BY <1>3, <2>1 DEF ViewFits
  <2>4. ~wiped[a] => hash[a].price = Fate(a).price
    BY KeyHasFate DEF StoresHold
  <2>5. Unsettled(a) => Unsettled(a)'
    BY <1>1, <2>1, <2>2, <2>3 DEF Unsettled
  <2>6. ~wiped[a] /\ AsDecided(a, Fate(a)) => AsDecided(a, Fate(a))'
    BY <1>1, <2>1, <2>2, <2>3, <2>4 DEF AsDecided, ShownAs, Agrees
  <2> QED
    BY <1>1, <2>5, <2>6 DEF OutcomeHolds
<1>4. CASE ViewHash /\ view.auction # a
  <2>1. shown'.auction = view.auction
    BY <1>4 DEF ViewHash, Merge
  <2> QED
    BY <1>2, <1>4, <2>1
<1>5. CASE NextPage \/ ViewHashError \/ \E b \in Auctions : FirstPage(b)
  <2>1. shown' = NothingShown
    BY <1>5 DEF NextPage, FirstPage, Page, ViewHashError
  <2> QED
    BY <1>2, <2>1, AuctionSystemAssumption DEF NothingShown
<1>6. CASE ViewBids \/ \E b \in Auctions : ViewRow(b)
  BY <1>2, <1>6 DEF ViewBids, ViewRow
<1> QED
  BY <1>3, <1>4, <1>5, <1>6 DEF Read

LEMMA OutcomesStep ==
  ASSUME SystemHolds, StoresHold, ReadersHold, OutcomesHold, [ReadersNext]_allVars,
         SystemHolds', StoresHold'
  PROVE  OutcomesHold'
<1> SUFFICES ASSUME NEW a \in Auctions PROVE OutcomeHolds(a)'
  BY DEF OutcomesHold
<1>1. OutcomeHolds(a)
  BY DEF OutcomesHold
<1>2. CASE Read /\ UNCHANGED <<vars, late>>
  BY <1>1, <1>2, ShowingStep
<1>3. CASE \/ Next /\ Watch /\ UNCHANGED readerVars
           \/ UNCHANGED allVars
  <2>1. [Next]_vars /\ UNCHANGED shown
    BY <1>3 DEF allVars, readerVars
  <2>2. late \in [Auctions -> {"open", "read", "late"}]
    BY DEF ReadersHold, ReadersTypeOK
  <2>3. /\ late'[a] = "open" => late[a] = "open" /\ closeCur' # a
        /\ late'[a] = "read" => \/ late[a] = "read" /\ log'[a] = log[a]
                                \/ late[a] = "open" /\ closeCur' = a
    <3>1. CASE Watch
      BY <2>2, <3>1 DEF Watch
    <3>2. CASE UNCHANGED allVars
      BY <1>1, <3>2 DEF allVars, vars, closeVars, ghostVars, OutcomeHolds, Unsettled
    <3> QED
      BY <1>3, <3>1, <3>2
  <2>4. late'[a] = "open" => Unsettled(a)'
    BY <1>1, <2>1, <2>3, UnsettledStep DEF OutcomeHolds
  <2>5. ASSUME late'[a] = "read", ~wiped'[a]
        PROVE  AsDecided(a, Fate(a))'
    <3>1. ~wiped[a]
      BY <2>1, <2>5, WipesStay DEF SystemHolds
    <3>2. CASE late[a] = "read" /\ log'[a] = log[a]
      BY <1>1, <2>1, <3>1, <3>2, DecidedStep DEF OutcomeHolds, SystemHolds, StoresHold
    <3>3. CASE late[a] = "open" /\ closeCur' = a
      BY <1>1, <2>1, <2>5, <3>3, DecidingStep DEF OutcomeHolds, StoresHold
    <3> QED
      BY <2>3, <2>5, <3>2, <3>3
  <2> QED
    BY <2>4, <2>5 DEF OutcomeHolds
<1> QED
  BY <1>2, <1>3 DEF ReadersNext

LEMMA OutcomesInvariant ==
  ReadersSpec => [](SystemHolds /\ ReadersHold /\ OutcomesHold)
<1>1. /\ SystemHolds /\ StoresHold /\ ReadersHold /\ OutcomesHold
      /\ [ReadersNext]_allVars /\ (SystemHolds /\ StoresHold)'
      => OutcomesHold'
  BY OutcomesStep
<1> QED
  BY <1>1, OutcomesInit, ReadersInvariant, PTL DEF ReadersSpec

(* As long as no bid comes late the last close to read the hash has read   *)
(* every bid, wiped or not.                                                *)
SeenAll == \A a \in Auctions : late[a] = "read" => seen[a] = Len(log[a])

LEMMA SeenAllStep ==
  ASSUME SystemHolds, ReadersHold, OutcomesHold, SeenAll, [ReadersNext]_allVars
  PROVE  SeenAll'
<1>1. CASE UNCHANGED <<vars, late>>
  BY <1>1 DEF vars, ghostVars, SeenAll
<1>2. CASE Next /\ Watch
  <2> SUFFICES ASSUME NEW a \in Auctions, late'[a] = "read"
               PROVE  seen'[a] = Len(log'[a])
    BY DEF SeenAll
  <2>1. \/ late[a] = "read" /\ log'[a] = log[a]
        \/ late[a] = "open" /\ closeCur' = a
    BY <1>2 DEF Watch, ReadersHold, ReadersTypeOK
  <2>2. ASSUME NEW b \in Auctions, CloseRead(b)
        PROVE  /\ log' = log
               /\ seen'[a] = IF a = b THEN Len(log[a]) ELSE seen[a]
    BY <2>2 DEF CloseRead, SystemHolds, TypeOK, HistoryOK
  <2>3. CASE late[a] = "read" /\ log'[a] = log[a]
    BY <1>2, <2>2, <2>3, SeenWriters DEF SeenAll
  <2>4. CASE late[a] = "open" /\ closeCur' = a
    <3>1. Unsettled(a)
      BY <2>4 DEF OutcomesHold, OutcomeHolds
    <3>2. CloseRead(a)
      BY <1>2, <2>4, <3>1, SessionStep DEF SystemHolds, Unsettled
    <3> QED
      BY <2>2, <3>2
  <2> QED
    BY <2>1, <2>3, <2>4
<1> QED
  BY <1>1, <1>2 DEF ReadersNext, allVars

(* The only accepted bids that do not count are those the script accepts   *)
(* after a close has read the hash: where there are none, the close of a   *)
(* settled auction has read them all, whatever failed or was repeated.     *)
THEOREM OnlyLateBidsAreMissed ==
  ReadersSpec => [](\A a \in Auctions :
                      row[a].status \in Settled /\ late[a] # "late"
                          => seen[a] = Len(log[a]))
<1>1. ReadersInit => SeenAll
  BY DEF ReadersInit, SeenAll
<1>2. SystemHolds /\ ReadersHold /\ OutcomesHold /\ SeenAll /\ [ReadersNext]_allVars
         => SeenAll'
  BY SeenAllStep
<1>3. ReadersHold /\ OutcomesHold /\ SeenAll =>
        \A a \in Auctions : row[a].status \in Settled /\ late[a] # "late"
            => seen[a] = Len(log[a])
  BY DEF ReadersHold, ReadersTypeOK, OutcomesHold, OutcomeHolds, Unsettled, SeenAll
<1> QED
  BY <1>1, <1>2, <1>3, OutcomesInvariant, PTL DEF ReadersSpec

(* A client that is shown a settled auction is shown the outcome that the  *)
(* table records, also when the close's commit fails after the hash was    *)
(* marked and a later close settles the auction again.                     *)
THEOREM ShownOutcomesAreKept == ReadersSpec => []ShownOutcomeIsKept
<1>1. ReadersHold /\ OutcomesHold => ShownOutcomeIsKept
  <2> SUFFICES ASSUME ReadersHold, OutcomesHold, NEW a, a = shown.auction,
                      shown.state \in Settled, row[a].status \in Settled,
                      ~wiped[a], late[a] # "late"
               PROVE  /\ row[a].status = shown.state
                      /\ shown.live => row[a].price = shown.price
    BY DEF ShownOutcomeIsKept
  <2>1. a \in Auctions
    BY DEF ReadersHold, ReadersTypeOK, Shown, ViewHolds, ShownFits, NothingShown, Settled
  <2>2. late[a] \in {"open", "read"} /\ OutcomeHolds(a)
    BY <2>1 DEF ReadersHold, ReadersTypeOK, OutcomesHold
  <2>3. AsDecided(a, Fate(a))
    BY <2>2 DEF OutcomeHolds, Unsettled
  <2> QED
    BY <2>3 DEF AsDecided, ShownAs, Agrees
<1> QED
  BY <1>1, OutcomesInvariant, PTL

(* The highest of all accepted bids decides, unless one was accepted after *)
(* a close had read the hash.                                              *)
THEOREM HighestBidsCount == ReadersSpec => []HighestBidCounts
<1>1. SystemHolds /\ ReadersHold /\ OutcomesHold => HighestBidCounts
  <2> SUFFICES ASSUME SystemHolds, ReadersHold, OutcomesHold, NEW a \in Auctions,
                      row[a].status \in Settled, ~wiped[a], late[a] # "late"
               PROVE  /\ \A i \in 1..Len(log[a]) : Offer(log[a][i].req) <= row[a].price
                      /\ row[a].price > row[a].reserve => row[a].status = "SOLD"
    BY DEF HighestBidCounts
  <2> DEFINE n == Len(log[a])
             best == log[a][n].req
  <2>1. late[a] \in {"open", "read"} /\ OutcomeHolds(a)
    BY DEF ReadersHold, ReadersTypeOK, OutcomesHold
  <2>2. row[a].price = Fate(a).price /\ row[a].status = Fate(a).status
    BY <2>1 DEF OutcomeHolds, Unsettled, AsDecided, Agrees
  <2>3. n \in Nat /\ row[a].reserve \in Nat /\ row[a].inc \in Nat
    BY DEF SystemHolds, TypeOK, HistoryOK, DbOK, Row
  <2>4. CASE n = 0
    BY <2>2, <2>3, <2>4 DEF Fate, Decided
  <2>5. CASE n # 0
    <3>1. /\ Fate(a).price = Offer(best)
          /\ Fate(a).status = IF MeetsReserve(Offer(best), row[a].reserve)
                              THEN "SOLD" ELSE "UNSOLD"
      BY <2>5 DEF Fate, Decided, Offer
    <3>2. n \in 1..n
      BY <2>3, <2>5
    <3>3. \A i \in 1..n : Offer(log[a][i].req) \in Nat
      <4> SUFFICES ASSUME NEW i \in 1..n PROVE Offer(log[a][i].req) \in Nat
        OBVIOUS
      <4>1. log[a][i] \in Entry
        BY DEF SystemHolds, TypeOK, HistoryOK
      <4> QED
        BY <4>1, OfferType DEF Entry, SystemHolds
    <3>4. \A i \in 1..n : i < n => Offer(best) >= Offer(log[a][i].req) + row[a].inc
      BY <3>2 DEF SystemHolds, LadderHolds, LadderOf
    <3>5. \A i \in 1..n : Offer(log[a][i].req) <= Offer(best)
      <4> SUFFICES ASSUME NEW i \in 1..n PROVE Offer(log[a][i].req) <= Offer(best)
        OBVIOUS
      <4>1. CASE i = n
        BY <3>2, <3>3, <4>1
      <4>2. CASE i < n
        <5>1. Offer(best) \in Nat /\ Offer(log[a][i].req) \in Nat
          BY <3>2, <3>3
        <5>2. Offer(best) >= Offer(log[a][i].req) + row[a].inc
          BY <3>4, <4>2
        <5> QED
          BY <2>3, <5>1, <5>2
      <4> QED
        BY <2>3, <4>1, <4>2
    <3>6. row[a].price > row[a].reserve => row[a].status = "SOLD"
      BY <2>2, <3>1 DEF MeetsReserve
    <3> QED
      BY <2>2, <3>1, <3>5, <3>6
  <2> QED
    BY <2>4, <2>5
<1> QED
  BY <1>1, OutcomesInvariant, PTL

(* What an auction comes to, from its accepted bids alone.                 *)
WonByBest(a) ==
    IF log[a] = << >>
    THEN row[a].status = "UNSOLD" /\ row[a].winner = NoBidder
    ELSE LET best == log[a][Len(log[a])].req
             sold == Offer(best) >= row[a].reserve
         IN  /\ row[a].price = Offer(best)
             /\ \A i \in 1..Len(log[a]) : Offer(log[a][i].req) <= Offer(best)
             /\ row[a].status = IF sold THEN "SOLD" ELSE "UNSOLD"
             /\ row[a].winner = IF sold THEN req[best].bidder ELSE NoBidder

(* The whole promise of an auction, and all it takes: where no fault makes *)
(* Redis forget, no price lies below its decimal as a double and no bid is *)
(* accepted after a close has read the hash, the table records the highest *)
(* of all accepted bids, sold to its bidder if it meets the reserve.       *)
THEOREM BestBidWins ==
  ASSUME Steady, FloatBelow = {}
  PROVE  ReadersSpec => [](\A a \in Auctions :
                             row[a].status \in Settled /\ late[a] # "late"
                                 => WonByBest(a))
<1> DEFINE Kept    == \A a \in Auctions : ~wiped[a]
           AllSeen == \A a \in Auctions : row[a].status \in Settled /\ late[a] # "late"
                                            => seen[a] = Len(log[a])
           Won     == \A a \in Auctions : row[a].status \in Settled /\ late[a] # "late"
                                            => WonByBest(a)
<1>1. TypeOK /\ ClosesFit /\ HighestBidCounts /\ Kept /\ AllSeen => Won
  <2> SUFFICES ASSUME TypeOK, ClosesFit, HighestBidCounts, Kept, AllSeen,
                      NEW a \in Auctions, row[a].status \in Settled, late[a] # "late"
               PROVE  WonByBest(a)
    OBVIOUS
  <2> DEFINE n == Len(log[a])
             best == log[a][n].req
  <2>1. FitsBest(row[a], n, log[a], req, row[a].reserve)
    BY DEF ClosesFit, CloseFits
  <2>2. CASE log[a] = << >>
    BY <2>1, <2>2 DEF FitsBest, WonByBest
  <2>3. CASE log[a] # << >>
    <3>1. n # 0
      BY <2>3 DEF TypeOK, HistoryOK
    <3>2. row[a].price \in Nat /\ row[a].reserve \in Nat
      BY DEF TypeOK, DbOK, Row
    <3>3. MeetsReserve(row[a].price, row[a].reserve) <=> row[a].price >= row[a].reserve
      BY <3>2 DEF MeetsReserve
    <3>4. /\ row[a].price = Offer(best)
          /\ row[a].winner = IF row[a].price >= row[a].reserve THEN req[best].bidder
                             ELSE NoBidder
          /\ row[a].status = IF row[a].price >= row[a].reserve THEN "SOLD" ELSE "UNSOLD"
      BY <2>1, <3>1, <3>3 DEF FitsBest, Offer
    <3>5. \A i \in 1..n : Offer(log[a][i].req) <= row[a].price
      BY DEF HighestBidCounts
    <3> QED
      BY <2>3, <3>4, <3>5 DEF WonByBest
  <2> QED
    BY <2>2, <2>3
<1>2. ReadersSpec => []Kept
  BY ReadersRefine, MemoryIsKept, PTL
<1> QED
  BY <1>1, <1>2, ReadersRefine, ClosesInvariant, HighestBidsCount, OnlyLateBidsAreMissed, PTL

-----------------------------------------------------------------------------
(* Two views of one auction.                                               *)

(* The inductive invariant, while Redis keeps its data.  What was shown    *)
(* from the hash, the hash has reached or passed and still has; what was   *)
(* shown from the row, the row has reached or passed, and so has the row   *)
(* of a view in progress; and a settled auction without a hash gets none.  *)
MovesHold ==
    LET a == shown.auction
    IN  a # NoAuction =>
          IF shown.live
          THEN /\ hash[a].state # "none" /\ Rank(shown.state) <= Rank(hash[a].state)
               /\ ~wiped[a] => shown.price <= hash[a].price
          ELSE /\ Rank(shown.state) <= Rank(row[a].status)
               /\ shown.state \in Settled => hash[a].state = "none"
               /\ Viewing /\ view.auction = a
                     => Rank(shown.state) <= Rank(view.row.status)

(* A hash goes from ACTIVE to settled, its price rises, and it is not      *)
(* deleted; a repeated start writes it anew, which only costs it bids.     *)
LEMMA LiveKeyMoves ==
  ASSUME SystemHolds, KeysFit, [Next]_vars, "redis_loss" \notin FaultKinds,
         NEW a \in Auctions, hash[a].state # "none"
  PROVE  /\ hash'[a].state # "none" /\ Rank(hash[a].state) <= Rank(hash'[a].state)
         /\ ~wiped'[a] => hash[a].price <= hash'[a].price
<1>1. /\ hash[a].state \in HashState /\ hash[a].price \in Nat /\ hash[a].inc \in Nat
      /\ hash \in [Auctions -> Hash]
  BY DEF SystemHolds, TypeOK, RedisOK, Hash
<1>2. CASE hash'[a] = hash[a]
  BY <1>1, <1>2, Ranks
<1>3. ASSUME NEW b \in Auctions, CreateAuction(b) \/ CreateAuctionLosesCommit(b)
      PROVE  hash'[a] = hash[a]
  <2>1. b # a
    BY <1>3 DEF CreateAuction, CreateAuctionLosesCommit, Listable
  <2> QED
    BY <1>3, <2>1, CreatedHash DEF SystemHolds
<1>4. ASSUME NEW r \in Requests, BidAccepted(r)
      PROVE  \/ hash'[a] = hash[a]
             \/ /\ hash[a].state = "ACTIVE" /\ hash'[a].state = "ACTIVE"
                /\ hash[a].price <= hash'[a].price
  <2>1. CASE req[r].auction = a
    <3>1. /\ hash[a].state = "ACTIVE" /\ hash'[a].state = "ACTIVE"
          /\ hash'[a].price = Offer(r) /\ Offer(r) >= hash[a].price + hash[a].inc
      BY <1>4, <2>1, AcceptedBid DEF SystemHolds
    <3>2. Offer(r) \in Nat
      BY OfferType DEF SystemHolds
    <3> QED
      BY <1>1, <3>1, <3>2
  <2>2. CASE req[r].auction # a
    BY <1>4, <2>2, AcceptedBid DEF SystemHolds
  <2> QED
    BY <2>1, <2>2
<1>5. ASSUME NEW b \in Auctions, b \in startTodo, InitKey(b), b = a
      PROVE  /\ hash[a].state = "ACTIVE" /\ hash'[a].state = "ACTIVE"
             /\ ~wiped'[a] => hash[a].price = 0 /\ hash'[a].price = 0
  <2>1. row[a].status = "UPCOMING"
    BY <1>5 DEF SystemHolds, JobsHold, StartsHold
  <2>2. hash[a].state = "ACTIVE"
    BY <1>1, <2>1 DEF SystemHolds, TimesHold, HashFits, HashState
  <2>3. hash'[a].state = "ACTIVE" /\ hash'[a].price = 0
    BY <1>1, <1>5 DEF InitKey, InitHash
  <2>4. ASSUME ~wiped'[a]
        PROVE  hash[a].price = 0
    <3>1. wiped'[a] = (wiped[a] \/ log[a] # << >>)
      BY <1>5 DEF InitKey, Forgets, SystemHolds, TypeOK, HistoryOK
    <3>2. ~wiped[a] /\ log[a] = << >>
      BY <2>4, <3>1, Zenon
    <3>3. Len(log[a]) = 0
      BY <3>2
    <3>4. hash[a].leader = NoBidder
      BY <3>2, <3>3 DEF SystemHolds, LadderHolds, LadderOf, BestIs
    <3> QED
      BY <3>4 DEF KeysFit
  <2> QED
    BY <2>2, <2>3, <2>4
<1>6. ASSUME NEW b \in Auctions, InitKey(b), b # a
      PROVE  hash'[a] = hash[a]
  BY <1>6, OpenedHash DEF SystemHolds
<1>7. CASE SettleCurrent /\ MarkClosed
  <2>1. closeCur = a \/ hash'[a] = hash[a]
    BY <1>7, MarkedHash DEF SystemHolds
  <2>2. CASE closeCur = a
    <3>1. hash'[a].state \in Settled /\ hash'[a].price = hash[a].price
      BY <1>7, <2>2, MarkedHash DEF SystemHolds
    <3> QED
      BY <1>1, <3>1, Ranks DEF Settled
  <2> QED
    BY <1>2, <2>1, <2>2
<1>8. ~RedisLoss
  BY DEF RedisLoss, Fault
<1> QED
  BY <1>1, <1>2, <1>3, <1>4, <1>5, <1>6, <1>7, <1>8, HashWriters, Ranks

(* The hash of a settled auction is not created anew.                      *)
LEMMA SettledKeyStays ==
  ASSUME SystemHolds, [Next]_vars, "redis_loss" \notin FaultKinds,
         NEW a \in Auctions, row[a].status \in Settled, hash[a].state = "none"
  PROVE  hash'[a].state = "none"
<1>1. row[a].status \notin {"absent", "UPCOMING", "ACTIVE"}
  BY DEF Settled
<1>2. closeCur # a
  BY <1>1, AuctionSystemAssumption DEF SystemHolds, JobsHold, ClosesHold
<1>3. ~RedisLoss
  BY DEF RedisLoss, Fault
<1> QED
  BY <1>1, <1>2, <1>3, QuietKey DEF SystemHolds

(* What the system does between two views.                                 *)
LEMMA MovesWait ==
  ASSUME SystemHolds, KeysFit, ReadersHold, MovesHold, [Next]_vars,
         UNCHANGED readerVars, "redis_loss" \notin FaultKinds
  PROVE  MovesHold'
<1> DEFINE a == shown.auction
<1> SUFFICES ASSUME a # NoAuction PROVE MovesHold'
  BY DEF MovesHold, readerVars
<1>1. a \in Auctions /\ shown.price \in Nat /\ row[a].status # "absent"
  BY DEF ReadersHold, ReadersTypeOK, Shown, ViewHolds, ShownFits
<1>2. UNCHANGED <<shown, view, doing>>
  BY DEF readerVars
<1>3. hash[a].price \in Nat /\ hash'[a].price \in Nat
  <2>1. TypeOK'
    BY TypeStep DEF SystemHolds
  <2> QED
    BY <1>1, <2>1 DEF SystemHolds, TypeOK, RedisOK, Hash
<1>4. ~wiped'[a] => ~wiped[a]
  BY <1>1, WipesStay DEF SystemHolds
<1>5. CASE shown.live
  <2>1. /\ hash[a].state # "none" /\ Rank(shown.state) <= Rank(hash[a].state)
        /\ ~wiped[a] => shown.price <= hash[a].price
    BY <1>5 DEF MovesHold
  <2>2. /\ hash'[a].state # "none" /\ Rank(hash[a].state) <= Rank(hash'[a].state)
        /\ ~wiped'[a] => hash[a].price <= hash'[a].price
    BY <1>1, <2>1, LiveKeyMoves
  <2>3. /\ Rank(shown.state) <= Rank(hash'[a].state)
        /\ ~wiped'[a] => shown.price <= hash'[a].price
    BY <1>1, <1>3, <1>4, <2>1, <2>2, Ranks
  <2> QED
    BY <1>2, <1>5, <2>2, <2>3 DEF MovesHold
<1>6. CASE ~shown.live
  <2>1. /\ Rank(shown.state) <= Rank(row[a].status)
        /\ shown.state \in Settled => hash[a].state = "none"
        /\ Viewing /\ view.auction = a => Rank(shown.state) <= Rank(view.row.status)
    BY <1>6 DEF MovesHold
  <2>2. Rank(shown.state) <= Rank(row'[a].status)
    BY <1>1, <2>1, RowsRankHigher, Ranks DEF SystemHolds
  <2>3. ASSUME shown.state \in Settled
        PROVE  hash'[a].state = "none"
    <3>1. Rank(row[a].status) = 3
      BY <2>1, <2>3, Ranks DEF Settled
    <3>2. row[a].status \in Settled
      BY <1>1, <3>1, Ranks DEF SystemHolds, TypeOK, DbOK, Row
    <3> QED
      BY <1>1, <2>1, <2>3, <3>2, SettledKeyStays
  <2> QED
    BY <1>2, <1>6, <2>1, <2>2, <2>3 DEF MovesHold, Viewing
<1> QED
  BY <1>5, <1>6

(* A client's own step.                                                    *)
LEMMA MovesRead ==
  ASSUME SystemHolds, ReadersHold, MovesHold, Read, UNCHANGED <<vars, late>>
  PROVE  MovesHold'
<1>1. UNCHANGED <<row, hash, wiped>>
  BY DEF vars, dbVars, redisVars, ghostVars
<1>2. CASE NextPage \/ ViewHashError \/ \E b \in Auctions : FirstPage(b)
  <2>1. shown' = NothingShown
    BY <1>2 DEF NextPage, FirstPage, Page, ViewHashError
  <2> QED
    BY <2>1 DEF MovesHold, NothingShown
<1>3. ASSUME NEW b \in Auctions, ViewRow(b)
      PROVE  MovesHold'
  <2>1. /\ UNCHANGED shown /\ view'.auction = b /\ view'.row = row[b]
    BY <1>3 DEF ViewRow
  <2> QED
    BY <1>1, <2>1 DEF MovesHold
<1>4. CASE ViewBids
  <2>1. /\ UNCHANGED shown /\ view'.auction = view.auction
        /\ view'.row = view.row /\ doing = "counting"
    BY <1>4 DEF ViewBids, ReadersHold, ReadersTypeOK, View
  <2> QED
    BY <1>1, <2>1 DEF MovesHold, Viewing
<1>5. CASE ViewHash
  <2> DEFINE a == view.auction
  <2>1. /\ a \in Auctions /\ ViewFits /\ shown' = Merge(a)
        /\ doing' = "nothing"
    BY <1>5 DEF ViewHash, ReadersHold, ReadersTypeOK, ViewHolds, Viewing
  <2>2. /\ Merge(a) \in Shown /\ Merge(a).auction = a
        /\ Merge(a).live <=> hash[a].state # "none"
        /\ Merge(a).live => /\ Merge(a).state = hash[a].state
                            /\ Merge(a).price = hash[a].price
        /\ ~Merge(a).live => Merge(a).state = view.row.status
    BY <2>1, MergeType DEF SystemHolds, ReadersHold
  <2>3. hash[a].price \in Nat
    BY <2>1 DEF SystemHolds, TypeOK, RedisOK, Hash
  <2> HIDE DEF a
  <2>4. CASE Merge(a).live
    BY <1>1, <2>1, <2>2, <2>3, <2>4, Ranks DEF MovesHold
  <2>5. CASE ~Merge(a).live
    <3>1. Rank(view.row.status) <= Rank(row[a].status)
      BY <2>1 DEF ViewFits, a
    <3> QED
      BY <1>1, <2>1, <2>2, <2>5, <3>1 DEF MovesHold, Viewing
  <2> QED
    BY <2>4, <2>5
<1> QED
  BY <1>2, <1>3, <1>4, <1>5 DEF Read

(* A view of the auction that was shown last.                              *)
LEMMA NextView ==
  ASSUME SystemHolds, ReadersHold, MovesHold, [ReadersNext]_allVars,
         shown.auction # NoAuction, shown'.auction = shown.auction, shown' # shown
  PROVE  /\ Rank(shown.state) <= Rank(shown'.state)
         /\ shown.live /\ ~wiped[shown.auction]
               => shown'.live /\ shown.price <= shown'.price
<1>1. ViewHash
  <2>1. Read
    BY DEF ReadersNext, allVars, readerVars
  <2>2. shown' # NothingShown
    BY DEF NothingShown
  <2> QED
    BY <2>1, <2>2 DEF Read, NextPage, FirstPage, Page, ViewRow, ViewBids, ViewHashError
<1> DEFINE a == shown.auction
<1>2. /\ view.auction \in Auctions /\ ViewFits /\ Viewing
      /\ shown' = Merge(view.auction)
  BY <1>1 DEF ViewHash, ReadersHold, ReadersTypeOK, ViewHolds, Viewing
<1>3. /\ Merge(view.auction).auction = view.auction
      /\ Merge(view.auction).live <=> hash[view.auction].state # "none"
      /\ Merge(view.auction).live =>
            /\ Merge(view.auction).state = hash[view.auction].state
            /\ Merge(view.auction).price = hash[view.auction].price
      /\ ~Merge(view.auction).live => Merge(view.auction).state = view.row.status
  BY <1>2, MergeType DEF SystemHolds, ReadersHold
<1>4. view.auction = a
  BY <1>2, <1>3
<1>5. CASE shown.live
  BY <1>2, <1>3, <1>4, <1>5 DEF MovesHold
<1>6. CASE ~shown.live
  <2>1. /\ Rank(shown.state) <= Rank(view.row.status)
        /\ shown.state \in Settled => hash[a].state = "none"
    BY <1>2, <1>4, <1>6 DEF MovesHold
  <2>2. CASE hash[a].state = "none"
    BY <1>2, <1>3, <1>4, <1>6, <2>1, <2>2
  <2>3. CASE hash[a].state # "none"
    <3>1. shown.state \in {"UPCOMING", "ACTIVE", "none"}
      BY <2>1, <2>3 DEF ReadersHold, ReadersTypeOK, Shown, HashState
    <3>2. shown.state # "none"
      BY DEF ReadersHold, ViewHolds, ShownFits
    <3>3. hash[a].state \in {"ACTIVE"} \cup Settled
      BY <1>2, <1>4, <2>3 DEF SystemHolds, TypeOK, RedisOK, Hash, HashState
    <3>4. Rank(shown.state) <= 2 /\ Rank(hash[a].state) >= 2
      BY <3>1, <3>2, <3>3, Ranks DEF Settled
    <3>5. shown'.state = hash[a].state
      BY <1>2, <1>3, <1>4, <2>3
    <3>6. Rank(shown.state) <= Rank(shown'.state)
      BY <3>4, <3>5, Ranks
    <3> QED
      BY <1>6, <3>6
  <2> QED
    BY <2>2, <2>3
<1> QED
  BY <1>5, <1>6

(* A client that asks again is never taken back, as long as Redis keeps    *)
(* its data: what the hash has shown the hash still has, through repeated  *)
(* starts and closes.  A Redis that restarts empty does take it back, for  *)
(* then the row, which is behind the hash, is shown again.                 *)
THEOREM ViewsOnlyMoveForward ==
  "redis_loss" \notin FaultKinds /\ ReadersSpec => ViewsMoveForward
<1> SUFFICES ASSUME "redis_loss" \notin FaultKinds
             PROVE  ReadersSpec => ViewsMoveForward
  OBVIOUS
<1>1. ReadersInit => MovesHold
  BY DEF ReadersInit, MovesHold, NothingShown
<1>2. SystemHolds /\ StoresHold /\ ReadersHold /\ MovesHold /\ [ReadersNext]_allVars
      => MovesHold'
  <2> SUFFICES ASSUME SystemHolds, StoresHold, ReadersHold, MovesHold,
                      [ReadersNext]_allVars
               PROVE  MovesHold'
    OBVIOUS
  <2>1. CASE Read /\ UNCHANGED <<vars, late>>
    BY <2>1, MovesRead
  <2>2. CASE \/ Next /\ UNCHANGED readerVars
             \/ UNCHANGED allVars
    <3>1. [Next]_vars /\ UNCHANGED readerVars
      BY <2>2 DEF allVars
    <3> QED
      BY <3>1, MovesWait DEF StoresHold
  <2> QED
    BY <2>1, <2>2 DEF ReadersNext
<1>3. SystemHolds /\ ReadersHold /\ MovesHold /\ [ReadersNext]_allVars =>
      [LET a == shown.auction
       IN  a # NoAuction /\ shown'.auction = a =>
              /\ Rank(shown.state) <= Rank(shown'.state)
              /\ shown.live /\ ~wiped[a]
                    => shown'.live /\ shown.price <= shown'.price]_shown
  BY NextView
<1> QED
  BY <1>1, <1>2, <1>3, ReadersInvariant, PTL DEF ReadersSpec, ViewsMoveForward

=============================================================================
