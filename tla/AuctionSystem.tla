--------------------------- MODULE AuctionSystem ---------------------------
(***************************************************************************)
(* The bid path and the auction lifecycle of one application process, with *)
(* its two stores.  PostgreSQL holds rows that change when a session       *)
(* commits; Redis holds the auction hashes, the bid streams and the script *)
(* and changes command by command.  Bid requests and the two scheduler     *)
(* jobs are coroutines: each action is what one runs between two awaits at *)
(* which the others can be scheduled.                                      *)
(***************************************************************************)
EXTENDS BidScript, Sequences, FiniteSets

CONSTANTS
    Auctions, Requests,
    NoAuction,         \* the close job is between two auctions
    Users,             \* the bidders that have a row in "user"
    Amounts,           \* amounts offered, in mills
    Reserves,          \* reserve prices, in mills; 0 stands for no reserve
    Increments,        \* minimum increments, in mills
    Schedules,         \* [start, end] pairs, in ticks
    ProxyChoices,      \* whether a bid carries a proxy_max
    PastWindow,        \* how far in the past a start may lie (five minutes)
    BatchSize,         \* LIMIT of the scheduler's queries
    FloatBelow,        \* cents whose double lies below the decimal
    ColumnMax,         \* highest price Numeric(12, 2) can hold, in cents
    StreamLimit,       \* MAXLEN of a bid stream (10000)
    CommitAfterReply,  \* FastAPI >= 0.118 leaves get_session after the response
    MaxTime,           \* bound: last tick
    FaultKinds,        \* faults that can happen
    MaxFaults          \* bound: how many faults can happen

AllFaults == {"redis_error", "redis_loss", "commit_error", "job_commit_error",
              "app_crash"}

ASSUME AuctionSystemAssumption ==
    /\ NoAuction \notin Auctions
    /\ Users \subseteq Bidders
    /\ Amounts \subseteq Nat /\ Reserves \subseteq Nat /\ Increments \subseteq Nat
    /\ \A m \in Amounts \cup Reserves \cup Increments : m % 10 # 5
    /\ Schedules \subseteq [start : Nat, end : Nat]
    /\ ProxyChoices \subseteq BOOLEAN
    /\ PastWindow \in Nat /\ BatchSize \in Nat \ {0}
    /\ FloatBelow \subseteq Nat \ {0}
    /\ ColumnMax \in Nat /\ StreamLimit \in Nat \ {0}
    /\ \A m \in Reserves \cup Increments : Cents(m) <= ColumnMax
    /\ CommitAfterReply \in BOOLEAN
    /\ MaxTime \in Nat /\ MaxFaults \in Nat /\ FaultKinds \subseteq AllFaults

VARIABLES
    now, faults,
    row, bidRow, proxy,                         \* PostgreSQL, committed
    hash, stream, scriptReady,                  \* Redis
    pc, req, res, told,                         \* bid requests
    startTodo, startDone,                       \* poll_due_starts
    closeTodo, closeCur, closeSnap, closeDone,  \* poll_due_closes
    log, seen, wiped                            \* history variables

clockVars == <<now, faults>>
dbVars    == <<row, bidRow, proxy>>
redisVars == <<hash, stream, scriptReady>>
reqVars   == <<pc, req, res, told>>
startVars == <<startTodo, startDone>>
closeVars == <<closeTodo, closeCur, closeSnap, closeDone>>
ghostVars == <<log, seen, wiped>>
vars == <<clockVars, dbVars, redisVars, reqVars, startVars, closeVars, ghostVars>>

-----------------------------------------------------------------------------
(* Values.                                                                 *)

AnyBidder == Bidders \cup {NoBidder}

Row == [status : {"absent", "UPCOMING", "ACTIVE"} \cup Settled,
        start : Nat, end : Nat, reserve : Nat, inc : Nat,
        price : Nat, winner : AnyBidder]

NoRow == [status |-> "absent", start |-> 0, end |-> 0, reserve |-> 0, inc |-> 0,
          price |-> 0, winner |-> NoBidder]

BidRow == [status : {"none", "ACCEPTED", "REJECTED"}, seq : Nat]

Req == [auction : Auctions, bidder : Bidders, amount : Amounts,
        proxy : ProxyChoices, ts : Nat]

NoReq == [auction |-> NoAuction, bidder |-> NoBidder, amount |-> 0,
          proxy |-> FALSE, ts |-> 0]

(* inserts: the session holds an uncommitted proxy_bid INSERT.             *)
Res == [verdict : Rejections \cup {"ACCEPTED", "none"}, seq : Nat, inserts : BOOLEAN]

NoRes == [verdict |-> "none", seq |-> 0, inserts |-> FALSE]

Outcome == [status : {"none"} \cup Settled, price : Nat, winner : AnyBidder]

NoOutcome == [status |-> "none", price |-> 0, winner |-> NoBidder]

PCs == {"idle", "received", "appended", "rejected", "judged", "inserting",
        "finishing", "replied", "done"}

Tolds == {"none", "ACCEPTED", "REJECTED", "NOT_FOUND", "ERROR"}

(* History: the bids the script accepted, with the sequence number given.  *)
Entry == [req : Requests, seq : Nat]

ClockOK == now \in 0..MaxTime /\ faults \in 0..MaxFaults

DbOK == /\ row \in [Auctions -> Row]
        /\ bidRow \in [Requests -> BidRow]
        /\ proxy \subseteq Auctions \X Bidders

RedisOK == /\ hash \in [Auctions -> Hash]
           /\ stream \in [Auctions -> Seq(Requests)]
           /\ scriptReady \in BOOLEAN

RequestsOK == /\ pc \in [Requests -> PCs]
              /\ req \in [Requests -> Req \cup {NoReq}]
              /\ res \in [Requests -> Res]
              /\ told \in [Requests -> Tolds]
              /\ \A r \in Requests : pc[r] \notin {"idle", "done"} => req[r] \in Req

StartsOK == startTodo \subseteq Auctions /\ startDone \subseteq Auctions

ClosesOK == /\ closeTodo \subseteq Auctions
            /\ closeCur \in Auctions \cup {NoAuction}
            /\ closeSnap \in Hash
            /\ closeDone \in [Auctions -> Outcome]

HistoryOK == /\ log \in [Auctions -> Seq(Entry)]
             /\ seen \in [Auctions -> Nat]
             /\ wiped \in [Auctions -> BOOLEAN]

(* Types; a request that is being served has its arguments.                *)
TypeOK == /\ ClockOK /\ DbOK /\ RedisOK /\ RequestsOK
          /\ StartsOK /\ ClosesOK /\ HistoryOK

-----------------------------------------------------------------------------
(* Faults and the clock.                                                   *)

Fault(kind) == /\ kind \in FaultKinds
               /\ faults < MaxFaults
               /\ faults' = faults + 1
               /\ UNCHANGED now

NoFault == UNCHANGED clockVars

Tick == /\ now < MaxTime
        /\ now' = now + 1
        /\ UNCHANGED <<faults, dbVars, redisVars, reqVars, startVars, closeVars,
                       ghostVars>>

(* A wipe of the hash forgets every bid accepted for the auction so far.   *)
Forgets(a) == wiped[a] \/ log[a] # << >>

-----------------------------------------------------------------------------
(* create_auction, from the seller check to the commit of get_session.  No *)
(* other coroutine can name the new auction before that commit, so the     *)
(* hash and the row appear together.  Its flush comes first and fails for  *)
(* a price the columns cannot hold: none of Reserves and Increments.       *)

Listable(a, sc) == /\ row[a].status = "absent" /\ hash[a].state = "none"
                   /\ sc.start >= now - PastWindow
                   /\ sc.end > sc.start

NewRow(sc, reserve, inc) ==
    [status |-> IF sc.start <= now THEN "ACTIVE" ELSE "UPCOMING",
     start |-> sc.start, end |-> sc.end,
     reserve |-> Cents(reserve), inc |-> Cents(inc),
     price |-> 0, winner |-> NoBidder]

HashOf(new) == IF new.status = "ACTIVE" THEN InitHash(new.end, new.inc) ELSE NoHash

CreateAuction(a) ==
    /\ \E sc \in Schedules, reserve \in Reserves, inc \in Increments :
          LET new == NewRow(sc, reserve, inc)
          IN  /\ Listable(a, sc)
              /\ row' = [row EXCEPT ![a] = new]
              /\ hash' = [hash EXCEPT ![a] = HashOf(new)]
    /\ NoFault
    /\ UNCHANGED <<bidRow, proxy, stream, scriptReady, reqVars, startVars,
                   closeVars, ghostVars>>

(* The hash is written, then the commit fails: an orphan key is left that  *)
(* no row names.                                                           *)
CreateAuctionLosesCommit(a) ==
    /\ Fault("commit_error")
    /\ \E sc \in Schedules, reserve \in Reserves, inc \in Increments :
          LET new == NewRow(sc, reserve, inc)
          IN  /\ Listable(a, sc)
              /\ hash' = [hash EXCEPT ![a] = HashOf(new)]
    /\ UNCHANGED <<dbVars, stream, scriptReady, reqVars, startVars, closeVars,
                   ghostVars>>

-----------------------------------------------------------------------------
(* place_bid, one action per await that others can interleave with.        *)

Goto(r, label) == pc' = [pc EXCEPT ![r] = label]

(* Mutant of Answer: failures are reported as conflicts.                   *)
AnswerConflict(r, t) ==
    /\ Goto(r, "done")
    /\ told' = [told EXCEPT ![r] = IF t = "ERROR" THEN "REJECTED" ELSE t]

(* The request ends with an answer and its session is rolled back.         *)
Answer(r, t) == /\ Goto(r, "done")
                /\ told' = [told EXCEPT ![r] = t]

(* now_ts is read before the row is fetched, and not again.                *)
Receive(r) ==
    /\ pc[r] = "idle"
    /\ \E q \in [auction : Auctions, bidder : Bidders, amount : Amounts,
                 proxy : ProxyChoices, ts : {now}] :
          /\ req' = [req EXCEPT ![r] = q]
          /\ IF row[q.auction].status = "absent"
             THEN Answer(r, "NOT_FOUND")
             ELSE Goto(r, "received") /\ UNCHANGED told
    /\ NoFault
    /\ UNCHANGED <<dbVars, redisVars, res, startVars, closeVars, ghostVars>>

(* Mutant of AppendStream: the stream is not written.                      *)
AppendNothing(r) ==
    /\ pc[r] = "received"
    /\ Goto(r, "appended")
    /\ NoFault
    /\ UNCHANGED <<dbVars, redisVars, req, res, told, startVars, closeVars,
                   ghostVars>>

(* XADD trims by MAXLEN ~: of the oldest entries it drops some or none,    *)
(* and StreamLimit of the newest stay.                                     *)
Trimmed(s) == {SubSeq(s, i, Len(s)) :
                  i \in {j \in 1..Len(s) : j = 1 \/ Len(s) - j >= StreamLimit - 1}}

(* XADD, before the script runs.                                           *)
AppendStream(r) ==
    /\ pc[r] = "received"
    /\ Goto(r, "appended")
    /\ \E s \in Trimmed(Append(stream[req[r].auction], r)) :
          stream' = [stream EXCEPT ![req[r].auction] = s]
    /\ NoFault
    /\ UNCHANGED <<dbVars, hash, scriptReady, req, res, told, startVars,
                   closeVars, ghostVars>>

(* A failed XADD is swallowed.                                             *)
AppendStreamError(r) ==
    /\ Fault("redis_error")
    /\ pc[r] = "received"
    /\ Goto(r, "appended")
    /\ UNCHANGED <<dbVars, redisVars, req, res, told, startVars, closeVars,
                   ghostVars>>

VerdictOn(r) == LET q == req[r]
                IN  Verdict(hash[q.auction], q.bidder, Cents(q.amount), q.ts)

(* The script's effect on the hash, and on the history.                    *)
Accept(r) ==
    LET q == req[r]
        raised == Raise(hash[q.auction], q.bidder, Cents(q.amount))
    IN  /\ hash' = [hash EXCEPT ![q.auction] = raised]
        /\ log' = [log EXCEPT ![q.auction] =
                      Append(@, [req |-> r, seq |-> raised.seq])]

EvaluateAccepts(r) ==
    /\ pc[r] = "appended" /\ scriptReady
    /\ VerdictOn(r) = "ACCEPTED"
    /\ Accept(r)
    /\ res' = [res EXCEPT ![r].verdict = "ACCEPTED",
                          ![r].seq = hash[req[r].auction].seq + 1]
    /\ Goto(r, "judged")
    /\ NoFault
    /\ UNCHANGED <<dbVars, stream, scriptReady, req, told, startVars, closeVars,
                   seen, wiped>>

EvaluateRejects(r) ==
    /\ pc[r] = "appended" /\ scriptReady
    /\ VerdictOn(r) # "ACCEPTED"
    /\ res' = [res EXCEPT ![r].verdict = VerdictOn(r)]
    /\ Goto(r, "rejected")
    /\ NoFault
    /\ UNCHANGED <<dbVars, redisVars, req, told, startVars, closeVars, ghostVars>>

(* EVALSHA raises: the script is not loaded, Redis fails before running it *)
(* or its reply is lost after the script has accepted the bid.             *)
EvaluateError(r) ==
    /\ pc[r] = "appended"
    /\ Answer(r, "ERROR")
    /\ \/ ~scriptReady /\ NoFault /\ UNCHANGED <<hash, log>>
       \/ Fault("redis_error") /\ UNCHANGED <<hash, log>>
       \/ /\ Fault("redis_error")
          /\ scriptReady /\ VerdictOn(r) = "ACCEPTED"
          /\ Accept(r)
    /\ UNCHANGED <<dbVars, stream, scriptReady, req, res, startVars, closeVars,
                   seen, wiped>>

(* A rejected bid takes its sequence number from a second read of the hash. *)
ReadBack(r) ==
    /\ pc[r] = "rejected"
    /\ res' = [res EXCEPT ![r].seq = hash[req[r].auction].seq]
    /\ Goto(r, "judged")
    /\ NoFault
    /\ UNCHANGED <<dbVars, redisVars, req, told, startVars, closeVars, ghostVars>>

ReadBackError(r) ==
    /\ Fault("redis_error")
    /\ pc[r] = "rejected"
    /\ Answer(r, "ERROR")
    /\ UNCHANGED <<dbVars, redisVars, req, res, startVars, closeVars, ghostVars>>

ProxyKey(r) == <<req[r].auction, req[r].bidder>>

StatusOf(r) == IF res[r].verdict = "ACCEPTED" THEN "ACCEPTED" ELSE "REJECTED"

(* What a flush can write: the user row must exist, the price must fit.    *)
Storable(bidder, price) == bidder \in Users /\ price <= ColumnMax

BidFits(r) == Storable(req[r].bidder, Cents(req[r].amount))

(* Mutant of Persist: a flush that fails is swallowed as a failed XADD is. *)
PersistSwallowing(r) ==
    /\ pc[r] = "judged"
    /\ IF ~BidFits(r)
       THEN Answer(r, StatusOf(r))
       ELSE Goto(r, "finishing") /\ UNCHANGED told
    /\ NoFault
    /\ UNCHANGED <<dbVars, redisVars, req, res, startVars, closeVars, ghostVars>>

(* The bid row is flushed and, for a proxy bid, an existing proxy row is   *)
(* looked for: it is updated in place.  A proxy_max that its column cannot *)
(* hold fails the second flush, whether an UPDATE or an INSERT.            *)
Persist(r) ==
    /\ pc[r] = "judged"
    /\ \/ /\ BidFits(r)
          /\ Goto(r, IF req[r].proxy /\ ProxyKey(r) \notin proxy
                     THEN "inserting" ELSE "finishing")
          /\ UNCHANGED told
       \/ /\ BidFits(r) => req[r].proxy
          /\ Answer(r, "ERROR")
    /\ NoFault
    /\ UNCHANGED <<dbVars, redisVars, req, res, startVars, closeVars, ghostVars>>

(* INSERT of a proxy row waits for a session that inserted the same key    *)
(* and then fails if that session committed.                               *)
InsertProxy(r) ==
    /\ pc[r] = "inserting"
    /\ \A q \in Requests : res[q].inserts => ProxyKey(q) # ProxyKey(r)
    /\ IF ProxyKey(r) \in proxy
       THEN Answer(r, "ERROR") /\ UNCHANGED res
       ELSE /\ Goto(r, "finishing")
            /\ res' = [res EXCEPT ![r].inserts = TRUE]
            /\ UNCHANGED told
    /\ NoFault
    /\ UNCHANGED <<dbVars, redisVars, req, startVars, closeVars, ghostVars>>

(* Mutant of ReplyBeforeCommit: the reply never waits for the commit.      *)
ReplyAtOnce(r) ==
    /\ pc[r] = "finishing"
    /\ Goto(r, "replied")
    /\ told' = [told EXCEPT ![r] = StatusOf(r)]
    /\ NoFault
    /\ UNCHANGED <<dbVars, redisVars, req, res, startVars, closeVars, ghostVars>>

(* The response leaves before get_session commits.                         *)
ReplyBeforeCommit(r) ==
    /\ CommitAfterReply
    /\ pc[r] = "finishing"
    /\ Goto(r, "replied")
    /\ told' = [told EXCEPT ![r] = StatusOf(r)]
    /\ NoFault
    /\ UNCHANGED <<dbVars, redisVars, req, res, startVars, closeVars, ghostVars>>

AtCommit(r) == pc[r] = IF CommitAfterReply THEN "replied" ELSE "finishing"

(* Mutant of SeqToStore: the number is read from the hash again.           *)
SeqOfHash(r) == hash[req[r].auction].seq

SeqToStore(r) == res[r].seq

(* Mutant of Release: the transaction is left open.                        *)
ReleaseNothing(r) == UNCHANGED res

(* The end of the transaction lets a waiting INSERT of the same key go on. *)
Release(r) == res' = [res EXCEPT ![r].inserts = FALSE]

CommitBid(r) ==
    /\ AtCommit(r)
    /\ bidRow' = [bidRow EXCEPT ![r] = [status |-> StatusOf(r),
                                        seq |-> SeqToStore(r)]]
    /\ proxy' = IF res[r].inserts THEN proxy \cup {ProxyKey(r)} ELSE proxy
    /\ Release(r)
    /\ Answer(r, StatusOf(r))
    /\ NoFault
    /\ UNCHANGED <<row, redisVars, req, startVars, closeVars, ghostVars>>

CommitBidError(r) ==
    /\ Fault("commit_error")
    /\ AtCommit(r)
    /\ Release(r)
    /\ Answer(r, IF CommitAfterReply THEN told[r] ELSE "ERROR")
    /\ UNCHANGED <<dbVars, redisVars, req, startVars, closeVars, ghostVars>>

-----------------------------------------------------------------------------
(* The scheduler's jobs.  max_instances=1: a poll starts only when the one *)
(* before it has ended.  LIMIT without ORDER BY takes any BatchSize rows.  *)

Batches(due) == {S \in SUBSET due : /\ S # {}
                                    /\ Cardinality(S) <= BatchSize
                                    /\ S = due \/ Cardinality(S) = BatchSize}

(* Mutants of DueStarts and DueCloses: the query does not ask for a state. *)
StartsInAnyState ==
    {a \in Auctions : row[a].status # "absent" /\ row[a].start <= now}

ClosesInAnyState ==
    {a \in Auctions : row[a].status # "absent" /\ row[a].end <= now}

DueStarts == {a \in Auctions : row[a].status = "UPCOMING" /\ row[a].start <= now}

DueCloses == {a \in Auctions : row[a].status = "ACTIVE" /\ row[a].end <= now}

StartsIdle == startTodo = {} /\ startDone = {}

PollStarts ==
    /\ StartsIdle
    /\ startTodo' \in Batches(DueStarts)
    /\ NoFault
    /\ UNCHANGED <<startDone, dbVars, redisVars, reqVars, closeVars, ghostVars>>

(* Mutant of MarkStarted: the state is not assigned.                       *)
MarkNothing(a) == /\ a \in startTodo
                  /\ startTodo' = startTodo \ {a}
                  /\ UNCHANGED startDone

(* start_auction marks the row in the session, then writes the hash.       *)
MarkStarted(a) == /\ a \in startTodo
                  /\ startTodo' = startTodo \ {a}
                  /\ startDone' = startDone \cup {a}

InitKey(a) == /\ hash' = [hash EXCEPT ![a] = InitHash(row[a].end, row[a].inc)]
              /\ wiped' = [wiped EXCEPT ![a] = Forgets(a)]

StartAuction(a) ==
    /\ MarkStarted(a)
    /\ InitKey(a)
    /\ NoFault
    /\ UNCHANGED <<dbVars, stream, scriptReady, reqVars, closeVars, log, seen>>

(* The HSET raises, with or without effect; the loop logs it and goes on   *)
(* with the row still marked.                                              *)
StartAuctionError(a) ==
    /\ Fault("redis_error")
    /\ MarkStarted(a)
    /\ InitKey(a) \/ UNCHANGED <<hash, wiped>>
    /\ UNCHANGED <<dbVars, stream, scriptReady, reqVars, closeVars, log, seen>>

StartsReady == startTodo = {} /\ startDone # {}

CommitStarts ==
    /\ StartsReady
    /\ row' = [a \in Auctions |-> IF a \in startDone
                                  THEN [row[a] EXCEPT !.status = "ACTIVE"]
                                  ELSE row[a]]
    /\ startDone' = {}
    /\ NoFault
    /\ UNCHANGED <<startTodo, bidRow, proxy, redisVars, reqVars, closeVars,
                   ghostVars>>

CommitStartsError ==
    /\ Fault("job_commit_error")
    /\ StartsReady
    /\ startDone' = {}
    /\ UNCHANGED <<startTodo, dbVars, redisVars, reqVars, closeVars, ghostVars>>

-----------------------------------------------------------------------------

NothingDone == [a \in Auctions |-> NoOutcome]

ClosesIdle == closeTodo = {} /\ closeCur = NoAuction /\ closeDone = NothingDone

PollCloses ==
    /\ ClosesIdle
    /\ closeTodo' \in Batches(DueCloses)
    /\ NoFault
    /\ UNCHANGED <<closeCur, closeSnap, closeDone, dbVars, redisVars, reqVars,
                   startVars, ghostVars>>

Turn(a) == closeCur = NoAuction /\ a \in closeTodo /\ closeTodo' = closeTodo \ {a}

(* close_auction's read of the hash, on which the outcome will rest.       *)
CloseRead(a) ==
    /\ Turn(a)
    /\ closeCur' = a
    /\ closeSnap' = hash[a]
    /\ seen' = [seen EXCEPT ![a] = Len(log[a])]
    /\ NoFault
    /\ UNCHANGED <<closeDone, dbVars, redisVars, reqVars, startVars, log, wiped>>

(* A failed read is logged; the auction waits for a later poll.            *)
CloseReadError(a) ==
    /\ Fault("redis_error")
    /\ Turn(a)
    /\ UNCHANGED <<closeCur, closeSnap, closeDone, dbVars, redisVars, reqVars,
                   startVars, ghostVars>>

(* Mutant of MeetsReserve: the reserve is ignored.                         *)
MeetsAnyReserve(price, reserve) == TRUE

(* auction.highest_bid >= auction.reserve_price compares the exact value   *)
(* of a double with a decimal.                                             *)
MeetsReserve(price, reserve) ==
    \/ price > reserve
    \/ price = reserve /\ price \notin FloatBelow

(* Mutants of Settlement: a price is recorded only with a sale, or an      *)
(* auction without a leader is left unresolved.                            *)
SettlementPricedBySale(a, h) ==
    IF h.leader # NoBidder /\ MeetsReserve(h.price, row[a].reserve)
    THEN [status |-> "SOLD", price |-> h.price, winner |-> h.leader]
    ELSE [status |-> "UNSOLD", price |-> row[a].price, winner |-> NoBidder]

SettlementLeftClosed(a, h) ==
    IF h.leader = NoBidder
    THEN [status |-> "CLOSED", price |-> row[a].price, winner |-> NoBidder]
    ELSE [status |-> "SOLD", price |-> h.price, winner |-> h.leader]

SettlementSkipped(a, h) ==
    IF h.leader = NoBidder THEN NoOutcome
    ELSE [status |-> "SOLD", price |-> h.price, winner |-> h.leader]

(* The row close_auction and _resolve_settlement_inner leave; a missing    *)
(* hash reads as one without a leader.                                     *)
Settlement(a, h) ==
    IF h.leader = NoBidder
    THEN [status |-> "UNSOLD", price |-> row[a].price, winner |-> NoBidder]
    ELSE IF MeetsReserve(h.price, row[a].reserve)
    THEN [status |-> "SOLD", price |-> h.price, winner |-> h.leader]
    ELSE [status |-> "UNSOLD", price |-> h.price, winner |-> NoBidder]

(* Whether the flush can write what was read: a hash without a leader      *)
(* leaves highest_bid and winner_id alone.                                 *)
LeaderFits == \/ closeSnap.leader = NoBidder
              \/ Storable(closeSnap.leader, closeSnap.price)

(* Flush and settle, leaving the outcome in the session.                   *)
SettleCurrent ==
    /\ closeCur # NoAuction
    /\ LeaderFits
    /\ closeDone' = [closeDone EXCEPT ![closeCur] = Settlement(closeCur, closeSnap)]
    /\ closeCur' = NoAuction
    /\ closeSnap' = NoHash

(* Mutants of MarkClosed: the hash is marked by its leader alone, or not.  *)
MarkLed == hash' = [hash EXCEPT ![closeCur].state =
                        IF closeSnap.leader = NoBidder THEN "UNSOLD" ELSE "SOLD"]

MarkNot == hash' = hash

MarkClosed == hash' = [hash EXCEPT ![closeCur].state =
                                Settlement(closeCur, closeSnap).status]

CloseApply ==
    /\ SettleCurrent
    /\ MarkClosed
    /\ NoFault
    /\ UNCHANGED <<closeTodo, dbVars, stream, scriptReady, reqVars, startVars,
                   ghostVars>>

(* The HSET raises, with or without effect, and the loop goes on with the  *)
(* settled row still in the session.                                       *)
CloseApplyError ==
    /\ Fault("redis_error")
    /\ SettleCurrent
    /\ MarkClosed \/ UNCHANGED hash
    /\ UNCHANGED <<closeTodo, dbVars, stream, scriptReady, reqVars, startVars,
                   ghostVars>>

AbandonCloses == /\ closeTodo' = {}
                 /\ closeCur' = NoAuction
                 /\ closeSnap' = NoHash
                 /\ closeDone' = NothingDone

(* winner_id names no user row, or highest_bid overflows its column: the   *)
(* flush fails and rolls the session back.  Its rows are expired, so the   *)
(* handler's own log line raises in turn (it reads auction.auction_id) and *)
(* the whole batch is abandoned.                                           *)
CloseFlushFails ==
    /\ closeCur # NoAuction
    /\ ~LeaderFits
    /\ AbandonCloses
    /\ NoFault
    /\ UNCHANGED <<dbVars, redisVars, reqVars, startVars, ghostVars>>

ClosesReady == closeTodo = {} /\ closeCur = NoAuction /\ closeDone # NothingDone

CommitCloses ==
    /\ ClosesReady
    /\ row' = [a \in Auctions |->
          IF closeDone[a].status = "none" THEN row[a]
          ELSE [row[a] EXCEPT !.status = closeDone[a].status,
                              !.price  = closeDone[a].price,
                              !.winner = closeDone[a].winner]]
    /\ AbandonCloses
    /\ NoFault
    /\ UNCHANGED <<bidRow, proxy, redisVars, reqVars, startVars, ghostVars>>

CommitClosesError ==
    /\ Fault("job_commit_error")
    /\ ClosesReady
    /\ AbandonCloses
    /\ UNCHANGED <<dbVars, redisVars, reqVars, startVars, ghostVars>>

-----------------------------------------------------------------------------
(* Crashes.                                                                *)

InFlight(r) == pc[r] \notin {"idle", "done"}

(* The process dies and is started again: sessions roll back, jobs end,    *)
(* clients see a broken connection, and lifespan registers the script.     *)
AppCrash ==
    /\ Fault("app_crash")
    /\ pc' = [r \in Requests |-> IF InFlight(r) THEN "done" ELSE pc[r]]
    /\ told' = [r \in Requests |-> IF InFlight(r) /\ told[r] = "none"
                                   THEN "ERROR" ELSE told[r]]
    /\ res' = [r \in Requests |-> [res[r] EXCEPT !.inserts = FALSE]]
    /\ startTodo' = {} /\ startDone' = {}
    /\ AbandonCloses
    /\ scriptReady' = TRUE
    /\ UNCHANGED <<dbVars, hash, stream, req, ghostVars>>

(* Redis restarts empty: hashes, streams and the loaded script are gone.   *)
RedisLoss ==
    /\ Fault("redis_loss")
    /\ hash' = [a \in Auctions |-> NoHash]
    /\ stream' = [a \in Auctions |-> << >>]
    /\ wiped' = [a \in Auctions |-> Forgets(a)]
    /\ scriptReady' = FALSE
    /\ UNCHANGED <<dbVars, reqVars, startVars, closeVars, log, seen>>

-----------------------------------------------------------------------------

Init == /\ now = 0 /\ faults = 0
        /\ row = [a \in Auctions |-> NoRow]
        /\ bidRow = [r \in Requests |-> [status |-> "none", seq |-> 0]]
        /\ proxy = {}
        /\ hash = [a \in Auctions |-> NoHash]
        /\ stream = [a \in Auctions |-> << >>]
        /\ scriptReady = TRUE
        /\ pc = [r \in Requests |-> "idle"]
        /\ req = [r \in Requests |-> NoReq]
        /\ res = [r \in Requests |-> NoRes]
        /\ told = [r \in Requests |-> "none"]
        /\ startTodo = {} /\ startDone = {}
        /\ closeTodo = {} /\ closeCur = NoAuction /\ closeSnap = NoHash
        /\ closeDone = NothingDone
        /\ log = [a \in Auctions |-> << >>]
        /\ seen = [a \in Auctions |-> 0]
        /\ wiped = [a \in Auctions |-> FALSE]

(* A request's own steps, and the steps that need a fault.                 *)
Serve(r) == \/ AppendStream(r) \/ EvaluateAccepts(r) \/ EvaluateRejects(r)
            \/ ReadBack(r) \/ Persist(r) \/ InsertProxy(r)
            \/ ReplyBeforeCommit(r) \/ CommitBid(r)

ServeFault(r) == AppendStreamError(r) \/ EvaluateError(r) \/ ReadBackError(r)
                 \/ CommitBidError(r)

StartJob == PollStarts \/ CommitStarts \/ \E a \in Auctions : StartAuction(a)

CloseJob == \/ PollCloses \/ CloseApply \/ CloseFlushFails \/ CommitCloses
            \/ \E a \in Auctions : CloseRead(a)

JobFault == \/ CommitStartsError \/ CommitClosesError \/ CloseApplyError
            \/ \E a \in Auctions : StartAuctionError(a) \/ CloseReadError(a)

Next == \/ Tick
        \/ \E a \in Auctions : CreateAuction(a) \/ CreateAuctionLosesCommit(a)
        \/ \E r \in Requests : Receive(r) \/ Serve(r) \/ ServeFault(r)
        \/ StartJob \/ CloseJob \/ JobFault
        \/ AppCrash \/ RedisLoss

Spec == Init /\ [][Next]_vars

(* The event loop runs every coroutine that can go on, APScheduler starts  *)
(* its jobs every second, and time passes; no fault has to happen.         *)
FairSpec == /\ Spec
            /\ WF_vars(Tick)
            /\ WF_vars(StartJob)
            /\ WF_vars(CloseJob)
            /\ \A r \in Requests : WF_vars(Serve(r) \/ EvaluateError(r))

-----------------------------------------------------------------------------
(* Properties.                                                             *)

Offer(r) == Cents(req[r].amount)

Accepted(r) == \E a \in Auctions : \E i \in 1..Len(log[a]) : log[a][i].req = r

(* What a bidder is told is what the script decided, through lost replies, *)
(* failed flushes, blocked proxy inserts and crashes: ACCEPTED only for a  *)
(* bid that raised the price, REJECTED only for one that did not, and when *)
(* the commit comes first the history already shows the same status.       *)
ToldTheTruth ==
    \A r \in Requests :
        /\ told[r] = "ACCEPTED" => Accepted(r)
        /\ told[r] \in {"REJECTED", "NOT_FOUND"} => ~Accepted(r)
        /\ told[r] \in {"ACCEPTED", "REJECTED"} /\ ~CommitAfterReply
              => bidRow[r].status = told[r]

(* The session that holds an uncommitted proxy row waits for no other one: *)
(* it is about to commit or to roll back, and its key is neither committed *)
(* nor held a second time.  So an INSERT that waits does not wait in a     *)
(* circle, whatever failed before and however sessions ended.              *)
HoldersFinish ==
    \A r \in Requests : res[r].inserts =>
        /\ pc[r] \in {"finishing", "replied"}
        /\ ProxyKey(r) \notin proxy
        /\ \A q \in Requests \ {r} : res[q].inserts => ProxyKey(q) # ProxyKey(r)

(* What becomes of an accepted bid: it is in the history and its bidder    *)
(* knows it, or it is in no table, and then the bidder is told of an error *)
(* for which there is a reason (a fault, or rows that the tables do not    *)
(* take), or was told ACCEPTED before a commit that failed.                *)
LostBidsAreExplained ==
    \A r \in Requests : pc[r] = "done" /\ Accepted(r) =>
        \/ bidRow[r].status = "ACCEPTED" /\ told[r] = "ACCEPTED"
        \/ /\ bidRow[r].status = "none"
           /\ \/ told[r] = "ERROR" /\ (faults > 0 \/ ~BidFits(r) \/ req[r].proxy)
              \/ told[r] = "ACCEPTED" /\ faults > 0 /\ CommitAfterReply

(* The bid history is the script's order: an ACCEPTED row carries the      *)
(* sequence number the script gave that bid, and as long as the hash has   *)
(* kept its memory a later number is a bid higher by the increment, in     *)
(* whatever order the requests' transactions commit.                       *)
HistoryIsLadder ==
    \A r \in Requests : bidRow[r].status = "ACCEPTED" =>
        LET a == req[r].auction
        IN  /\ \E i \in 1..Len(log[a]) :
                   log[a][i] = [req |-> r, seq |-> bidRow[r].seq]
            /\ \A q \in Requests \ {r} :
                   /\ bidRow[q].status = "ACCEPTED" /\ req[q].auction = a
                   /\ ~wiped[a]
                   /\ bidRow[r].seq <= bidRow[q].seq
                   => /\ bidRow[r].seq < bidRow[q].seq
                      /\ Offer(q) >= Offer(r) + row[a].inc

(* A settled auction went to the best of the bids its close had read: the  *)
(* last of them is the highest, it is the recorded price, and its bidder   *)
(* wins unless the reserve is higher.  Commits that fail, HSETs that fail  *)
(* and closes that are repeated after a crash do not change that; only a   *)
(* hash that lost its bids (wiped) does.                                   *)
SettledByWhatCloseRead ==
    \A a \in Auctions : row[a].status \in Settled /\ ~wiped[a] =>
        IF seen[a] = 0
        THEN row[a].status = "UNSOLD" /\ row[a].winner = NoBidder
        ELSE LET best == log[a][seen[a]].req
             IN  /\ row[a].price = Offer(best)
                 /\ \A i \in 1..seen[a] : Offer(log[a][i].req) <= row[a].price
                 /\ row[a].price > row[a].reserve => row[a].winner = req[best].bidder
                 /\ row[a].price < row[a].reserve => row[a].status = "UNSOLD"
                 /\ row[a].status = "SOLD" <=> row[a].winner # NoBidder

(* A sale is always to a registered user whose bid the script accepted at  *)
(* the recorded price and within the reserve, wiped hash or not.           *)
SoldToARealBid ==
    \A a \in Auctions : row[a].status = "SOLD" =>
        /\ row[a].winner \in Users
        /\ row[a].price >= row[a].reserve
        /\ \E i \in 1..Len(log[a]) : LET r == log[a][i].req
                                     IN  /\ req[r].bidder = row[a].winner
                                         /\ Offer(r) = row[a].price

(* A bid is accepted only when the auction has started and only if it was  *)
(* received before the second in which the auction ends, however late the  *)
(* script runs and whichever of row and hash was updated first.            *)
AcceptedInTime ==
    [][\A a \in Auctions : Len(log'[a]) > Len(log[a]) =>
          LET r == log'[a][Len(log'[a])].req
          IN  /\ row[a].status # "absent" /\ row[a].start <= now
              /\ Seconds(req[r].ts) < Seconds(row[a].end)]_vars

(* A hash that has been marked SOLD or UNSOLD never takes bids again, not  *)
(* even if a start job or a second close comes after a crash.              *)
NeverReopens ==
    [][\A a \in Auctions : hash[a].state \in Settled => hash'[a].state # "ACTIVE"]_vars

Key(a) == INSTANCE AscendingAuction
            WITH phase <- IF hash[a].state = "none" THEN "pending"
                          ELSE IF hash[a].state = "ACTIVE" THEN "open"
                          ELSE "closed",
                 increment <- hash[a].inc, price <- hash[a].price,
                 leader <- hash[a].leader, count <- hash[a].seq

(* close_auction's closing HSET on a key that is not there, because the    *)
(* one of the start has failed or Redis came back empty.                   *)
MarksMissingKey(a) == /\ hash[a].state = "none"
                      /\ \E s \in Settled : hash'[a] = [hash[a] EXCEPT !.state = s]

(* With jobs that write the same key, repeat themselves after crashes and  *)
(* close while bids are judged, each auction is still the ascending one of *)
(* the script: until bids are wiped every step is one of it or none of its *)
(* matter, apart from the loss of all keys and the marking of one that is  *)
(* missing.                                                                *)
AuctionsAscend ==
    [][\A a \in Auctions :
          ~wiped'[a] => \/ [Key(a)!Next]_(Key(a)!vars)
                        \/ RedisLoss
                        \/ MarksMissingKey(a)]_vars

(* The bid stream is the record made before the script runs.  As long as   *)
(* nothing has failed no bid is in it twice, and an accepted bid that is   *)
(* not in it was trimmed: the stream has StreamLimit others.  It may go    *)
(* before the script has accepted it.                                      *)
StreamCoversAccepted ==
    faults = 0 =>
        \A a \in Auctions :
            /\ \A i, j \in 1..Len(stream[a]) : i # j => stream[a][i] # stream[a][j]
            /\ Len(stream[a]) < StreamLimit =>
                  \A i \in 1..Len(log[a]) :
                      \E j \in 1..Len(stream[a]) : stream[a][j] = log[a][i].req

(* The close job's check for an extended end (scheduler_service.py:101)    *)
(* never skips an auction that the query found due: the hash's end is the  *)
(* row's truncated to the second, since the script's extension is disabled *)
(* (redis_client.py:103).  Its branch is left out of CloseRead.            *)
ExtensionUnreachable ==
    \A a \in closeTodo : hash[a].state # "none" => Seconds(now) >= hash[a].end

Table == INSTANCE Lifecycle
           WITH status <- [a \in Auctions |-> row[a].status],
                price  <- [a \in Auctions |-> row[a].price],
                winner <- [a \in Auctions |-> row[a].winner]

(* The auction table implements its lifecycle: batches, crashes, repeated  *)
(* polls and failed commits never reopen, resettle or skip a state.        *)
LifecycleSpec == Table!Spec

(* A due auction is settled, if every leader has a user row and every      *)
(* price fits its column: the close job recovers from whatever a fault     *)
(* interrupted.                                                            *)
DueIsSettled ==
    \A a \in Auctions :
        row[a].status = "ACTIVE" /\ row[a].end <= now ~> row[a].status \in Settled

(* An auction whose start has come is started, although a poll takes only  *)
(* BATCH_SIZE rows, in no order, and a crash may undo the batch.           *)
DueIsStarted ==
    \A a \in Auctions :
        row[a].status = "UPCOMING" /\ row[a].start <= now
            ~> row[a].status # "UPCOMING"

(* Every request is answered: none waits for another's proxy row forever.  *)
RequestsAnswered ==
    \A r \in Requests : (pc[r] # "idle") ~> (pc[r] = "done" /\ told[r] # "none")

-----------------------------------------------------------------------------
(* Statements of the documents that the code does not keep.                *)

(* test_fr6_winner_determination.py:36 "After auction closes, winner_id is *)
(* set to the highest bidder": the close has read every accepted bid.      *)
EveryAcceptedBidCounts ==
    \A a \in Auctions : row[a].status \in Settled => seen[a] = Len(log[a])

(* DESIGN.md:474 "Reserve not met or zero bids: UPDATE state=UNSOLD": an   *)
(* auction without a reserve is not UNSOLD when bids had been accepted     *)
(* before the close looked.                                                *)
UnsoldHasNoBids ==
    \A a \in Auctions :
        row[a].status = "UNSOLD" /\ row[a].reserve = 0 => seen[a] = 0

(* DESIGN.md:473 "Reserve met: UPDATE state=SOLD, winner_id": the price a  *)
(* settled row records decides.                                            *)
ReserveMetIsSold ==
    \A a \in Auctions :
        row[a].status \in Settled /\ row[a].price > 0
            /\ row[a].price >= row[a].reserve => row[a].status = "SOLD"

(* DESIGN.md:587 "XADD to the stream then immediately EVAL the CAS script  *)
(* - both happen atomically": the stream holds accepted bids in the order  *)
(* in which the script accepted them.                                      *)
StreamOrderIsScriptOrder ==
    \A a \in Auctions : \A i, j \in 1..Len(log[a]) : i < j =>
        \A k, l \in 1..Len(stream[a]) :
            stream[a][k] = log[a][i].req /\ stream[a][l] = log[a][j].req => k < l

=============================================================================
