# Formal model of the online auction backend

TLA+ modules, TLC configurations and TLAPS proofs for the FastAPI, PostgreSQL
and Redis auction backend in `src/` (application code in
`src/src/auction_app/`; file names below are relative to that directory).
The model is about what the two stores, the bid requests and the scheduler do
to each other when they interleave and fail; request validation, wording and
layout are left out.

## 1. Inventory

| Component | State | Operations | Modelled in |
|---|---|---|---|
| Bid script (`redis_client.py:53-108`) | hash `auction:{id}`, dedup key `bid_result:{bid_id}` | judge, replay a cached verdict | `BidScript`, `BidKernel` |
| Bid service (`services/bid_service.py`, `routers/bids.py`) | stream, `bid` and `proxy_bid` rows | `place_bid` | `AuctionSystem` |
| Lifecycle service (`services/auction_service.py`) | `auction` rows, hash | create, start, close, settle | `AuctionSystem`, `Lifecycle` |
| Scheduler (`services/scheduler_service.py`) | a batch of rows in a session | `poll_due_starts`, `poll_due_closes` | `AuctionSystem` |
| Session (`database.py`) | uncommitted rows | commit, rollback | `AuctionSystem` |
| Lifespan (`main.py`) | registered script SHA | start, restart | `AuctionSystem` (`AppCrash`) |
| Live feed (`routers/websocket.py`, PUBLISH in `place_bid`) | subscriptions, connections of the Redis pool | snapshot, subscribe, relay, publish | `LiveFeed` |
| Bid history, detail view | none (readers) | pages, merged view | `Readers` |
| Search (`services/search_service.py`) | none (reader) | count, filtered page, cursor | `Search` |
| Users (`routers/users.py`) | `user` rows | register | `Registration` |
| Configuration, health, deployment | none | | no |

How they interact. A bid request reads the auction row, appends to the Redis
stream, runs the script, reads the hash again if the bid was rejected, writes
the `bid` row and perhaps a `proxy_bid` row in a session, and publishes. The
session commits when the request's dependency `get_session` ends: before the
response with FastAPI below 0.118, after it from 0.118 on, and
`requirements.txt` allows both. The start job marks rows ACTIVE in its session
and writes their hashes at once; the close job reads each hash, flushes the
settled row and marks the hash; each commits once for the whole batch. Nothing
spans the two stores, and every Redis command takes effect before the commit
that belongs to it. A WebSocket handler reads the hash once, subscribes to the
auction's channel and relays what is published; its PubSub object, every bid,
both jobs and the detail view draw on one pool of 20 Redis connections, which
raises when it is used up. The readers share the stores and write nothing.

What is hard, and what makes each component correct:

* **Bid script.** Redelivery and numeric edges. Correct if the hash always
  describes the last accepted bid, accepted bids climb by the increment, a
  `bid_id` is accepted once and its verdict never changes, and nothing moves
  after the closing HSET.
* **Bid service.** Four or more awaits between deciding and answering, each of
  which can fail. Correct if the bidder is told what the script decided, if an
  accepted bid is missing from the history only for a reason its bidder is told
  of, and if stored sequence numbers order the history whatever the order of
  commits.
* **Lifecycle and scheduler.** Two stores updated at different times, batches,
  crashes and repeated polls. Correct if a row is opened once, settled once,
  with what the close read; if sales are real; if due work is done eventually.
* **Live feed.** A snapshot and a subscription at two moments, publishing in
  another order than the script's, swallowed failures, a bounded pool. Correct
  if only accepted bids are shown, each once; if a watcher without a gap before
  its subscription ends up with the current price; if a watcher costs one
  connection and no bid waits for one.
* **History and detail view.** Pages cut by number while bids commit in any
  order; a view put together from three reads. Correct if a walk through the
  pages misses nothing that was there, and if two views never go back.
* **Search.** Count and page are two queries. Correct if a page that claims to
  be all there is misses nothing that matched throughout.
* **Users.** Check, then insert. Correct if an email has one row, answers agree
  with the table and no registration waits forever for another.

`PROJECT.json` lists the hazards, each at its line, with the properties that
cover it.

## 2. Modules

| Module | What it is |
|---|---|
| `BidScript` | Pure operators: the auction hash, `Cents`, `Seconds`, `Verdict`, `Raise`, `InitHash` |
| `AscendingAuction` | Abstract: what one auction promises; `BidKernel` and every key of `AuctionSystem` are held against it |
| `BidKernel` | The script over the life of one key, with redelivery; implements `AscendingAuction` |
| `Lifecycle` | Abstract: what the auction table promises |
| `AuctionSystem` | Requests, both jobs, both stores, clock and faults; uses `BidScript`, implements `Lifecycle`, and `AscendingAuction` key by key |
| `Readers` | A client that pages through the history and asks for views, on top of every action of `AuctionSystem` |
| `LiveFeed` | Publishing bids and WebSocket handlers of one auction, and the connection pool that they share with everything else |
| `Registration` | Concurrent `POST /users` |
| `Search` | `GET /auctions` over a table that moves as `Lifecycle` allows |
| `MCBidKernel`, `MCAuctionSystem`, `MCReaders`, `MCClients` | Values of the constants for TLC; `MCClients` runs `LiveFeed`, `Registration` and `Search` side by side |
| `BidScriptProofs`, `BidKernelProofs`, `AuctionSystemProofs`, `SettlementProofs`, `HistoryProofs`, `LiveFeedProofs`, `ClientsProofs`, `ReadersProofs` | Theorems and proofs |

`Readers` extends `AuctionSystem`, which uses `BidScript`. `LiveFeed` takes one
fact from below: a bid is known by the number the script gives it, and a later
number is a higher price (`Ladder`, `HistoryIsLadder`). `Search` takes another:
the table moves as `Lifecycle` says, which `LifecycleCorrect` proves of
`AuctionSystem`. `AuctionSystem` takes the registered users as the constant
`Users`.

Definitions named `...Without...`, `...Nothing`, `...AnyState` and the like,
each with a comment "Mutant of", are plausible bugs of the definition they
stand before. They are in no specification; they are there to
show that a property would notice them.

### How the model corresponds to the code

*Granularity.* The application is one asyncio process. An action of
`AuctionSystem` is what a coroutine does between two awaits at which another
one can change what it depends on. `place_bid` is
`Receive` (time, row), `AppendStream` (XADD), `EvaluateAccepts`,
`EvaluateRejects` or `EvaluateError` (EVALSHA), `ReadBack` (HGETALL of a
rejected bid), `Persist` (flush, proxy lookup), `InsertProxy`,
`ReplyBeforeCommit` and `CommitBid`; `pc[r]` is where it stands. The close of
an auction is `CloseRead` and `CloseApply`; its two HGETALLs
(`scheduler_service.py:100`, `auction_service.py:155`) are one read, because
the first serves only the check for an extended end, which never holds: the
script's extension is disabled (`redis_client.py:103`), and theorem
`ClosesAreDue` says that the hash's end has passed whenever the query found the
row due.

*Database.* `row`, `bidRow` and `proxy` are committed rows. What a session has
flushed but not committed is in the variables of its coroutine (`res[r]`,
`startDone`, `closeDone`), where a rollback forgets it. Only the row lock that
matters is kept: an INSERT of a proxy key waits for a session that has inserted
the same key (`res[q].inserts`) and fails if that one committed
(`uq_proxy_bid_auction_bidder`). A flush fails if it names a user without a row
or a price above `ColumnMax`, the width of `Numeric(12, 2)` (`Storable`): the
flush of a bid, after the script has accepted it, of a proxy row (a `proxy_max`
of any size is a choice of `Persist`), and of a close, with the leader and the
price it read (`LeaderFits`). No schema bounds an amount from above. What a
seller asks does fit: the flush of `create_auction` comes before its HSET, so a
reserve or increment too large leaves nothing behind.

*Redis.* `hash`, `stream` and `scriptReady`. A command takes effect at once. A
command that raises may or may not have taken effect; for XADD, whose failure
is swallowed, both cases are an append or none. XADD's `maxlen` is approximate
in redis-py, so an append also drops some of the oldest entries, or none, beyond
`StreamLimit` (`Trimmed`).

*Time.* Ticks; `TicksPerSecond` of them make the second that
`int(time.time())` and `int(end_ts.timestamp())` truncate to. The database
comparisons (`start_ts <= now`) keep the ticks.

*Money.* Requests offer mills; what the database and Redis hold is in cents,
after `f"{x:.2f}"` and `Numeric(12, 2)`. `SumRoundsUp` holds the pairs whose
sum in Lua's doubles lies above the decimal sum (0.10 + 0.20), `FloatBelow` the
amounts whose double lies below the decimal (0.70). Mills ending in 5 are kept
out, since the two renderings break ties differently, and so are amounts that
are not finite or lie above 2^53, where doubles no longer tell cents apart. A
`reserve` of 0 stands for none.

*History variables.* `log` is the sequence of bids the script accepted, never
reset; `seen` is its length when the close last read the hash; `wiped` says
that a hash has lost accepted bids. No action reads them except to update them.

*Faults.* `FaultKinds` selects them: `redis_error`, `redis_loss`, `app_crash`,
`commit_error` (the session of a request) and `job_commit_error` (the session
of a job).

*Live feed.* The pool is that of the whole application: besides the accepted
bids and the watchers of one auction, `others` is what everything else holds of
it (rejected bids, both jobs, the detail view, bids and watchers of other
auctions), and `OthersMove` moves it by one at any moment, within the pool. A
Redis command holds a connection of the pool from its `Begin...` to its end; a
PubSub object keeps the one of its first command (`held`), and nothing gives it
back: the handler's `finally` calls `unsubscribe`, which is a command itself and
takes a connection if the object has none, but never closes the object. A client
that leaves matters to the initial frame alone: a later send raises inside the
loop that relays, where it is swallowed, so the handler of a client that has
gone goes on until its own connection breaks. So once `PoolSize` watchers have
come, no bid finds a connection until the process restarts. `BidsEnd` shows that
bids are then refused and do not wait. Left out: a loss of Redis and the hash
being opened anew (both in `AuctionSystem`), rejected bids (they publish
nothing), the masking of the bidder. `publish_bid_accepted` and
`get_current_state` of `fanout_service.py` are called by nothing.

*Readers.* `FirstPage` and `NextPage` are one query each; equal sequence
numbers come in any order. A view is `ViewRow`, `ViewBids`, `ViewHash`, and its
price and state come from the hash whenever there is one. Three things a reader
of the code may not expect follow: an ACTIVE auction without bids is shown at
price 0.00, while before the start it is shown at its starting price; after a
close that raced a bid the view's price differs from the row's
(`ShownOutcomeIsKept` excludes only that case, by `late`); and a view may say
SOLD before the commit does, and go on saying so if that commit is lost.

*Search.* `Filters` stands for what category and keyword select. A cursor that
decodes makes `_build_where` call `bindparams` on a `literal_column`, which has
no such method: `FollowCursor` always fails, and a client told of more never
gets it. `price_min` and `price_max` see the starting price while an auction
runs, because `highest_bid` is written at the settlement.

*Registration.* The unique index on the email makes an INSERT wait for a
session that has inserted the same email (`InsertUser`'s guard), then fail or go
on; the loser of a race gets a 500 where the check would have said 409.

*Left out, with the reason.* The TTL of the dedup key (48 h beyond the end);
the seller check, the missing-row returns of `start_auction` and
`close_auction` (rows are never deleted); `max_bid` and `active` of a proxy row
(nothing reads them); `uq_bid_dedup` (`created_ts`
differs between requests); a start of the application while Redis is down.
`BidKernel` delivers a `bid_id` again, which today's `place_bid` does not do
(each request draws a new `bid_id`, and redis-py 5 does not retry by default):
there the dedup branch is the script's own contract.

*Promised and absent.* Two rules of DESIGN.md are in no line of the code, so
that no definition here has them, and are mentioned lest a reader take the
silence for agreement. DESIGN.md:313 extends an auction by 60 s, at most five
times, when a bid arrives in its last 60 s; the script skips that step
(`redis_client.py:103` "disabled for MVP"), `extensions_used` stays 0, and the
scheduler's check for an extended end (`scheduler_service.py:101`) never holds.
With the extension, `AcceptedInTime` would have to measure against a later end.
DESIGN.md:260 refuses with 422 a first bid below the starting price; neither
route nor script compares the two: the hash opens at 0.00 and the first bid has
to reach one increment.

## 3. Runs

| Run | Shows |
|---|---|
| `kernel` | One key, three `bid_id`s, any redelivery: `HashMatchesLog`, `Ladder`, `AcceptedOnce`, `StableVerdict`, and `BidKernel` implements `AscendingAuction` |
| `faults` | Two bids, both jobs, one fault of any kind anywhere, or a price that overflows: `ToldTheTruth`, `LostBidsAreExplained`, `HistoryIsLadder`, `SettledByWhatCloseRead`, `SoldToARealBid`, `AcceptedInTime`, `NeverReopens`, and each key stays an `AscendingAuction` but for what Redis loses (`AuctionsAscend`) |
| `jobs` | Two auctions, batches of one, a crash: `DueIsSettled`, `DueIsStarted`, and the table implements `Lifecycle` (for every fault: the theorem `LifecycleCorrect`) |
| `requests` | Commit before reply, concurrent proxies, prices that overflow, a stream trimmed to one entry, one fault of any kind (after `redis_loss` the script is missing until a restart): `RequestsAnswered`, `HoldersFinish`, `StreamCoversAccepted`, `ToldTheTruth` with the row committed |
| `clients` | Live feed, with other users of the pool: `FramesAreBids`, `CaughtUp`, `OneConnectionEach`, `FramesArrive`, `BidsEnd`. Users: `OneRowPerEmail`, `SignupsEnd`. Search: `SearchIsComplete`, `FoundStaysTrue` |
| `readers` | One client among two or three bids and both jobs, with a crash or a failed commit of a job: `WalkIsComplete`, `PriceCoversBids`, `ViewsMoveForward`, `ShownOutcomeIsKept`, `SettledRowIsShown`; with nobody looking: `HighestBidCounts` |
| `close_race`, `start_rewind`, `redis_restart`, `poison`, `reserve_met`, `stream_order` | Statements of the documents that the code does not keep, each with a counterexample |

The six counterexamples, shortest trace of each:

* `close_race` (no fault). A bid received in the last second is judged after
  `close_auction` has read the hash. It is ACCEPTED and an earlier bid, or
  nobody, wins. `SettledByWhatCloseRead` says what remains true: the winner is
  the best bid the close had read. `HighestBidCounts` says that this race and a
  wiped hash are the only ways to lose the highest bid, and the theorem
  `OnlyLateBidsAreMissed` that it is the only way for a close to miss a bid.
* `start_rewind`. The start writes the hash, a bid is accepted (`place_bid` does
  not look at the row's state), the process dies before the commit, and the
  next poll writes the hash again. The bid is forgotten. Theorem `MemoryIsKept`:
  it takes this crash, a failed commit of the job or a lost Redis.
* `redis_restart`. Redis loses its data (`docker-compose.yml` gives it no
  volume); `close_auction` finds no hash and settles UNSOLD. DESIGN.md:441
  promises a rebuild that no code does.
* `poison`. The leader has no `user` row. The flush fails, the handler's log
  line touches an expired attribute outside a greenlet and raises too, and the
  batch is lost, at every poll. A registered leader whose price overflows
  `Numeric(12, 2)` takes the same path (`LeaderFits`); the run shows the shorter
  way. `jobs` shows that with registered bidders and prices that fit everything
  due is settled; theorem `OnlyRefusedBidsBlock` says of the leader that its bid
  is in no table and its bidder was never told of a verdict.
* `reserve_met`. `float >= Decimal`: a bid of 0.70 does not meet a reserve of
  0.70. Theorem `MetReserveSells`: nothing else leaves such an auction unsold.
* `stream_order`. XADD and EVALSHA of two requests interleave.

### Bounds, and why they are enough

`kernel`: two bidders, three bid_ids; three amounts (one off the cent), two
increments (one renders as 0.00), times on both sides of the end's second. Three
bids give a leader, a rival and a self-outbid. `faults`: one auction, two
requests, two bidders of whom one is registered, three amounts of which one
overflows its column, four ticks of half a second, a start after 0 and an end
inside a second, one fault. A price that overflows is offered once, by the
registered bidder and where nothing else fails (`OneOverflow`): what it leads
to, a failed flush, is what an unregistered bidder leads to under every fault.
The streams, which nothing reads, are left out of the states that TLC tells
apart (`VIEW AllButStreams`); no property of the run speaks of them. Two
requests are the fewest that interleave with each other and with a close; the
properties each speak of one auction; a second fault only repeats what the first
allows at a larger cost. `jobs` has the second auction and `BatchSize` 1, so
that a poll leaves work behind. `requests` has one bidder, so that proxy keys
meet, and a `StreamLimit` of 1, so that the second append may trim the first.

`clients`: two bids and two watchers on a pool of two, so that both bids and
watchers can find it used up, by each other or by `others`, with one fault
(failed command with or without effect, broken subscription, restart); three
registrations for two emails, so that one loses a race that another wins, with a
failed commit or a crash; three listings and pages of two, so that there is an
extra row. The parts share no state, so a behaviour is one of them at a time:
their product would only multiply states. `readers`: pages of one bid, three
requests, two ticks and one fault, a crash or a failed commit of a job. The
constraint `FewBids` gives each question the bids it needs. Walks: up to three
bids before time passes and anything fails, so that a bid of any rank commits
before, between or after the pages of a walk of up to three; and two bids in an
auction listed ahead of its start, so that a start repeated after a crash
numbers them alike. Views, closes and settlements: two bids in an auction that
opens at once, one where the start comes later (two matter to prices, the start
to what views show before and after it, and there one bid is enough for a price
to be forgotten). The streams are left out of the view here too.

`MaxTime` bounds the clock, `MaxFaults` the faults, the set `Requests` the
number of bids; the bounded clock, the finite set of requests and auctions are
why runs end and why they say `CHECK_DEADLOCK FALSE` (`kernel` keeps the
deadlock check: a redelivery is always possible). Requests are interchangeable,
and `faults` and `readers`, which check no liveness, use that symmetry.

### Fairness

`FairSpec` assumes weak fairness of the clock, of each job as a whole and of
each request's own steps. The event loop runs every coroutine that is ready,
`create_scheduler` starts each job every second with `max_instances=1`, and a
Redis or database call returns or raises. No fault is ever required, with one
exception that is no fault: EVALSHA of a script that is not loaded does raise.
Creating an auction and sending a request carry no fairness. `clients` assumes
the same of its coroutines: `PlaceBid(b)` once a bid has arrived, `Handle(w)`
once a watcher has connected, `Register(s)` once a registration has looked up
its email; arrivals and faults carry none. `FramesArrive` and `BidsEnd` speak of
all watchers and all bids at once, and each bid and handler takes finitely many
steps; so does `SignupsEnd` of all registrations. The readers' properties are
safety and need none.

## 4. Proofs

Checked by TLAPS for every value of the constants that satisfies the named
assumptions (`BidScriptAssumption`, `BidKernelAssumption`,
`AuctionSystemAssumption`, `LiveFeedAssumption`, `RegistrationAssumption`,
`SearchAssumption`, `ReadersAssumption`: types of the constants, finitely many
bids and watchers at one feed, no ties in the rendering).

* **Bid script** (`BidScriptProofs`): lemmas on the operators; `AcceptedMeans`
  reads off `Verdict` what an acceptance implies (active, in time, at least the
  increment above), and is all the later proofs need of it.
* **Bid kernel** (`BidKernelProofs`). `TypeCorrect`, then `Invariance`:
  `IInv == TypeOK /\ FreshKey /\ HashMatchesLog /\ Ladder /\ AcceptedOnce` is
  inductive. `Ladder` alone is not: a new bid is compared with the hash, not
  with the log, so `HashMatchesLog` is needed to carry the comparison over; and
  `FreshKey` (an unopened key is empty and nothing is logged) is what `Open`
  needs to establish that match. `HashCorrect`, `LadderCorrect`, `OnceCorrect`
  follow. `VerdictStable` rests on `TypeOK`, which ties the cache to the last
  reply. `Implements` maps each action to a step or a stutter of
  `AscendingAuction`.
* **Auction system** (`AuctionSystemProofs`). `TypeCorrect` for all actions and
  faults. `JobsCorrect`: what a job holds fits the committed rows (started rows
  are UPCOMING, rows in a close are ACTIVE, a pending sale has a bidder), which
  is inductive with `TypeOK` because no action writes a row's status but the two
  commits, and a row cannot be in both jobs. `LifecycleCorrect`: the table
  implements `Lifecycle`; `RowWriters` reduces the step to the three actions
  that write rows, and `JobsHold` supplies the guards of `Open` and `Settle`.
* **Settlement** (`SettlementProofs`). `TimesHold` ties hash, row and clock: a
  hash has its row's end truncated to the second or none, takes bids only once
  the row's start has come, and what a job has selected is due. With `TypeOK`
  and `JobsHold` it is inductive and gives `ClosesAreDue` (stated of
  `ExtensionUnreachable`, which is no property of a run: it justifies the branch
  that `CloseRead` leaves out), `SettledStaysClosed` and `BidsAreInTime`.
  `SalesHold` ties every leader to the history of accepted bids: the leader of a
  hash, of a close's snapshot, of its session and of a settled row each come
  with an accepted bid at the price beside it. It needs no assumption on the
  hash keeping its memory, so `SalesAreReal` covers wiped hashes too.
* **Answers and stream** (`HistoryProofs`). `AnswersHold` follows a request from
  place to place: not accepted before the script ran, then a session that holds
  the script's verdict, then an answer that repeats it; `ToldTheTruth` alone is
  not inductive, since it says nothing before the answer: `AnswersAreTrue`.
  `Explained` adds the committed row and the reason for which an accepted bid
  got none: `LossesAreExplained`. `StreamHolds` follows a request into the
  stream, as long as nothing has failed, and out of it only by trimming: an
  append keeps `StreamLimit` entries (`TrimKeeps`), so a stream that has lost
  one is never shorter again. `StreamIsComplete`.
* **History and outcome** (`HistoryProofs`). While a hash has not lost bids it
  counts them and holds the last one (`LadderOf`), its increment is the row's
  (`StepsFit`), and the script's comparison with the hash is therefore one with
  the last bid, and through the ladder with all. `NumbersHold` carries the
  number from the script through the session to the row: `HistoryOrdered`.
  `ClosesFit` carries the best bid from the close's read through its session to
  the row; `OneTurn`, that a close comes to an auction once in a batch, keeps a
  second read from changing `seen` under an outcome that waits for its commit:
  `SettlementCorrect`.
* **The keys in the system** (`HistoryProofs`). `AuctionsDoAscend`: what
  `BidKernel` shows of one key by itself holds for every key amid the jobs, the
  requests and all faults. `KeysFit` and `LadderOf` make a start that is
  repeated a stutter unless it wipes bids (an opened key without bids is as the
  start writes it), `BidsAreListed` that a key is created empty, and a repeated
  close changes no more than the mark. The two exceptions it names are real: a
  key that Redis has lost, and the closing HSET on a key whose opening one has
  failed, which leaves a settled key that never was open.
* **Proxy rows** (`HistoryProofs`). `HoldersFinish` is inductive with `TypeOK`:
  a key is held from its INSERT, whose guard excludes a committed and a held
  one, to the commit or rollback, and the holder has nothing else left. So a
  waiting INSERT waits for a session that waits for none (`ProxyWaitsEnd`); that
  the session does end is `RequestsAnswered`, left to TLC.
* **Progress of requests** (`HistoryProofs`), the safety behind
  `RequestsAnswered`. `RequestsAdvance`: every step of a request brings it
  nearer its end, of which it is at most eight away, and its answer stands once
  given; with `AnswersHold` it needs that an ended request is answered
  (`EndsAnswered`). `NobodyIsStuck` writes out the guards (`CanGoOn`) and takes
  a request that waits to one that does not. What is left to TLC is that fair
  steps are taken. `BidsAreAcceptedOnce`: a request whose bid is not accepted
  yet has not passed the script (`AnswersHold`), so no request is in the
  histories twice.
* **Progress of the jobs** (`HistoryProofs`), the safety behind `DueIsStarted`
  and `DueIsSettled`. `DueStaysDue`: an auction is due until it is started or
  settled, however often a batch is rolled back (`JobsHold`, and time does not
  go back). `SelectedAreServed`: what a poll has selected leaves its batch
  (`InStarts`, `InCloses`) started or settled, or by a fault, or by a close that
  fails on its leader (`LeaderFits`: no user row, or a price that overflows),
  the counterexample of `poison`. That every due auction is selected in the end,
  and that the fair steps are taken, is left to TLC.
* **What it takes to go wrong** (`HistoryProofs`, `ReadersProofs`): a positive
  theorem beside each of five counterexamples. Each supposes exactly what the
  counterexample uses to be absent, and nothing of the rest.
  * `MemoryIsKept`, `BidsAreNotLost` (`Steady`: `FaultKinds` has no
    `redis_loss`, `app_crash` or `job_commit_error`). `MemoryHolds` says that an
    auction that waits for its start has no hash, and without a hash no bids,
    unless the job holds its start already: then it cannot start twice.
  * `MetReserveSells` (`FloatBelow` is empty). `ReservesHold` says the same of
    the session's outcome and of the row, and `RowsUnpriced` why an outcome
    without a leader has no price.
  * `OnlyLateBidsAreMissed` (no condition): from a close's read of the hash and
    until another bid is accepted, `seen` is the length of the history
    (`SeenAll`), for repeated closes too.
  * `BestBidWins` draws these together: with the conditions of the first two, a
    settled auction none of whose bids came after the read records the highest
    of all accepted bids, SOLD to its bidder exactly if it meets the reserve.
  * `OnlyRefusedBidsBlock` (no condition): `UnfitsFail` says that a bid whose
    bidder has no `user` row, or whose price overflows, gets no bid row and no
    verdict, `SalesHold` that the leader a close has read has an accepted bid at
    the price it has read.
  * `EachAuctionAscends` (`Undisturbed`: only commits of requests fail): without
    the two exceptions of `AuctionsDoAscend` every key implements
    `AscendingAuction`. `KeysPresent` says that what has started has a key.
  The conditions are on the constants `FaultKinds` and `FloatBelow`, which the
  model leaves free: a run without faults, or with failed commits of requests
  only, is `Steady` and `Undisturbed`, and `FloatBelow` is empty in every run
  but `reserve_met`.
* **Live feed** (`LiveFeedProofs`). `IInv` is `TypeOK`, `FramesAreBids`,
  `NumbersAreGiven` (a bid has a number exactly from its acceptance on),
  `LatestIsABid` (the hash's number is some bid's) and `SnapshotCoversSent` (a
  snapshot is no older than what the channel had carried).
  `FramesAreAcceptedBids`, `WatchersCatchUp` for any number of bids, watchers,
  connections and faults. `WatchersCostOneEach` counts: every connection in use
  belongs to a bid on its way, a watcher reading its snapshot, one that holds it
  for good, or to something else (`others`), and no watcher is both
  (`HeldHaveCome`), so the pool is used up only by as many parties.
  `BidsMoveOn`: each step of a bid brings it nearer its end, of which it is at
  most seven steps away, and it keeps its number.
* **Users and search** (`ClientsProofs`). `SignupIInv` is `SignupTypeOK`,
  `IndexHolds` (the committed and the uncommitted rows have emails of their own)
  and `ToldRight`; `EmailsAreUnique` follows. With `RepliesFirst` (only a
  session that commits after its response has replied before it) it gives
  `RegistrationsAdvance`, and `RivalsDoNotDeadlock`: by `IndexHolds` one session
  holds an email, and it can go on. `SearchIInv` adds to the type and to the two
  properties of the search that the counted rows and the shown ones only move on
  (`CountedMoveOn`, `FoundMoveOn`) and that a count nothing has disturbed is
  that of the page (`FreshCount`): a row that was counted and still matches has
  not moved, since no row comes back to a state. `SearchesAreComplete`,
  `FoundNeverGoesBack`. `PartsKeepTheirSpecs`: a behaviour of the composition
  `MCClients` is one of each part; `ClientsTypesHold` follows.
* **Readers** (`ReadersProofs`). `ReadersRefine`: a behaviour with readers is
  one of `AuctionSystem`, so that all of the above holds in it (`SystemHolds`).
  `StoresHold` is what readers rely on: a bid's row is committed as its request
  ends, a key without a leader has no price, a row without an outcome none
  either, and without a fault key and row agree on the outcome.
  * `WalkHolds`: what a walk still owes lies below its cursor, or has the number
    of a bid it has shown (`Covered`). That a bid
    committed later cannot push another out of it is `HistoryIsLadder`, numbers
    of one auction being different until its hash is wiped. `WalksAreComplete`.
  * `ViewHolds`: the row a view has read is one the auction has had, the bids
    are in the history, and what is in the history is in the hash.
    `ViewsCoverBids`, `SettledRowsAreShown`.
  * `OutcomesHold`: from the first read of the hash by a close, and until a bid
    is accepted after that, the outcome is a function of the hash (`Fate`), and
    the close's snapshot, its session, the row, the closing mark and what a view
    shows all agree with it; before that read nothing is settled
    (`Unsettled`). It speaks of repeated closes because it does not say which
    close it was. `ShownOutcomesAreKept`, `HighestBidsCount`.
  * `MovesHold`: what was shown from the hash the hash still has or has passed;
    what was shown from the row, the row and the view in progress have.
    `ViewsOnlyMoveForward` supposes that `FaultKinds` lacks `redis_loss`, and
    needs to: before a commit the row is behind the hash, and a Redis that comes
    back empty shows the row again. All other faults are covered.

Every safety property that a passing run checks is thus proved, for every value
of the constants (`ViewsMoveForward` with the condition above).
Left to TLC, being liveness under fairness: `DueIsSettled`,
`DueIsStarted`, `RequestsAnswered`, `FramesArrive`, `BidsEnd`, `SignupsEnd`.
The counterexamples of the six other runs are of their nature TLC's.

## 5. Not modelled

Configuration and health (no state that changes), deployment and migrations
(no logic; the constraints of the schema are in the modules that meet them).
Partly: the lifespan (a start while Redis is down registers no script, and every
bid then fails, as after `RedisLoss`); the rendering of money, where ties and
the double comparisons are assumptions and constants rather than computed.

## 6. Plan

Done: all modules above, the proofs of all safety properties, and the safety
behind `RequestsAnswered`, `BidsEnd`, `SignupsEnd`, `DueIsSettled` and
`DueIsStarted`. What could follow:

1. `Money`: a bounded check of the rendering and of the double comparisons that
   `SumRoundsUp` and `FloatBelow` stand for.
