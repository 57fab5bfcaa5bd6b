----------------------------- MODULE BidKernel -----------------------------
(***************************************************************************)
(* The place_bid script over the life of one auction key.  A request is a  *)
(* bid_id with its arguments; EVALSHA may deliver it more than once (that  *)
(* is what the dedup key bid_result:{bid_id} is for), in any order with    *)
(* other requests.  The scheduler's HSETs open and close the key.          *)
(***************************************************************************)
EXTENDS BidScript, Sequences

CONSTANTS
    Requests,       \* bid_ids
    Amounts,        \* amounts in mills that requests offer
    Increments,     \* min_increment values in mills
    Ends,           \* end times in ticks
    Times           \* times in ticks at which requests are received

ASSUME BidKernelAssumption ==
    /\ Amounts \subseteq Nat
    /\ Increments \subseteq Nat
    /\ Ends \subseteq Nat
    /\ Times \subseteq Nat
    /\ \A m \in Amounts \cup Increments : m % 10 # 5

VARIABLES
    hash,    \* the auction hash
    sent,    \* the arguments a bid_id was sent with
    cached,  \* bid_result:{bid_id}
    reply,   \* the last reply of the script to each bid_id
    log      \* history: the bids the script accepted, in order

vars == <<hash, sent, cached, reply, log>>

-----------------------------------------------------------------------------

Call == [bidder : Bidders, amount : Amounts, ts : Times]

NoCall == [bidder |-> NoBidder, amount |-> 0, ts |-> 0]

Reply == [verdict : Rejections \cup {"ACCEPTED"}, price : Nat, seq : Nat]

NoReply == [verdict |-> "none", price |-> 0, seq |-> 0]

Entry == [req : Requests, bidder : Bidders, amount : Nat, ts : Times]

(* Types, and the shape the dedup cache keeps with the arguments and the   *)
(* last reply: only what was sent is judged, and only what was judged has  *)
(* a reply.  The cache is written once by the script (redis_client.py:56). *)
TypeOK ==
    /\ hash \in Hash
    /\ sent \in [Requests -> Call \cup {NoCall}]
    /\ cached \in [Requests -> Rejections \cup {"ACCEPTED", "none"}]
    /\ reply \in [Requests -> Reply \cup {NoReply}]
    /\ log \in Seq(Entry)
    /\ \A r \in Requests : cached[r] = reply[r].verdict
    /\ \A r \in Requests : cached[r] # "none" => sent[r] \in Call

-----------------------------------------------------------------------------

Init == /\ hash = NoHash
        /\ sent = [r \in Requests |-> NoCall]
        /\ cached = [r \in Requests |-> "none"]
        /\ reply = [r \in Requests |-> NoReply]
        /\ log = << >>

(* _init_redis_hash                                                        *)
Open == /\ hash.state = "none"
        /\ \E end \in Ends, inc \in Increments : hash' = InitHash(end, Cents(inc))
        /\ UNCHANGED <<sent, cached, reply, log>>

(* place_bid fixes the arguments of a fresh bid_id.                        *)
Send(r) ==
    /\ sent[r] = NoCall
    /\ \E c \in Call : sent' = [sent EXCEPT ![r] = c]
    /\ UNCHANGED <<hash, cached, reply, log>>

(* Mutants of Remembered: only acceptances, or only rejections, are SET.   *)
RememberAcceptances(v) == IF v = "ACCEPTED" THEN v ELSE "none"

RememberRejections(v) == IF v = "ACCEPTED" THEN "none" ELSE v

(* What the script SETs in bid_result:{bid_id}: any verdict.               *)
Remembered(v) == v

(* Steps 1 to 6 of the script on a bid_id without a cached result.         *)
Judge(r) ==
    LET c == sent[r]
        v == Verdict(hash, c.bidder, Cents(c.amount), c.ts)
    IN  /\ c # NoCall
        /\ cached[r] = "none"
        /\ cached' = [cached EXCEPT ![r] = Remembered(v)]
        /\ IF v = "ACCEPTED"
           THEN /\ hash' = Raise(hash, c.bidder, Cents(c.amount))
                /\ reply' = [reply EXCEPT ![r] =
                       [verdict |-> v, price |-> hash'.price, seq |-> hash'.seq]]
                /\ log' = Append(log, [req |-> r, bidder |-> c.bidder,
                                       amount |-> Cents(c.amount), ts |-> c.ts])
           ELSE /\ reply' = [reply EXCEPT ![r] =
                       [verdict |-> v, price |-> 0, seq |-> 0]]
                /\ UNCHANGED <<hash, log>>
        /\ UNCHANGED sent

(* Step 0 of the script: a redelivered bid_id gets its cached status, and  *)
(* if it was accepted the price and sequence number the hash has now.      *)
Replay(r) ==
    /\ cached[r] # "none"
    /\ reply' = [reply EXCEPT ![r] =
           IF cached[r] = "ACCEPTED"
           THEN [verdict |-> "ACCEPTED", price |-> hash.price, seq |-> hash.seq]
           ELSE [verdict |-> cached[r], price |-> 0, seq |-> 0]]
    /\ UNCHANGED <<hash, sent, cached, log>>

(* close_auction's HSET of the settled state.                              *)
Close == /\ hash.state = "ACTIVE"
         /\ \E s \in Settled : hash' = [hash EXCEPT !.state = s]
         /\ UNCHANGED <<sent, cached, reply, log>>

Next == \/ Open
        \/ Close
        \/ \E r \in Requests : Send(r) \/ Judge(r) \/ Replay(r)

Spec == Init /\ [][Next]_vars

-----------------------------------------------------------------------------

Last == log[Len(log)]

(* The three fields a bid moves always describe the last accepted bid, and *)
(* sequence_num counts the accepted bids: no lost or doubled HINCRBY, and  *)
(* no write to the hash by a rejected or a redelivered request.            *)
HashMatchesLog ==
    /\ hash.seq = Len(log)
    /\ IF log = << >>
       THEN hash.price = 0 /\ hash.leader = NoBidder
       ELSE hash.price = Last.amount /\ hash.leader = Last.bidder

(* Each accepted bid was in time for the end_ts of the hash and beats the  *)
(* one before it by min_increment, whatever the order of delivery.         *)
Ladder ==
    /\ \A i \in 1..Len(log) : Seconds(log[i].ts) < hash.end
    /\ \A i \in 2..Len(log) : log[i].amount >= log[i-1].amount + hash.inc

(* A bid_id is accepted at most once however often it is delivered, and it *)
(* is cached as ACCEPTED exactly when it was.                              *)
AcceptedOnce ==
    /\ \A i, j \in 1..Len(log) : log[i].req = log[j].req => i = j
    /\ \A r \in Requests :
           cached[r] = "ACCEPTED" <=> \E i \in 1..Len(log) : log[i].req = r

(* A bid_id that has been told a verdict is never told another, whatever   *)
(* happened to the auction between two deliveries (redis_client.py:56-64). *)
StableVerdict ==
    [][\A r \in Requests :
          reply[r].verdict # "none" => reply'[r].verdict = reply[r].verdict]_vars

-----------------------------------------------------------------------------

phase == IF hash.state = "none" THEN "pending"
         ELSE IF hash.state = "ACTIVE" THEN "open"
         ELSE "closed"

Auction == INSTANCE AscendingAuction
             WITH increment <- hash.inc, price <- hash.price,
                  leader <- hash.leader, count <- hash.seq

(* The key implements the ascending auction: in particular nothing moves   *)
(* its price, leader or count once the closing HSET has been executed.     *)
AuctionSpec == Auction!Spec

=============================================================================
