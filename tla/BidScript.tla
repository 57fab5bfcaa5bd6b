----------------------------- MODULE BidScript -----------------------------
(***************************************************************************)
(* The Redis side of one auction: the hash "auction:{id}" and the verdict  *)
(* of the place_bid Lua script of redis_client.py, as pure operators.      *)
(* Requests carry amounts in mills (thousandths); what Redis holds is in   *)
(* cents.  Times are ticks, and TicksPerSecond ticks make the second that  *)
(* int(time.time()) and int(end_ts.timestamp()) truncate to.               *)
(***************************************************************************)
EXTENDS Integers

CONSTANTS
    Bidders,        \* the ids that X-User-ID headers carry
    NoBidder,       \* the empty highest_bidder field
    TicksPerSecond, \* resolution of the clock below one second
    SumRoundsUp     \* <<current, inc>> whose sum in doubles exceeds the decimal sum

ASSUME BidScriptAssumption ==
    /\ NoBidder \notin Bidders
    /\ TicksPerSecond \in Nat \ {0}
    /\ SumRoundsUp \subseteq Nat \X Nat

-----------------------------------------------------------------------------

(* f"{float(val):.2f}": nearest cent.  Ties are kept out of the inputs.    *)
Cents(mills) == (mills + 5) \div 10

(* int(timestamp): the whole second a tick lies in.                        *)
Seconds(t) == t \div TicksPerSecond

Settled == {"SOLD", "UNSOLD"}

HashState == {"none", "ACTIVE"} \cup Settled

Hash == [state : HashState, price : Nat, leader : Bidders \cup {NoBidder},
         end : Nat, seq : Nat, inc : Nat]

(* A key that is not in Redis, with the defaults its readers fall back on. *)
NoHash == [state |-> "none", price |-> 0, leader |-> NoBidder,
           end |-> 0, seq |-> 0, inc |-> 0]

(* The mapping that _init_redis_hash writes; inc is already in cents.      *)
InitHash(end, inc) ==
    [state |-> "ACTIVE", price |-> 0, leader |-> NoBidder,
     end |-> Seconds(end), seq |-> 0, inc |-> inc]

(* Mutant of EnoughFor: the increment is not added.                        *)
EnoughWithoutIncrement(amount, current, inc) == amount > current

(* current + min_inc <= amount as Lua's doubles compute it: two-decimal    *)
(* numbers keep their order, except that a sum may come out just above its *)
(* decimal value and so above an amount equal to it.                       *)
EnoughFor(amount, current, inc) ==
    \/ amount > current + inc
    \/ amount = current + inc /\ <<current, inc>> \notin SumRoundsUp

(* Mutants of Verdict: the script without one of its checks.               *)
VerdictWithoutState(h, bidder, amount, ts) ==
    IF Seconds(ts) >= h.end THEN "AUCTION_ENDED"
    ELSE IF h.leader = bidder /\ amount <= h.price THEN "SELF_OUTBID"
    ELSE IF ~EnoughFor(amount, h.price, h.inc) THEN "BID_TOO_LOW"
    ELSE "ACCEPTED"

VerdictWithoutTime(h, bidder, amount, ts) ==
    IF h.state # "ACTIVE" THEN "AUCTION_NOT_ACTIVE"
    ELSE IF h.leader = bidder /\ amount <= h.price THEN "SELF_OUTBID"
    ELSE IF ~EnoughFor(amount, h.price, h.inc) THEN "BID_TOO_LOW"
    ELSE "ACCEPTED"

VerdictWithoutAmount(h, bidder, amount, ts) ==
    IF h.state # "ACTIVE" THEN "AUCTION_NOT_ACTIVE"
    ELSE IF Seconds(ts) >= h.end THEN "AUCTION_ENDED"
    ELSE IF h.leader = bidder /\ amount <= h.price THEN "SELF_OUTBID"
    ELSE "ACCEPTED"

(* Steps 1 to 4 of the script, in its order: the first failed check names  *)
(* the rejection.                                                          *)
Verdict(h, bidder, amount, ts) ==
    IF h.state # "ACTIVE" THEN "AUCTION_NOT_ACTIVE"
    ELSE IF Seconds(ts) >= h.end THEN "AUCTION_ENDED"
    ELSE IF h.leader = bidder /\ amount <= h.price THEN "SELF_OUTBID"
    ELSE IF ~EnoughFor(amount, h.price, h.inc) THEN "BID_TOO_LOW"
    ELSE "ACCEPTED"

Rejections == {"AUCTION_NOT_ACTIVE", "AUCTION_ENDED", "SELF_OUTBID", "BID_TOO_LOW"}

(* Mutants of Raise: the leader is not written, the number not increased.  *)
RaiseWithoutLeader(h, bidder, amount) == [h EXCEPT !.price = amount, !.seq = @ + 1]

RaiseWithoutCount(h, bidder, amount) ==
    [h EXCEPT !.price = amount, !.leader = bidder]

(* Step 4 of the script: HSET highest_bid, highest_bidder; HINCRBY.        *)
Raise(h, bidder, amount) ==
    [h EXCEPT !.price = amount, !.leader = bidder, !.seq = @ + 1]

=============================================================================
