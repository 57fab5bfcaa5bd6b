-------------------------- MODULE AscendingAuction --------------------------
(***************************************************************************)
(* What a single auction promises: it opens once, every accepted bid beats *)
(* the price before it by at least the increment, and once it has closed   *)
(* its price, leader and number of bids are final.                         *)
(***************************************************************************)
EXTENDS Integers

CONSTANTS Bidders, NoBidder

VARIABLES phase, increment, price, leader, count

vars == <<phase, increment, price, leader, count>>

Init == /\ phase = "pending"
        /\ increment = 0
        /\ price = 0
        /\ leader = NoBidder
        /\ count = 0

Open == /\ phase = "pending"
        /\ phase' = "open"
        /\ increment' \in Nat
        /\ UNCHANGED <<price, leader, count>>

AcceptBid(b) ==
    /\ phase = "open"
    /\ phase' = "open"
    /\ price' \in Nat
    /\ price' >= price + increment
    /\ leader' = b
    /\ count' = count + 1
    /\ UNCHANGED increment

Close == /\ phase = "open"
         /\ phase' = "closed"
         /\ UNCHANGED <<increment, price, leader, count>>

Next == Open \/ Close \/ \E b \in Bidders : AcceptBid(b)

Spec == Init /\ [][Next]_vars

=============================================================================
