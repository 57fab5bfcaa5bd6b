----------------------------- MODULE Lifecycle -----------------------------
(***************************************************************************)
(* What the auction table promises its readers: a listed auction is opened *)
(* at most once, settled at most once, and a settled row is final.  The    *)
(* scheduler opens and settles whole batches in one commit.                *)
(***************************************************************************)
EXTENDS Integers

CONSTANTS Auctions, Bidders, NoBidder

VARIABLES status, price, winner

vars == <<status, price, winner>>

Init == /\ status = [a \in Auctions |-> "absent"]
        /\ price = [a \in Auctions |-> 0]
        /\ winner = [a \in Auctions |-> NoBidder]

List(a) == /\ status[a] = "absent"
           /\ \E s \in {"UPCOMING", "ACTIVE"} : status' = [status EXCEPT ![a] = s]
           /\ UNCHANGED <<price, winner>>

Open(S) == /\ \A a \in S : status[a] = "UPCOMING"
           /\ status' = [a \in Auctions |-> IF a \in S THEN "ACTIVE" ELSE status[a]]
           /\ UNCHANGED <<price, winner>>

(* A sale names a winner; an auction that is not sold has none.            *)
Settle(S) ==
    /\ \A a \in S : /\ status[a] = "ACTIVE"
                    /\ price'[a] \in Nat
                    /\ \/ status'[a] = "SOLD" /\ winner'[a] \in Bidders
                       \/ status'[a] = "UNSOLD" /\ winner'[a] = NoBidder
    /\ status' = [a \in Auctions |-> IF a \in S THEN status'[a] ELSE status[a]]
    /\ price' = [a \in Auctions |-> IF a \in S THEN price'[a] ELSE price[a]]
    /\ winner' = [a \in Auctions |-> IF a \in S THEN winner'[a] ELSE winner[a]]

Next == \/ \E a \in Auctions : List(a)
        \/ \E S \in SUBSET Auctions : Open(S) \/ Settle(S)

Spec == Init /\ [][Next]_vars

=============================================================================
