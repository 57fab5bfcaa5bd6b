------------------------------- MODULE Search -------------------------------
(***************************************************************************)
(* GET /auctions while listings appear, open and are settled: a count and  *)
(* a page are two queries, and a page without a next_cursor claims to be   *)
(* all there is.  The table moves as Lifecycle allows, which AuctionSystem *)
(* implements.                                                             *)
(***************************************************************************)
EXTENDS Naturals, Sequences, FiniteSets

CONSTANTS
    Listings,     \* auctions as numbers, the newer the greater (created_at, auction_id)
    StartPrice,   \* their starting_price
    FinalPrices,  \* highest_bid of settled rows; 0 stands for NULL
    Filters,      \* sets of listings that a category and a keyword select
    Bounds,       \* [min, max] records: price_min and price_max
    AskedStates,  \* values of the state parameter
    SearchLimit   \* the limit parameter

ASSUME SearchAssumption ==
    /\ Listings \subseteq Nat /\ StartPrice \in Nat /\ FinalPrices \subseteq Nat
    /\ Filters \subseteq SUBSET Listings
    /\ Bounds \subseteq [min : Nat, max : Nat]
    /\ SearchLimit \in Nat \ {0}

VARIABLES
    table,    \* state and highest_bid of the committed rows
    phase,    \* where the search stands
    ask,      \* its parameters
    counted,  \* what the count query counted
    got,      \* the items its client has received
    more,     \* whether there is a next_cursor
    fresh     \* history: no commit since the count

tableVars == <<table, fresh>>
askVars == <<phase, ask, counted, got, more>>
searchVars == <<tableVars, askVars>>

Running == {"UPCOMING", "ACTIVE"}
Final   == {"SOLD", "UNSOLD"}

Entries == [status : {"absent"} \cup Running \cup Final, price : Nat]

Asks == [state : AskedStates, among : Filters, bounds : Bounds]

NoAsk == [state |-> "none", among |-> {}, bounds |-> [min |-> 0, max |-> 0]]

Items == [listing : Listings, status : Running \cup Final, price : Nat]

(* Types; a page that is not the last is full.                             *)
SearchTypeOK ==
    /\ table \in [Listings -> Entries]
    /\ phase \in {"idle", "counted", "shown", "failed"}
    /\ ask \in Asks \cup {NoAsk} /\ counted \subseteq Listings
    /\ got \in Seq(Items) /\ more \in BOOLEAN /\ fresh \in BOOLEAN
    /\ phase \in {"idle", "counted"} => got = << >> /\ ~more
    /\ phase = "shown" => IF more THEN Len(got) = SearchLimit ELSE Len(got) <= SearchLimit

-----------------------------------------------------------------------------
(* What other sessions commit.                                             *)

Commit(l, from, to) == /\ table[l].status = from
                       /\ table' = [table EXCEPT ![l] = to]
                       /\ fresh' = FALSE
                       /\ UNCHANGED askVars

ListingAppears(l) ==
    \E s \in Running : Commit(l, "absent", [status |-> s, price |-> 0])

ListingOpens(l) == Commit(l, "UPCOMING", [status |-> "ACTIVE", price |-> 0])

ListingSettles(l) ==
    \E p \in FinalPrices, s \in Final :
        /\ s = "SOLD" => p > 0
        /\ Commit(l, "ACTIVE", [status |-> s, price |-> p])

-----------------------------------------------------------------------------
(* _build_where.  A state it does not know is taken for ACTIVE.            *)

StateAsked(q) ==
    IF q.state \in {"UPCOMING", "ACTIVE", "CLOSED", "SOLD", "UNSOLD"}
    THEN q.state ELSE "ACTIVE"

(* Mutant of Listed: the final price is not looked at.                     *)
ListedAtStart(l) == StartPrice

(* coalesce(highest_bid, starting_price): highest_bid is NULL until the    *)
(* auction is settled, whatever has been bid.                              *)
Listed(l) == IF table[l].price = 0 THEN StartPrice ELSE table[l].price

Matches(q) == {l \in q.among : /\ table[l].status = StateAsked(q)
                               /\ q.bounds.min <= Listed(l)
                               /\ Listed(l) <= q.bounds.max}

(* The newest n of a set of listings, newest first.                        *)
Latest(S, n) ==
    LET newer(l) == Cardinality({m \in S : m > l})
        size == IF Cardinality(S) < n THEN Cardinality(S) ELSE n
    IN  [i \in 1..size |-> CHOOSE l \in S : newer(l) = i - 1]

Item(l) == [listing |-> l, status |-> table[l].status, price |-> Listed(l)]

Count ==
    /\ phase = "idle"
    /\ \E q \in Asks : ask' = q /\ counted' = Matches(q)
    /\ phase' = "counted"
    /\ fresh' = TRUE
    /\ UNCHANGED <<table, got, more>>

(* LIMIT limit + 1: the extra row is cut off and tells that there is more. *)
FetchPage ==
    /\ phase = "counted"
    /\ LET page == Latest(Matches(ask), SearchLimit)
       IN  /\ got' = [i \in 1..Len(page) |-> Item(page[i])]
           /\ more' = (Cardinality(Matches(ask)) > SearchLimit)
    /\ phase' = "shown"
    /\ UNCHANGED <<tableVars, ask, counted>>

(* Mutant of FollowCursor: a cursor that is not understood is ignored, as  *)
(* one that _decode_cursor cannot read is.                                 *)
FollowNothing ==
    /\ phase = "shown" /\ more
    /\ LET page == Latest(Matches(ask), SearchLimit)
       IN  got' = got \o [i \in 1..Len(page) |-> Item(page[i])]
    /\ more' = FALSE
    /\ UNCHANGED <<tableVars, phase, ask, counted>>

(* The next page never comes: with a cursor that decodes, _build_where     *)
(* calls bindparams on a literal_column, which has no such method.         *)
FollowCursor ==
    /\ phase = "shown" /\ more
    /\ phase' = "failed"
    /\ UNCHANGED <<tableVars, ask, counted, got, more>>

(* The client turns to something else.                                     *)
EndSearch ==
    /\ phase \in {"shown", "failed"}
    /\ phase' = "idle" /\ ask' = NoAsk /\ counted' = {} /\ got' = << >>
    /\ more' = FALSE /\ fresh' = FALSE
    /\ UNCHANGED table

SearchInit == /\ table = [l \in Listings |-> [status |-> "absent", price |-> 0]]
              /\ phase = "idle" /\ ask = NoAsk /\ counted = {} /\ got = << >>
              /\ more = FALSE /\ fresh = FALSE

SearchNext ==
    \/ \E l \in Listings : ListingAppears(l) \/ ListingOpens(l) \/ ListingSettles(l)
    \/ Count \/ FetchPage \/ FollowCursor \/ EndSearch

SearchSpec == SearchInit /\ [][SearchNext]_searchVars

-----------------------------------------------------------------------------
(* Properties.                                                             *)

Found == {got[i].listing : i \in 1..Len(got)}

(* What a client has been shown is newest first and without repetition,    *)
(* and if it was not told of more nor of an error it misses nothing that   *)
(* the count had counted and that still matches.  While nothing is         *)
(* committed the total and the page agree.                                 *)
SearchIsComplete ==
    /\ \A i, j \in 1..Len(got) : i < j => got[i].listing > got[j].listing
    /\ phase = "shown" /\ ~more => counted \cap Matches(ask) \subseteq Found
    /\ phase = "shown" /\ fresh => /\ Len(got) <= Cardinality(counted)
                                   /\ more <=> Len(got) < Cardinality(counted)

(* An item stays true in one direction only: a settled auction is listed   *)
(* with its final state and price for good; one that is running is listed, *)
(* and selected by price, at its starting price although bids have been    *)
(* accepted, and may have moved on, never back.                            *)
FoundStaysTrue ==
    \A i \in 1..Len(got) :
        LET item == got[i]
            now == table[item.listing]
        IN  /\ item.status \in Final =>
                  /\ now.status = item.status
                  /\ now.price # 0 => item.price = now.price
            /\ item.status \in Running => item.price = StartPrice
            /\ item.status = "ACTIVE" => now.status # "UPCOMING"

=============================================================================
