----------------------------- MODULE MCClients ------------------------------
(* Model checking of LiveFeed, Registration and Search.  The three share   *)
(* no state, so that each is run by itself: a behavior is of one of them.  *)
EXTENDS LiveFeed, Registration, Search, TLC

VARIABLE part

clientsVars == <<vars, signupVars, searchVars, part>>

ClientsInit == /\ Init /\ SignupInit /\ SearchInit
               /\ part \in {"feed", "signup", "search"}
               /\ part # "signup" => ~replyFirst

ClientsNext ==
    \/ part = "feed"   /\ Next       /\ UNCHANGED <<signupVars, searchVars, part>>
    \/ part = "signup" /\ SignupNext /\ UNCHANGED <<vars, searchVars, part>>
    \/ part = "search" /\ SearchNext /\ UNCHANGED <<vars, signupVars, part>>

ClientsSpec ==
    /\ ClientsInit /\ [][ClientsNext]_clientsVars
    /\ \A b \in Bids : WF_vars(PlaceBid(b))
    /\ \A w \in Watchers : WF_vars(Handle(w))
    /\ \A s \in Signups : WF_signupVars(Register(s))

(* Bids, handlers and channel, rows and answers, pages and listings keep   *)
(* their types.                                                            *)
ClientsTypeOK == TypeOK /\ SignupTypeOK /\ SearchTypeOK

AnyPrice  == {[min |-> 0, max |-> 100], [min |-> 15, max |-> 100]}
AnyFilter == {Listings, Listings \ {2}}

=============================================================================
