-------------------------- MODULE MCAuctionSystem --------------------------
(* Values for model checking AuctionSystem.  A second is two ticks.        *)
EXTENDS AuctionSystem, TLC

\* One auction that is listed ahead of its start and one that starts at once.
OneSchedule == {[start |-> 1, end |-> 3]}
OpenAtOnce == {[start |-> 0, end |-> 3]}
ShortAuction == {[start |-> 0, end |-> 2]}
QuickAuction == {[start |-> 1, end |-> 2]}
TwoSchedules == OneSchedule \cup OpenAtOnce

\* 1.00, 3.00 and 5.00, with 0.004 off the cent; a reserve of 2.00; increment
\* 1.00.
SmallAmounts == {1004, 3000}
OneAmount == {3000}
ThreeAmounts == {1004, 3000, 5000}
SomeReserves == {0, 2000}
NoReserve == {0}
OneReserve == {2000}
OneIncrement == {1000}

\* 0.70, which is 0.69999... as a double, and an increment of 0.10.
SeventyCents == {700}
TenCents == {100}
SeventyIsBelow == {70}

NoRounding == {}
NoFaults == {}
AnyFault == AllFaults
CrashOnly == {"app_crash"}
JobFaults == {"job_commit_error", "app_crash"}
LossOnly == {"redis_loss"}

WithProxy == BOOLEAN
NoProxy == {FALSE}

\* Bound: a price that overflows its column is offered once, by a user, where
\* no fault happens.
Overflows(r) == Offer(r) > ColumnMax

OneOverflow ==
    /\ \A r \in Requests : Overflows(r) => faults = 0 /\ req[r].bidder \in Users
    /\ \A r, q \in Requests : Overflows(r) /\ Overflows(q) => r = q

\* The streams are written and never read.
AllButStreams ==
    <<clockVars, dbVars, hash, scriptReady, reqVars, startVars, closeVars, ghostVars>>

RequestSymmetry == Permutations(Requests)

=============================================================================
