---------------------------- MODULE MCBidKernel ----------------------------
(* Values for model checking BidKernel: two seconds of two ticks, prices    *)
(* of 0.10 and 0.30 whose sum with the increment 0.20 is not exact in       *)
(* doubles, and an increment that renders as 0.00.                          *)
EXTENDS BidKernel

MCAmounts == {100, 304, 400}
MCIncrements == {4, 200}
MCEnds == {3}
MCTimes == {1, 2}
MCSumRoundsUp == {<<10, 20>>}

=============================================================================
