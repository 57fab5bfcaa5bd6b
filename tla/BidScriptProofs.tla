-------------------------- MODULE BidScriptProofs --------------------------
(***************************************************************************)
(* Lemmas about the hash and the script, for every price, increment, time  *)
(* and rounding error.                                                     *)
(***************************************************************************)
EXTENDS BidScript, TLAPS

(* Rendering an amount to cents and truncating a time to seconds give      *)
(* natural numbers.                                                        *)
LEMMA CentsType == \A m \in Nat : Cents(m) \in Nat
  BY DEF Cents

LEMMA SecondsType == \A t \in Nat : Seconds(t) \in Nat
  BY BidScriptAssumption DEF Seconds

(* The script answers one of its five verdicts.                            *)
LEMMA VerdictType ==
  \A h, b, a, ts : Verdict(h, b, a, ts) \in Rejections \cup {"ACCEPTED"}
  BY DEF Verdict, Rejections

(* What an accepting verdict says of the hash and of the bid.              *)
LEMMA AcceptedMeans ==
  ASSUME NEW h \in Hash, NEW b, NEW a \in Nat, NEW ts \in Nat,
         Verdict(h, b, a, ts) = "ACCEPTED"
  PROVE  /\ h.state = "ACTIVE"
         /\ Seconds(ts) < h.end
         /\ a >= h.price + h.inc
<1>1. /\ h.state = "ACTIVE"
      /\ ~(Seconds(ts) >= h.end)
      /\ EnoughFor(a, h.price, h.inc)
  BY DEF Verdict
<1>2. /\ h.end \in Nat /\ h.price \in Nat /\ h.inc \in Nat
      /\ Seconds(ts) \in Nat
  BY SecondsType DEF Hash
<1> QED
  BY <1>1, <1>2 DEF EnoughFor

(* A raised hash is a hash.                                                *)
LEMMA RaiseType ==
  ASSUME NEW h \in Hash, NEW b \in Bidders, NEW a \in Nat
  PROVE  /\ Raise(h, b, a) \in Hash
         /\ Raise(h, b, a).state = h.state
         /\ Raise(h, b, a).price = a
         /\ Raise(h, b, a).leader = b
         /\ Raise(h, b, a).seq = h.seq + 1
         /\ Raise(h, b, a).end = h.end
         /\ Raise(h, b, a).inc = h.inc
<1> DEFINE priced == [h EXCEPT !.price = a]
           led == [priced EXCEPT !.leader = b]
           raised == [led EXCEPT !.seq = h.seq + 1]
<1>1. /\ priced \in Hash /\ priced.price = a
      /\ priced.state = h.state /\ priced.seq = h.seq
      /\ priced.end = h.end /\ priced.inc = h.inc
  BY DEF Hash
<1>2. /\ led \in Hash /\ led.price = a /\ led.leader = b
      /\ led.state = h.state /\ led.seq = h.seq
      /\ led.end = h.end /\ led.inc = h.inc
  <2> HIDE DEF priced
  <2> QED
    BY <1>1 DEF Hash
<1>3. /\ raised \in Hash /\ raised.price = a /\ raised.leader = b
      /\ raised.state = h.state /\ raised.seq = h.seq + 1
      /\ raised.end = h.end /\ raised.inc = h.inc
  <2> HIDE DEF led
  <2>1. h.seq + 1 \in Nat
    BY DEF Hash
  <2> QED
    BY <1>2, <2>1 DEF Hash
<1>4. Raise(h, b, a) = raised
  BY DEF Raise
<1> QED
  BY <1>3, <1>4

(* An initialised hash is a hash.                                          *)
LEMMA InitHashType ==
  ASSUME NEW end \in Nat, NEW inc \in Nat
  PROVE  InitHash(end, inc) \in Hash
  BY SecondsType DEF InitHash, Hash, HashState

=============================================================================
