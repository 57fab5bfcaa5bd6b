-------------------------- MODULE BidKernelProofs --------------------------
(***************************************************************************)
(* Theorems about BidKernel, for every set of requests, amounts, times and *)
(* increments.                                                             *)
(***************************************************************************)
EXTENDS BidKernel, BidScriptProofs, TLAPS

-----------------------------------------------------------------------------

(* The type invariant holds initially and every step preserves it.         *)
LEMMA TypeInit == Init => TypeOK
<1> SUFFICES ASSUME Init PROVE TypeOK
  OBVIOUS
<1>1. hash \in Hash
  BY DEF Init, NoHash, Hash, HashState
<1>2. /\ sent \in [Requests -> Call \cup {NoCall}]
      /\ cached \in [Requests -> Rejections \cup {"ACCEPTED", "none"}]
      /\ reply \in [Requests -> Reply \cup {NoReply}]
      /\ log \in Seq(Entry)
  BY DEF Init
<1>3. \A r \in Requests : /\ cached[r] = reply[r].verdict
                          /\ cached[r] # "none" => sent[r] \in Call
  BY DEF Init, NoReply
<1> QED
  BY <1>1, <1>2, <1>3 DEF TypeOK

LEMMA TypeStep == TypeOK /\ [Next]_vars => TypeOK'
<1> SUFFICES ASSUME TypeOK, [Next]_vars PROVE TypeOK'
  OBVIOUS
<1>1. CASE Open
  <2>1. hash' \in Hash
    BY <1>1, CentsType, InitHashType, BidKernelAssumption DEF Open
  <2> QED
    BY <1>1, <2>1 DEF Open, TypeOK
<1>2. CASE Close
  <2>1. hash' \in Hash
    BY <1>2 DEF Close, TypeOK, Hash, HashState
  <2> QED
    BY <1>2, <2>1 DEF Close, TypeOK
<1>3. ASSUME NEW r \in Requests, Send(r) PROVE TypeOK'
  <2>1. sent' \in [Requests -> Call \cup {NoCall}]
    BY <1>3 DEF Send, TypeOK
  <2>2. \A q \in Requests : cached[q] # "none" => sent'[q] \in Call
    BY <1>3 DEF Send, TypeOK
  <2> QED
    BY <1>3, <2>1, <2>2 DEF Send, TypeOK
<1>4. ASSUME NEW r \in Requests, Judge(r) PROVE TypeOK'
  <2> DEFINE c == sent[r]
             v == Verdict(hash, c.bidder, Cents(c.amount), c.ts)
  <2>1. c \in Call
    BY <1>4 DEF Judge, TypeOK
  <2>2. c.bidder \in Bidders /\ c.ts \in Times /\ Cents(c.amount) \in Nat
    BY <2>1, CentsType, BidKernelAssumption DEF Call
  <2>3. v \in Rejections \cup {"ACCEPTED"}
    BY VerdictType
  <2>4. CASE v = "ACCEPTED"
    <3>1. hash' = Raise(hash, c.bidder, Cents(c.amount))
      BY <1>4, <2>4 DEF Judge
    <3>2. hash' \in Hash
      BY <3>1, <2>2, RaiseType DEF TypeOK
    <3>3. reply' = [reply EXCEPT ![r] =
             [verdict |-> v, price |-> hash'.price, seq |-> hash'.seq]]
      BY <1>4, <2>4 DEF Judge
    <3>4. [verdict |-> v, price |-> hash'.price, seq |-> hash'.seq] \in Reply
      BY <2>3, <3>2 DEF Reply, Hash
    <3>5. /\ reply' \in [Requests -> Reply \cup {NoReply}]
          /\ reply'[r].verdict = v
          /\ \A q \in Requests \ {r} : reply'[q] = reply[q]
      BY <3>3, <3>4 DEF TypeOK
    <3>6. log' \in Seq(Entry)
      <4>1. log' = Append(log, [req |-> r, bidder |-> c.bidder,
                                amount |-> Cents(c.amount), ts |-> c.ts])
        BY <1>4, <2>4 DEF Judge
      <4>2. [req |-> r, bidder |-> c.bidder, amount |-> Cents(c.amount),
             ts |-> c.ts] \in Entry
        BY <2>2 DEF Entry
      <4> QED
        BY <4>1, <4>2 DEF TypeOK
    <3>7. /\ cached' = [cached EXCEPT ![r] = v]
          /\ sent' = sent
      BY <1>4 DEF Judge, Remembered
    <3> HIDE DEF c, v
    <3>8. sent[r] \in Call
      BY <2>1 DEF c
    <3> QED
      BY <3>2, <3>5, <3>6, <3>7, <3>8, <2>3 DEF TypeOK
  <2>5. CASE v # "ACCEPTED"
    <3>1. /\ reply' = [reply EXCEPT ![r] = [verdict |-> v, price |-> 0, seq |-> 0]]
          /\ cached' = [cached EXCEPT ![r] = v]
          /\ UNCHANGED <<hash, sent, log>>
      BY <1>4, <2>5 DEF Judge, Remembered
    <3>2. [verdict |-> v, price |-> 0, seq |-> 0] \in Reply
      BY <2>3 DEF Reply
    <3>3. sent[r] \in Call
      BY <2>1
    <3> HIDE DEF c, v
    <3> QED
      BY <3>1, <3>2, <3>3, <2>3 DEF TypeOK
  <2> QED
    BY <2>4, <2>5
<1>5. ASSUME NEW r \in Requests, Replay(r) PROVE TypeOK'
  <2>1. CASE cached[r] = "ACCEPTED"
    <3>1. [verdict |-> "ACCEPTED", price |-> hash.price, seq |-> hash.seq] \in Reply
      BY DEF Reply, TypeOK, Hash
    <3> QED
      BY <1>5, <2>1, <3>1 DEF Replay, TypeOK
  <2>2. CASE cached[r] # "ACCEPTED"
    <3>1. [verdict |-> cached[r], price |-> 0, seq |-> 0] \in Reply
      BY <1>5, <2>2 DEF Reply, TypeOK, Replay
    <3> QED
      BY <1>5, <2>2, <3>1 DEF Replay, TypeOK
  <2> QED
    BY <2>1, <2>2
<1>6. CASE UNCHANGED vars
  BY <1>6 DEF vars, TypeOK
<1> QED
  BY <1>1, <1>2, <1>3, <1>4, <1>5, <1>6 DEF Next

(* The key, the dedup cache and the replies keep their types and stay in   *)
(* step: a cached result is the verdict last replied.                      *)
THEOREM TypeCorrect == Spec => []TypeOK
<1> QED
  BY TypeInit, TypeStep, PTL DEF Spec

-----------------------------------------------------------------------------

(* A key that has not been initialised carries nothing yet.                *)
FreshKey == hash.state = "none" => hash = NoHash /\ log = << >>

(* The inductive invariant: FreshKey is what Open needs to establish the   *)
(* match of hash and log, and the match is what makes Judge climb.         *)
IInv == TypeOK /\ FreshKey /\ HashMatchesLog /\ Ladder /\ AcceptedOnce

LEMMA InvInit == Init => IInv
<1> SUFFICES ASSUME Init PROVE IInv
  OBVIOUS
<1>1. TypeOK
  BY TypeInit
<1>2. FreshKey /\ HashMatchesLog
  BY DEF Init, FreshKey, HashMatchesLog, NoHash
<1>3. Len(log) = 0
  BY DEF Init
<1>4. Ladder
  BY <1>3 DEF Ladder
<1>5. AcceptedOnce
  BY <1>3 DEF AcceptedOnce, Init
<1> QED
  BY <1>1, <1>2, <1>4, <1>5 DEF IInv

(* Steps that touch neither the log nor the cache keep AcceptedOnce.       *)
LEMMA OnceFrame ==
  ASSUME AcceptedOnce, UNCHANGED <<log, cached>>
  PROVE  AcceptedOnce'
  BY DEF AcceptedOnce

(* The step that opens the key.                                            *)
LEMMA OpenInv == IInv /\ Open => (FreshKey /\ HashMatchesLog /\ Ladder)'
<1> SUFFICES ASSUME IInv, Open PROVE (FreshKey /\ HashMatchesLog /\ Ladder)'
  OBVIOUS
<1>1. log = << >> /\ log' = << >>
  BY DEF IInv, Open, FreshKey
<1>2. PICK end \in Ends, inc \in Increments : hash' = InitHash(end, Cents(inc))
  BY DEF Open
<1>3. hash'.state = "ACTIVE" /\ hash'.seq = 0 /\ hash'.price = 0
      /\ hash'.leader = NoBidder
  BY <1>2 DEF InitHash
<1>4. Len(log') = 0
  BY <1>1
<1> QED
  BY <1>1, <1>3, <1>4 DEF FreshKey, HashMatchesLog, Ladder

(* The step that closes the key.                                           *)
LEMMA CloseInv == IInv /\ Close => (FreshKey /\ HashMatchesLog /\ Ladder)'
<1> SUFFICES ASSUME IInv, Close PROVE (FreshKey /\ HashMatchesLog /\ Ladder)'
  OBVIOUS
<1>1. PICK s \in Settled : hash' = [hash EXCEPT !.state = s]
  BY DEF Close
<1>2. /\ hash'.state # "none"
      /\ hash'.seq = hash.seq /\ hash'.price = hash.price
      /\ hash'.leader = hash.leader /\ hash'.end = hash.end
      /\ hash'.inc = hash.inc
  BY <1>1 DEF IInv, TypeOK, Hash, Settled
<1>3. log' = log
  BY DEF Close
<1> QED
  BY <1>2, <1>3 DEF IInv, FreshKey, HashMatchesLog, Ladder, Last

(* The step that judges a bid_id: either it is accepted, and log and hash  *)
(* grow together by a bid the script let through, or neither changes.      *)
LEMMA JudgeInv ==
  ASSUME IInv, NEW r \in Requests, Judge(r)
  PROVE  (FreshKey /\ HashMatchesLog /\ Ladder /\ AcceptedOnce)'
<1> DEFINE c == sent[r]
           amount == Cents(c.amount)
           v == Verdict(hash, c.bidder, amount, c.ts)
           e == [req |-> r, bidder |-> c.bidder, amount |-> amount, ts |-> c.ts]
<1>1. /\ c.bidder \in Bidders /\ c.ts \in Times /\ c.ts \in Nat
      /\ amount \in Nat
  <2>1. c \in Call
    BY DEF Judge, IInv, TypeOK
  <2> QED
    BY <2>1, CentsType, BidKernelAssumption DEF Call
<1>2. /\ hash \in Hash
      /\ log \in Seq(Entry)
      /\ cached \in [Requests -> Rejections \cup {"ACCEPTED", "none"}]
      /\ cached[r] = "none"
      /\ cached' = [cached EXCEPT ![r] = v]
  BY DEF IInv, TypeOK, Judge, Remembered
<1>3. cached'[r] = v /\ \A q \in Requests \ {r} : cached'[q] = cached[q]
  <2> HIDE DEF v
  <2> QED
    BY <1>2
<1>4. \A i \in 1..Len(log) : log[i].req # r
  BY <1>2 DEF IInv, AcceptedOnce
<1>5. CASE v = "ACCEPTED"
  <2>1. /\ hash.state = "ACTIVE"
        /\ Seconds(c.ts) < hash.end
        /\ amount >= hash.price + hash.inc
    <3> HIDE DEF c, amount
    <3> QED
      BY <1>1, <1>2, <1>5, AcceptedMeans
  <2>2. hash' = Raise(hash, c.bidder, amount) /\ log' = Append(log, e)
    BY <1>5 DEF Judge
  <2>3. /\ hash'.state = hash.state /\ hash'.price = amount
        /\ hash'.leader = c.bidder /\ hash'.seq = hash.seq + 1
        /\ hash'.end = hash.end /\ hash'.inc = hash.inc
    <3> DEFINE h == Raise(hash, c.bidder, amount)
    <3>1. hash' = h
      BY <2>2
    <3> HIDE DEF c, amount
    <3>2. /\ h.state = hash.state /\ h.price = amount /\ h.leader = c.bidder
          /\ h.seq = hash.seq + 1 /\ h.end = hash.end /\ h.inc = hash.inc
      BY <1>1, <1>2, RaiseType
    <3> HIDE DEF h
    <3> QED
      BY <3>1, <3>2
  <2>4. /\ Len(log) \in Nat
        /\ Len(log') = Len(log) + 1
        /\ log'[Len(log) + 1] = e
        /\ \A i \in 1..Len(log) : log'[i] = log[i]
    <3>1. e \in Entry
      BY <1>1 DEF Entry
    <3> HIDE DEF e
    <3> QED
      BY <1>2, <2>2, <3>1
  <2>5. e.req = r /\ e.bidder = c.bidder /\ e.amount = amount /\ e.ts = c.ts
    OBVIOUS
  <2> HIDE DEF c, amount, v, e
  <2>6. FreshKey'
    BY <2>1, <2>3 DEF FreshKey
  <2>7. HashMatchesLog'
    <3>1. hash.seq = Len(log)
      BY DEF IInv, HashMatchesLog
    <3>2. hash'.seq = Len(log')
      BY <2>3, <2>4, <3>1
    <3>3. log' # << >>
      BY <2>4
    <3>4. Last' = e
      BY <2>4 DEF Last
    <3>5. hash'.price = Last'.amount /\ hash'.leader = Last'.bidder
      BY <2>3, <2>5, <3>4
    <3> QED
      BY <3>2, <3>3, <3>5 DEF HashMatchesLog
  <2>8. Ladder'
    <3>1. ASSUME NEW i \in 1..Len(log')
          PROVE  Seconds(log'[i].ts) < hash'.end
      <4>1. CASE i <= Len(log)
        BY <2>3, <2>4, <4>1 DEF IInv, Ladder
      <4>2. CASE i = Len(log) + 1
        BY <2>1, <2>3, <2>4, <2>5, <4>2
      <4> QED
        BY <2>4, <4>1, <4>2
    <3>2. ASSUME NEW i \in 2..Len(log')
          PROVE  log'[i].amount >= log'[i-1].amount + hash'.inc
      <4>1. CASE i <= Len(log)
        BY <2>3, <2>4, <4>1 DEF IInv, Ladder
      <4>2. CASE i = Len(log) + 1
        <5>1. log # << >>
          BY <2>4, <4>2
        <5>2. hash.price = log[Len(log)].amount
          BY <5>1 DEF IInv, HashMatchesLog, Last
        <5>3. log'[i-1] = log[Len(log)]
          BY <2>4, <4>2
        <5> QED
          BY <2>1, <2>3, <2>4, <2>5, <4>2, <5>2, <5>3
      <4> QED
        BY <2>4, <4>1, <4>2
    <3> QED
      BY <3>1, <3>2 DEF Ladder
  <2>9. AcceptedOnce'
    <3>1. \A i, j \in 1..Len(log') : log'[i].req = log'[j].req => i = j
      BY <1>4, <2>4, <2>5 DEF IInv, AcceptedOnce
    <3>2. ASSUME NEW q \in Requests
          PROVE  cached'[q] = "ACCEPTED" <=> \E i \in 1..Len(log') : log'[i].req = q
      <4>1. CASE q = r
        BY <1>3, <1>5, <2>4, <2>5, <4>1
      <4>2. CASE q # r
        BY <1>3, <2>4, <2>5, <4>2 DEF IInv, AcceptedOnce
      <4> QED
        BY <4>1, <4>2
    <3> QED
      BY <3>1, <3>2 DEF AcceptedOnce
  <2> QED
    BY <2>6, <2>7, <2>8, <2>9
<1>6. CASE v # "ACCEPTED"
  <2>1. UNCHANGED <<hash, log>>
    BY <1>6 DEF Judge
  <2>2. (FreshKey /\ HashMatchesLog /\ Ladder)'
    BY <2>1 DEF IInv, FreshKey, HashMatchesLog, Ladder, Last
  <2> HIDE DEF v
  <2>3. AcceptedOnce'
    BY <1>2, <1>3, <1>6, <2>1 DEF IInv, AcceptedOnce
  <2> QED
    BY <2>2, <2>3
<1> QED
  BY <1>5, <1>6

LEMMA InvStep == IInv /\ [Next]_vars => IInv'
<1> SUFFICES ASSUME IInv, [Next]_vars PROVE IInv'
  OBVIOUS
<1>1. TypeOK'
  BY TypeStep DEF IInv
<1>2. CASE Open
  <2>1. AcceptedOnce'
    BY <1>2, OnceFrame DEF IInv, Open
  <2> QED
    BY <1>1, <1>2, <2>1, OpenInv DEF IInv
<1>3. CASE Close
  <2>1. AcceptedOnce'
    BY <1>3, OnceFrame DEF IInv, Close
  <2> QED
    BY <1>1, <1>3, <2>1, CloseInv DEF IInv
<1>4. ASSUME NEW r \in Requests, Judge(r) PROVE IInv'
  BY <1>1, <1>4, JudgeInv DEF IInv
<1>5. ASSUME UNCHANGED <<hash, cached, log>> PROVE IInv'
  <2>1. AcceptedOnce'
    BY <1>5, OnceFrame DEF IInv
  <2>2. (FreshKey /\ HashMatchesLog /\ Ladder)'
    BY <1>5 DEF IInv, FreshKey, HashMatchesLog, Ladder, Last
  <2> QED
    BY <1>1, <2>1, <2>2 DEF IInv
<1>6. ASSUME NEW r \in Requests, Send(r) \/ Replay(r) PROVE IInv'
  BY <1>5, <1>6 DEF Send, Replay
<1>7. CASE UNCHANGED vars
  BY <1>5, <1>7 DEF vars
<1> QED
  BY <1>2, <1>3, <1>4, <1>6, <1>7 DEF Next

(* The inductive invariant is an invariant.                                *)
THEOREM Invariance == Spec => []IInv
<1> QED
  BY InvInit, InvStep, PTL DEF Spec

(* sequence_num counts the accepted bids and price and leader are the last *)
(* one's, for any number of requests delivered in any order.               *)
THEOREM HashCorrect == Spec => []HashMatchesLog
<1>1. IInv => HashMatchesLog
  BY DEF IInv
<1> QED
  BY <1>1, Invariance, PTL

(* Every accepted bid was in time and at least min_increment above the one *)
(* accepted before it.                                                     *)
THEOREM LadderCorrect == Spec => []Ladder
<1>1. IInv => Ladder
  BY DEF IInv
<1> QED
  BY <1>1, Invariance, PTL

(* No bid_id enters the log twice, however often it is delivered.          *)
THEOREM OnceCorrect == Spec => []AcceptedOnce
<1>1. IInv => AcceptedOnce
  BY DEF IInv
<1> QED
  BY <1>1, Invariance, PTL

-----------------------------------------------------------------------------

(* Once told a verdict, a bid_id is told the same one on every later       *)
(* delivery: Judge needs an empty cache, and Replay answers from it.       *)
THEOREM VerdictStable == Spec => StableVerdict
<1> DEFINE Same == \A r \in Requests :
             reply[r].verdict # "none" => reply'[r].verdict = reply[r].verdict
<1>1. TypeOK /\ [Next]_vars => [Same]_vars
  <2> SUFFICES ASSUME TypeOK, Next, NEW r \in Requests, reply[r].verdict # "none"
               PROVE  reply'[r].verdict = reply[r].verdict
    OBVIOUS
  <2>1. cached[r] = reply[r].verdict /\ cached[r] # "none"
    BY DEF TypeOK
  <2>2. CASE Open \/ Close
    BY <2>2 DEF Open, Close
  <2>3. ASSUME NEW q \in Requests, Send(q) PROVE reply' = reply
    BY <2>3 DEF Send
  <2>4. ASSUME NEW q \in Requests, Judge(q) PROVE reply'[r] = reply[r]
    <3>1. q # r
      BY <2>1, <2>4 DEF Judge
    <3>2. PICK x : reply' = [reply EXCEPT ![q] = x]
      BY <2>4 DEF Judge
    <3> QED
      BY <3>1, <3>2 DEF TypeOK
  <2>5. ASSUME NEW q \in Requests, Replay(q)
        PROVE  reply'[r].verdict = reply[r].verdict
    <3> DEFINE x == IF cached[q] = "ACCEPTED"
                    THEN [verdict |-> "ACCEPTED", price |-> hash.price,
                          seq |-> hash.seq]
                    ELSE [verdict |-> cached[q], price |-> 0, seq |-> 0]
    <3>1. reply' = [reply EXCEPT ![q] = x]
      BY <2>5 DEF Replay
    <3>2. x.verdict = cached[q]
      OBVIOUS
    <3> HIDE DEF x
    <3> QED
      BY <2>1, <3>1, <3>2 DEF TypeOK
  <2> QED
    BY <2>2, <2>3, <2>4, <2>5 DEF Next
<1>2. Spec => [][Same]_vars
  BY <1>1, TypeCorrect, PTL DEF Spec
<1> QED
  BY <1>2 DEF StableVerdict

-----------------------------------------------------------------------------

(* Initial states of the key map to those of the ascending auction.        *)
LEMMA RefineInit == Init => Auction!Init
  BY DEF Init, Auction!Init, phase, NoHash

(* Every step of the key is a step of the ascending auction or a stutter.  *)
LEMMA RefineStep == IInv /\ [Next]_vars => [Auction!Next]_(Auction!vars)
<1> SUFFICES ASSUME IInv, [Next]_vars PROVE [Auction!Next]_(Auction!vars)
  OBVIOUS
<1>1. CASE Open
  <2>1. PICK end \in Ends, inc \in Increments : hash' = InitHash(end, Cents(inc))
    BY <1>1 DEF Open
  <2>2. /\ hash'.state = "ACTIVE" /\ hash'.price = 0 /\ hash'.seq = 0
        /\ hash'.leader = NoBidder /\ hash'.inc = Cents(inc)
    BY <2>1 DEF InitHash
  <2>3. Cents(inc) \in Nat
    BY CentsType, BidKernelAssumption
  <2>4. hash = NoHash
    BY <1>1 DEF Open, IInv, FreshKey
  <2>5. /\ hash.state = "none" /\ hash.price = 0 /\ hash.seq = 0
        /\ hash.leader = NoBidder
    BY <2>4 DEF NoHash
  <2>6. phase = "pending" /\ phase' = "open"
    BY <2>2, <2>5 DEF phase
  <2>7. Auction!Open
    BY <2>2, <2>3, <2>5, <2>6 DEF Auction!Open
  <2> QED
    BY <2>7 DEF Auction!Next
<1>2. CASE Close
  <2>1. PICK s \in Settled : hash' = [hash EXCEPT !.state = s]
    BY <1>2 DEF Close
  <2>2. /\ hash.state = "ACTIVE" /\ hash'.state = s
        /\ hash'.price = hash.price /\ hash'.leader = hash.leader
        /\ hash'.seq = hash.seq /\ hash'.inc = hash.inc
    BY <1>2, <2>1 DEF Close, IInv, TypeOK, Hash
  <2>3. phase = "open" /\ phase' = "closed"
    BY <2>2 DEF phase, Settled
  <2>4. Auction!Close
    BY <2>2, <2>3 DEF Auction!Close
  <2> QED
    BY <2>4 DEF Auction!Next
<1>3. ASSUME NEW r \in Requests, Judge(r)
      PROVE  [Auction!Next]_(Auction!vars)
  <2> DEFINE c == sent[r]
             amount == Cents(c.amount)
             h == Raise(hash, c.bidder, amount)
             v == Verdict(hash, c.bidder, amount, c.ts)
  <2>1. CASE v = "ACCEPTED"
    <3>1. hash' = h
      BY <1>3, <2>1 DEF Judge
    <3>2. c \in Call
      BY <1>3 DEF Judge, IInv, TypeOK
    <3>3. hash \in Hash /\ c.bidder \in Bidders /\ amount \in Nat /\ c.ts \in Nat
      BY <3>2, CentsType, BidKernelAssumption DEF Call, IInv, TypeOK
    <3> HIDE DEF c, amount
    <3>4. hash.state = "ACTIVE" /\ amount >= hash.price + hash.inc
      BY <2>1, <3>3, AcceptedMeans
    <3>5. /\ h.state = hash.state /\ h.price = amount /\ h.leader = c.bidder
          /\ h.seq = hash.seq + 1 /\ h.inc = hash.inc
      BY <3>3, RaiseType
    <3> HIDE DEF h
    <3>6. phase = "open" /\ phase' = "open"
      BY <3>1, <3>4, <3>5 DEF phase
    <3>7. Auction!AcceptBid(c.bidder)
      BY <3>1, <3>3, <3>4, <3>5, <3>6 DEF Auction!AcceptBid
    <3> QED
      BY <3>3, <3>7 DEF Auction!Next
  <2>2. CASE v # "ACCEPTED"
    BY <1>3, <2>2 DEF Judge, Auction!vars, phase
  <2> QED
    BY <2>1, <2>2
<1>4. ASSUME NEW r \in Requests, Send(r) \/ Replay(r)
      PROVE  [Auction!Next]_(Auction!vars)
  BY <1>4 DEF Send, Replay, Auction!vars, phase
<1>5. CASE UNCHANGED vars
  BY <1>5 DEF vars, Auction!vars, phase
<1> QED
  BY <1>1, <1>2, <1>3, <1>4, <1>5 DEF Next

(* The key implements the ascending auction: it opens once, each accepted  *)
(* bid clears the increment, and nothing moves after the closing HSET.     *)
THEOREM Implements == Spec => AuctionSpec
<1> QED
  BY RefineInit, RefineStep, Invariance, PTL DEF Spec, Auction!Spec, AuctionSpec

=============================================================================
