--------------------------- MODULE LiveFeedProofs ---------------------------
(***************************************************************************)
(* What the live feed promises for any number of bids and watchers, any    *)
(* size of the pool and any number of faults.                              *)
(***************************************************************************)
EXTENDS LiveFeed, SequenceTheorems, FiniteSetTheorems, TLAPS

(* Appending to the channel keeps what it carried.                         *)
LEMMA AppendKeeps ==
    ASSUME NEW s \in Seq(Nat), NEW n \in Nat
    PROVE  /\ Append(s, n) \in Seq(Nat)
           /\ Len(s) \in Nat
           /\ Len(Append(s, n)) = Len(s) + 1
           /\ \A i \in 1..Len(s) : Append(s, n)[i] = s[i]
           /\ Append(s, n)[Len(s) + 1] = n
OBVIOUS

-----------------------------------------------------------------------------
(* Types.                                                                  *)

(* The bid's steps that no watcher sees.                                   *)
QuietStep(b) == \/ BeginAppend(b) \/ SkipAppend(b) \/ EndAppend(b)
                \/ BeginJudge(b) \/ Refuse(b) \/ Store(b) \/ StoreFails(b)
                \/ BeginPublish(b) \/ SkipPublish(b)

LEMMA InitTypeOK == Init => TypeOK
BY LiveFeedAssumption DEF LiveFeedAssumption, Init, TypeOK, Stages, Places

LEMMA NextTypeOK == TypeOK /\ [Next]_vars => TypeOK'
<1> SUFFICES ASSUME TypeOK, [Next]_vars PROVE TypeOK'
    OBVIOUS
<1> USE DEF TypeOK
<1>0. Len(sent) \in Nat
    BY LenProperties
<1>1. ASSUME NEW b \in Bids, QuietStep(b) PROVE TypeOK'
    BY <1>1 DEF QuietStep, BeginAppend, SkipAppend, EndAppend, BeginJudge, Refuse,
       Store, StoreFails, BeginPublish, SkipPublish, Move, Quietly, NoFault,
       watcherVars, Stages
<1>2. ASSUME NEW b \in Bids, Judge(b) PROVE TypeOK'
    BY <1>2 DEF Judge, Accept, Move, NoFault, watcherVars, Stages
<1>3. ASSUME NEW b \in Bids, JudgeError(b) PROVE TypeOK'
    BY <1>3, LiveFeedAssumption
    DEF LiveFeedAssumption, JudgeError, Accept, Move, Fault, watcherVars, Stages
<1>4. ASSUME NEW b \in Bids, Publish(b) PROVE TypeOK'
  <2>1. sent' \in Seq(Nat) /\ Len(sent') = Len(sent) + 1
      BY <1>4, AppendKeeps DEF Publish, Broadcasts
  <2> QED
      BY <1>0, <1>4, <2>1 DEF Publish, Move, NoFault, watcherVars, Stages
<1>5. ASSUME NEW b \in Bids, PublishError(b) PROVE TypeOK'
  <2>1. CASE Broadcasts(b)
    <3>1. sent' \in Seq(Nat) /\ Len(sent') = Len(sent) + 1
        BY <2>1, AppendKeeps DEF Broadcasts
    <3> QED
        BY <1>0, <1>5, <3>1, LiveFeedAssumption
        DEF LiveFeedAssumption, PublishError, Fault, Move, watcherVars, Stages
  <2>2. CASE UNCHANGED sent
      BY <1>5, <2>2, LiveFeedAssumption
      DEF LiveFeedAssumption, PublishError, Fault, Move, watcherVars, Stages
  <2> QED
      BY <1>5, <2>1, <2>2 DEF PublishError
<1>6. ASSUME NEW w \in Watchers, Connect(w) PROVE TypeOK'
    BY <1>6 DEF Connect, Go, NoFault, Elsewhere, bidVars, Places
<1>7. ASSUME NEW w \in Watchers, ConnectRefused(w) PROVE TypeOK'
    BY <1>7 DEF ConnectRefused, Finish, NoFault, Elsewhere, bidVars, Places
<1>8. ASSUME NEW w \in Watchers, ReadSnapshot(w) PROVE TypeOK'
    BY <1>0, <1>8 DEF ReadSnapshot, Go, NoFault, Elsewhere, bidVars, Places
<1>9. ASSUME NEW w \in Watchers, ReadSnapshotError(w) PROVE TypeOK'
    BY <1>9, LiveFeedAssumption
    DEF LiveFeedAssumption, ReadSnapshotError, Finish, Fault, Elsewhere, bidVars, Places
<1>10. ASSUME NEW w \in Watchers, InitialFrameFails(w) PROVE TypeOK'
    BY <1>10 DEF InitialFrameFails, Finish, NoFault, Elsewhere, bidVars, Places
<1>11. ASSUME NEW w \in Watchers, BeginSubscribe(w) PROVE TypeOK'
    BY <1>11 DEF BeginSubscribe, Go, NoFault, Elsewhere, bidVars, Places
<1>12. ASSUME NEW w \in Watchers, SubscribeRefused(w) PROVE TypeOK'
    BY <1>12 DEF SubscribeRefused, Finish, NoFault, Elsewhere, bidVars, Places
<1>13. ASSUME NEW w \in Watchers, Subscribed(w) PROVE TypeOK'
    BY <1>0, <1>13 DEF Subscribed, Go, NoFault, Elsewhere, bidVars, Places
<1>14. ASSUME NEW w \in Watchers, Relay(w) PROVE TypeOK'
    BY <1>0, <1>14 DEF Relay, NoFault, Elsewhere, bidVars, Places
<1>15. ASSUME NEW w \in Watchers, ListenError(w) PROVE TypeOK'
    BY <1>15, LiveFeedAssumption
    DEF LiveFeedAssumption, ListenError, Finish, Fault, Elsewhere, bidVars, Places
<1>16. CASE Restart
    BY <1>16, LiveFeedAssumption DEF LiveFeedAssumption, Restart, Fault, Stages, Places
<1>17. CASE OthersMove
    BY <1>17 DEF OthersMove, OthersTake, OthersGive, NoFault, bidVars, watcherVars
<1>18. CASE UNCHANGED vars
    BY <1>18 DEF vars, bidVars, watcherVars
<1> QED
    BY <1>1, <1>2, <1>3, <1>4, <1>5, <1>6, <1>7, <1>8, <1>9, <1>10, <1>11, <1>12,
       <1>13, <1>14, <1>15, <1>16, <1>17, <1>18
    DEF Next, Arrive, PlaceBid, Handle, Failures, QuietStep

-----------------------------------------------------------------------------
(* The inductive invariant.                                                *)

(* A number is given when the script accepts, and is positive.             *)
NumbersAreGiven ==
    \A b \in Bids :
        /\ stage[b] \in {"idle", "appending", "appended", "judging", "refused"}
              => num[b] = 0
        /\ stage[b] \in {"judged", "stored", "publishing"} => num[b] > 0

(* The hash's number is some bid's.                                        *)
LatestIsABid == seq = 0 \/ \E b \in Bids : num[b] = seq

(* A snapshot covers what had been sent when it was read.                  *)
SnapshotCoversSent ==
    \A w \in Watchers : at[w] \in {"showing", "subscribing", "listening"} =>
        /\ snap[w] <= seq
        /\ \A i \in 1..snapAt[w] : sent[i] <= snap[w]

IInv == TypeOK /\ FramesAreBids /\ NumbersAreGiven /\ LatestIsABid /\ SnapshotCoversSent

LEMMA InitIInv == Init => IInv
<1> SUFFICES ASSUME Init PROVE IInv
    OBVIOUS
<1>1. TypeOK
    BY InitTypeOK
<1>2. Len(sent) = 0
    BY DEF Init
<1> QED
    BY <1>1, <1>2
    DEF Init, IInv, FramesAreBids, NumbersAreGiven, LatestIsABid, SnapshotCoversSent

(* Steps that leave the channel, the numbers and the snapshots alone, and  *)
(* undo no bid.                                                            *)
LEMMA StutterIInv ==
    ASSUME IInv, TypeOK', UNCHANGED <<seq, sent, num, snap, snapAt>>,
           \A b \in Bids : stage[b] = "done" => stage'[b] = "done",
           NumbersAreGiven',
           \A w \in Watchers : at'[w] \in {"showing", "subscribing", "listening"}
                                  => at[w] \in {"showing", "subscribing", "listening"}
    PROVE  IInv'
<1>1. FramesAreBids'
    BY DEF IInv, FramesAreBids
<1>2. LatestIsABid'
    BY DEF IInv, LatestIsABid
<1>3. SnapshotCoversSent'
    BY DEF IInv, SnapshotCoversSent
<1> QED
    BY <1>1, <1>2, <1>3 DEF IInv

(* The script gives the next number to a bid that has none.                *)
LEMMA AcceptIInv ==
    ASSUME IInv, TypeOK', NEW b \in Bids, stage[b] = "judging", Accept(b),
           UNCHANGED <<sent, watcherVars>>,
           stage' \in {[stage EXCEPT ![b] = "judged"], [stage EXCEPT ![b] = "failed"]}
    PROVE  IInv'
<1> USE DEF IInv
<1>1. num[b] = 0 /\ seq \in Nat /\ num \in [Bids -> Nat] /\ stage \in [Bids -> Stages]
    BY DEF NumbersAreGiven, TypeOK
<1>2. num'[b] = seq + 1 /\ seq' = seq + 1 /\ \A c \in Bids \ {b} : num'[c] = num[c]
    BY <1>1 DEF Accept
<1>3. \A c \in Bids \ {b} : stage'[c] = stage[c]
    BY <1>1
<1>4. FramesAreBids'
  <2>1. \A c \in Bids : num'[c] <= seq'
      BY <1>1, <1>2 DEF FramesAreBids
  <2>2. \A c, d \in Bids : c # d /\ num'[c] = num'[d] => num'[c] = 0
      BY <1>1, <1>2 DEF FramesAreBids
  <2>3. ASSUME NEW i \in 1..Len(sent)
        PROVE  \E c \in Bids : stage'[c] = "done" /\ num'[c] > 0 /\ num'[c] = sent[i]
    <3>1. PICK c \in Bids : stage[c] = "done" /\ num[c] > 0 /\ num[c] = sent[i]
        BY DEF FramesAreBids
    <3>2. c # b
        BY <3>1
    <3> QED
        BY <1>2, <1>3, <3>1, <3>2
  <2> QED
      BY <2>1, <2>2, <2>3 DEF FramesAreBids
<1>5. NumbersAreGiven'
    BY <1>1, <1>2, <1>3 DEF NumbersAreGiven
<1>6. LatestIsABid'
    BY <1>2 DEF LatestIsABid
<1>7. SnapshotCoversSent'
    BY <1>1, <1>2 DEF SnapshotCoversSent, TypeOK, watcherVars
<1> QED
    BY <1>4, <1>5, <1>6, <1>7

(* A bid's number is sent when its session has stored it.                  *)
LEMMA BroadcastIInv ==
    ASSUME IInv, TypeOK', NEW b \in Bids, Move(b, "publishing", "done"), Broadcasts(b),
           UNCHANGED <<seq, num, watcherVars>>
    PROVE  IInv'
<1> USE DEF IInv
<1>1. stage[b] = "publishing" /\ num[b] \in Nat /\ num[b] > 0
    BY DEF NumbersAreGiven, TypeOK, Move
<1>2. /\ Len(sent) \in Nat /\ Len(sent') = Len(sent) + 1
      /\ \A i \in 1..Len(sent) : sent'[i] = sent[i]
      /\ sent'[Len(sent) + 1] = num[b]
    BY <1>1, AppendKeeps DEF TypeOK, Broadcasts
<1>3. stage'[b] = "done" /\ \A c \in Bids \ {b} : stage'[c] = stage[c]
    BY DEF TypeOK, Move
<1>4. FramesAreBids'
  <2>1. ASSUME NEW i \in 1..Len(sent)
        PROVE  sent[i] # num[b]
    <3>1. PICK c \in Bids : stage[c] = "done" /\ num[c] > 0 /\ num[c] = sent[i]
        BY DEF FramesAreBids
    <3>2. c # b
        BY <1>1, <3>1
    <3>3. num[c] # num[b]
        BY <3>1, <3>2 DEF FramesAreBids, TypeOK
    <3> QED
        BY <3>1, <3>3
  <2>2. ASSUME NEW i \in 1..Len(sent')
        PROVE  \E c \in Bids : stage'[c] = "done" /\ num'[c] > 0 /\ num'[c] = sent'[i]
    <3>1. CASE i \in 1..Len(sent)
      <4>1. PICK c \in Bids : stage[c] = "done" /\ num[c] > 0 /\ num[c] = sent[i]
          BY <3>1 DEF FramesAreBids
      <4> QED
          BY <1>2, <1>3, <3>1, <4>1
    <3>2. CASE i = Len(sent) + 1
        BY <1>1, <1>2, <1>3, <3>2
    <3> QED
        BY <1>2, <3>1, <3>2
  <2>3. ASSUME NEW i \in 1..Len(sent'), NEW j \in 1..Len(sent'), i < j
        PROVE  sent'[i] # sent'[j]
    <3>1. i \in 1..Len(sent)
        BY <1>2, <2>3
    <3>2. CASE j \in 1..Len(sent)
        BY <1>2, <2>3, <3>1, <3>2 DEF FramesAreBids
    <3>3. CASE j = Len(sent) + 1
        BY <1>2, <2>1, <3>1, <3>3
    <3> QED
        BY <1>2, <3>2, <3>3
  <2>4. \A i, j \in 1..Len(sent') : i # j => sent'[i] # sent'[j]
    <3> SUFFICES ASSUME NEW i \in 1..Len(sent'), NEW j \in 1..Len(sent'), i # j
                 PROVE  sent'[i] # sent'[j]
        OBVIOUS
    <3>1. i < j \/ j < i
        OBVIOUS
    <3> QED
        BY <2>3, <3>1
  <2> QED
      BY <2>2, <2>4 DEF FramesAreBids
<1>5. NumbersAreGiven'
    BY <1>1, <1>3 DEF NumbersAreGiven
<1>6. LatestIsABid'
    BY DEF LatestIsABid
<1>7. SnapshotCoversSent'
  <2> SUFFICES ASSUME NEW w \in Watchers, at'[w] \in {"showing", "subscribing", "listening"}
               PROVE  /\ snap'[w] <= seq'
                      /\ \A i \in 1..snapAt'[w] : sent'[i] <= snap'[w]
      BY DEF SnapshotCoversSent
  <2>1. snapAt[w] \in Nat /\ snapAt[w] <= Len(sent)
      BY DEF TypeOK, watcherVars
  <2>2. \A i \in 1..snapAt[w] : i \in 1..Len(sent)
      BY <1>2, <2>1
  <2> QED
      BY <1>2, <2>2 DEF SnapshotCoversSent, watcherVars
<1> QED
    BY <1>4, <1>5, <1>6, <1>7

LEMMA NextIInv == IInv /\ [Next]_vars => IInv'
<1> SUFFICES ASSUME IInv, [Next]_vars PROVE IInv'
    OBVIOUS
<1> USE DEF IInv
<1>0. TypeOK'
    BY NextTypeOK
<1>1. ASSUME NEW b \in Bids, QuietStep(b) PROVE IInv'
  <2>1. UNCHANGED <<seq, sent, num, watcherVars>>
      BY <1>1 DEF QuietStep, BeginAppend, SkipAppend, EndAppend, BeginJudge, Refuse,
         Store, StoreFails, BeginPublish, SkipPublish, Quietly
  <2>2. /\ \A c \in Bids : stage[c] = "done" => stage'[c] = "done"
        /\ NumbersAreGiven'
      BY <1>1, <2>1 DEF QuietStep, BeginAppend, SkipAppend, EndAppend, BeginJudge,
         Refuse, Store, StoreFails, BeginPublish, SkipPublish, Move, TypeOK,
         NumbersAreGiven
  <2> QED
      BY <1>0, <2>1, <2>2, StutterIInv DEF watcherVars
<1>2. ASSUME NEW b \in Bids, Judge(b) PROVE IInv'
    BY <1>0, <1>2, AcceptIInv DEF Judge, Move
<1>3. ASSUME NEW b \in Bids, JudgeError(b) PROVE IInv'
  <2>1. CASE Accept(b)
      BY <1>0, <1>3, <2>1, AcceptIInv DEF JudgeError, Move
  <2>2. CASE UNCHANGED <<seq, num>>
    <3>1. /\ \A c \in Bids : stage[c] = "done" => stage'[c] = "done"
          /\ NumbersAreGiven'
        BY <1>3, <2>2 DEF JudgeError, Move, TypeOK, NumbersAreGiven
    <3> QED
        BY <1>0, <1>3, <2>2, <3>1, StutterIInv DEF JudgeError, watcherVars
  <2> QED
      BY <1>3, <2>1, <2>2 DEF JudgeError
<1>4. ASSUME NEW b \in Bids, Publish(b) PROVE IInv'
    BY <1>0, <1>4, BroadcastIInv DEF Publish
<1>5. ASSUME NEW b \in Bids, PublishError(b) PROVE IInv'
  <2>1. CASE Broadcasts(b)
      BY <1>0, <1>5, <2>1, BroadcastIInv DEF PublishError
  <2>2. CASE UNCHANGED sent
    <3>1. /\ \A c \in Bids : stage[c] = "done" => stage'[c] = "done"
          /\ NumbersAreGiven'
        BY <1>5 DEF PublishError, Move, TypeOK, NumbersAreGiven
    <3> QED
        BY <1>0, <1>5, <2>2, <3>1, StutterIInv DEF PublishError, watcherVars
  <2> QED
      BY <1>5, <2>1, <2>2 DEF PublishError
<1>6. ASSUME NEW w \in Watchers, ReadSnapshot(w) PROVE IInv'
  <2>1. UNCHANGED <<seq, sent, bidVars>>
      BY <1>6 DEF ReadSnapshot, Elsewhere
  <2>2. FramesAreBids' /\ NumbersAreGiven' /\ LatestIsABid'
      BY <2>1 DEF bidVars, FramesAreBids, NumbersAreGiven, LatestIsABid
  <2>3. \A i \in 1..Len(sent) : sent[i] <= seq
      BY DEF FramesAreBids
  <2>4. SnapshotCoversSent'
      BY <1>6, <2>1, <2>3 DEF ReadSnapshot, Go, SnapshotCoversSent, TypeOK
  <2> QED
      BY <1>0, <2>2, <2>4
<1>7. ASSUME NEW w \in Watchers,
             \/ Connect(w) \/ ConnectRefused(w) \/ ReadSnapshotError(w)
             \/ InitialFrameFails(w) \/ BeginSubscribe(w) \/ SubscribeRefused(w)
             \/ Subscribed(w) \/ Relay(w) \/ ListenError(w)
      PROVE  IInv'
  <2>1. UNCHANGED <<seq, sent, bidVars, snap, snapAt>>
      BY <1>7 DEF Connect, ConnectRefused, ReadSnapshotError, InitialFrameFails,
         BeginSubscribe, SubscribeRefused, Subscribed, Relay, ListenError,
         Elsewhere, Finish
  <2>2. \A v \in Watchers : at'[v] \in {"showing", "subscribing", "listening"}
                             => at[v] \in {"showing", "subscribing", "listening"}
      BY <1>7 DEF Connect, ConnectRefused, ReadSnapshotError, InitialFrameFails,
         BeginSubscribe, SubscribeRefused, Subscribed, Relay, ListenError, Go,
         Finish, TypeOK
  <2>3. NumbersAreGiven'
      BY <2>1 DEF bidVars, NumbersAreGiven
  <2> QED
      BY <1>0, <2>1, <2>2, <2>3, StutterIInv DEF bidVars
<1>8. CASE Restart
  <2>1. /\ \A b \in Bids : stage[b] = "done" => stage'[b] = "done"
        /\ NumbersAreGiven'
      BY <1>8 DEF Restart, TypeOK, NumbersAreGiven
  <2>2. \A w \in Watchers : at'[w] \in {"away", "ended"}
      BY <1>8 DEF Restart
  <2> QED
      BY <1>0, <1>8, <2>1, <2>2, StutterIInv DEF Restart
<1>9. CASE OthersMove \/ UNCHANGED vars
  <2>1. UNCHANGED <<seq, sent, bidVars, watcherVars>>
      BY <1>9 DEF OthersMove, vars
  <2>2. NumbersAreGiven'
      BY <2>1 DEF bidVars, NumbersAreGiven
  <2> QED
      BY <1>0, <2>1, <2>2, StutterIInv DEF bidVars, watcherVars
<1> QED
    BY <1>1, <1>2, <1>3, <1>4, <1>5, <1>6, <1>7, <1>8, <1>9
    DEF Next, Arrive, PlaceBid, Handle, Failures, QuietStep

-----------------------------------------------------------------------------
(* The theorems.                                                           *)

LEMMA AlwaysIInv == Spec => []IInv
    BY InitIInv, NextIInv, PTL DEF Spec

(* Every state is well typed, and a subscribed handler has a connection of *)
(* the pool and a place in the channel at or after its snapshot's.         *)
THEOREM FeedTypesHold == Spec => []TypeOK
<1>1. IInv => TypeOK
    BY DEF IInv
<1> QED
    BY <1>1, AlwaysIInv, PTL

(* Only stored bids are broadcast, each once, whatever commands fail and   *)
(* whenever the process restarts.                                          *)
THEOREM FramesAreAcceptedBids == Spec => []FramesAreBids
<1>1. IInv => FramesAreBids
    BY DEF IInv
<1> QED
    BY <1>1, AlwaysIInv, PTL

LEMMA CatchesUp == IInv => CaughtUp
<1> SUFFICES ASSUME IInv, NEW w \in Watchers,
                    at[w] = "listening", pos[w] = Len(sent), joined[w] = snapAt[w],
                    \A b \in Bids : num[b] > 0 => \E i \in 1..Len(sent) : sent[i] = num[b]
             PROVE  seq \in Shown(w)
    BY DEF CaughtUp
<1>1. /\ snap[w] \in Nat /\ seq \in Nat /\ snap[w] <= seq
      /\ snapAt[w] \in Nat /\ Len(sent) \in Nat
      /\ \A i \in 1..snapAt[w] : sent[i] <= snap[w]
    BY DEF IInv, TypeOK, SnapshotCoversSent
<1>2. CASE seq = 0
    BY <1>1, <1>2 DEF Shown
<1>3. CASE seq # 0
  <2>1. PICK i \in 1..Len(sent) : sent[i] = seq
      BY <1>1, <1>3 DEF IInv, LatestIsABid
  <2>2. CASE i \in 1..snapAt[w]
    <3>1. snap[w] = seq
        BY <1>1, <2>1, <2>2
    <3> QED
        BY <3>1 DEF Shown
  <2>3. CASE i \notin 1..snapAt[w]
    <3>1. i \in joined[w] + 1..pos[w]
        BY <1>1, <2>3
    <3> QED
        BY <2>1, <3>1 DEF Shown
  <2> QED
      BY <2>2, <2>3
<1> QED
    BY <1>2, <1>3

(* A watcher whose handler has relayed all there is knows the price, if    *)
(* nothing was sent between its snapshot and its subscription.             *)
THEOREM WatchersCatchUp == Spec => []CaughtUp
    BY CatchesUp, AlwaysIInv, PTL

-----------------------------------------------------------------------------
(* The pool.                                                               *)

(* A watcher that has a connection for good is past its snapshot.          *)
HeldHaveCome == \A w \in held : at[w] \notin {"away", "reading"}

Came == {w \in Watchers : at[w] # "away"}

Rivals(b) == {c \in Bids \ {b} : InProgress(c)}

LEMMA HeldStep == TypeOK /\ HeldHaveCome /\ [Next]_vars => HeldHaveCome'
<1> SUFFICES ASSUME TypeOK, HeldHaveCome, [Next]_vars PROVE HeldHaveCome'
    OBVIOUS
<1> USE DEF HeldHaveCome
<1>1. ASSUME NEW b \in Bids,
             \/ QuietStep(b) \/ Judge(b) \/ JudgeError(b) \/ Publish(b) \/ PublishError(b)
      PROVE  HeldHaveCome'
    BY <1>1 DEF QuietStep, BeginAppend, SkipAppend, EndAppend, BeginJudge, Refuse,
       Store, StoreFails, BeginPublish, SkipPublish, Quietly, Judge, JudgeError,
       Publish, PublishError, watcherVars
<1>2. ASSUME NEW w \in Watchers, \/ Connect(w) \/ ReadSnapshot(w)
      PROVE  HeldHaveCome'
    BY <1>2 DEF Connect, ReadSnapshot, Go, TypeOK
<1>3. ASSUME NEW w \in Watchers,
             \/ ConnectRefused(w) \/ ReadSnapshotError(w) \/ InitialFrameFails(w)
             \/ SubscribeRefused(w) \/ ListenError(w)
      PROVE  HeldHaveCome'
    BY <1>3 DEF ConnectRefused, ReadSnapshotError, InitialFrameFails,
       SubscribeRefused, ListenError, Finish, TypeOK
<1>4. ASSUME NEW w \in Watchers, BeginSubscribe(w) PROVE HeldHaveCome'
    BY <1>4 DEF BeginSubscribe, Go, TypeOK
<1>5. ASSUME NEW w \in Watchers, Subscribed(w) \/ Relay(w) PROVE HeldHaveCome'
    BY <1>5 DEF Subscribed, Relay, Go, TypeOK
<1>6. CASE Restart
    BY <1>6 DEF Restart
<1>7. CASE OthersMove \/ UNCHANGED vars
    BY <1>7 DEF OthersMove, vars, watcherVars
<1> QED
    BY <1>1, <1>2, <1>3, <1>4, <1>5, <1>6, <1>7
    DEF Next, Arrive, PlaceBid, Handle, Failures, QuietStep

(* A pool that is used up is used by watchers, one connection each, and by *)
(* the commands of other bids and by everything else.                      *)
LEMMA FullPool ==
    ASSUME TypeOK, HeldHaveCome, NEW b \in Bids, Refuse(b)
    PROVE  PoolSize <= others + Cardinality(Came) + Cardinality(Rivals(b))
<1>1. InUse >= PoolSize
  <2>1. /\ IsFiniteSet(Commands) /\ IsFiniteSet(Snapshots) /\ IsFiniteSet(held)
      BY LiveFeedAssumption, FS_Subset
      DEF LiveFeedAssumption, Commands, Snapshots, TypeOK
  <2>2. InUse \in Nat
      BY <2>1, FS_CardinalityType DEF InUse, TypeOK
  <2> QED
      BY <2>2, LiveFeedAssumption DEF LiveFeedAssumption, Refuse, Free
<1>2. Cardinality(Commands) \in Nat /\ Cardinality(Commands) <= Cardinality(Rivals(b))
  <2>1. Commands \subseteq Rivals(b)
      BY DEF Commands, Rivals, InProgress, Refuse, Move
  <2>2. IsFiniteSet(Rivals(b))
      BY LiveFeedAssumption, FS_Subset DEF LiveFeedAssumption, Rivals
  <2> QED
      BY <2>1, <2>2, FS_Subset, FS_CardinalityType
<1>3. /\ Cardinality(Snapshots) \in Nat /\ Cardinality(held) \in Nat
      /\ Cardinality(Snapshots) + Cardinality(held) <= Cardinality(Came)
  <2>1. /\ Snapshots \cap held = {}
        /\ Snapshots \cup held \subseteq Came
      BY DEF Snapshots, Came, HeldHaveCome, TypeOK
  <2>2. /\ IsFiniteSet(Snapshots) /\ IsFiniteSet(held) /\ IsFiniteSet(Came)
      BY LiveFeedAssumption, FS_Subset
      DEF LiveFeedAssumption, Snapshots, Came, TypeOK
  <2>3. Cardinality(Snapshots \cup held) = Cardinality(Snapshots) + Cardinality(held)
    <3>1. Cardinality(Snapshots \cup held) = Cardinality(Snapshots) + Cardinality(held)
                                              - Cardinality(Snapshots \cap held)
        BY <2>2, FS_Union
    <3>2. Cardinality(Snapshots \cap held) = 0
        BY <2>1, FS_EmptySet
    <3>3. Cardinality(Snapshots) \in Nat /\ Cardinality(held) \in Nat
        BY <2>2, FS_CardinalityType
    <3> QED
        BY <3>1, <3>2, <3>3
  <2> QED
      BY <2>1, <2>2, <2>3, FS_Subset, FS_CardinalityType
<1>4. Cardinality(Rivals(b)) \in Nat /\ Cardinality(Came) \in Nat
  <2>1. IsFiniteSet(Rivals(b)) /\ IsFiniteSet(Came)
      BY LiveFeedAssumption, FS_Subset DEF LiveFeedAssumption, Rivals, Came
  <2> QED
      BY <2>1, FS_CardinalityType
<1> QED
    BY <1>1, <1>2, <1>3, <1>4, LiveFeedAssumption DEF InUse, LiveFeedAssumption, TypeOK

(* However many watchers, bids and connections there are, a bid that is    *)
(* refused before any fault has met a pool used up by the watchers that    *)
(* ever came, one connection each, by other bids in progress and by what   *)
(* the jobs, the views and other auctions held at that moment.             *)
THEOREM WatchersCostOneEach == Spec => OneConnectionEach
<1>1. Init => HeldHaveCome
    BY DEF Init, HeldHaveCome
<1>2. TypeOK /\ HeldHaveCome => \A b \in Bids : faults = 0 /\ Refuse(b) =>
            PoolSize <= others + Cardinality({w \in Watchers : at[w] # "away"})
                        + Cardinality({c \in Bids \ {b} : InProgress(c)})
    BY FullPool DEF Came, Rivals
<1> QED
    BY <1>1, <1>2, FeedTypesHold, HeldStep, PTL DEF Spec, OneConnectionEach

-----------------------------------------------------------------------------
(* Progress of bids, the safety half of BidsEnd.                           *)

Far(place) == CASE place = "idle" -> 0 [] place = "appending" -> 1
                [] place = "appended" -> 2 [] place = "judging" -> 3
                [] place = "judged" -> 4 [] place = "stored" -> 5
                [] place = "publishing" -> 6 [] OTHER -> 7

(* A bid only moves forward, its own steps do move it, and the number it   *)
(* was given stays its number.                                             *)
BidGoesOn(b) ==
    /\ stage'[b] # stage[b] => Far(stage[b]) < Far(stage'[b])
    /\ PlaceBid(b) => stage'[b] # stage[b]
    /\ num[b] # 0 => num'[b] = num[b]

LEMMA BidMoves ==
    ASSUME TypeOK, NumbersAreGiven, NEW b \in Bids, NEW c \in Bids,
           QuietStep(c) \/ Judge(c) \/ JudgeError(c) \/ Publish(c) \/ PublishError(c)
    PROVE  BidGoesOn(b)
<1> USE DEF TypeOK, Far, Move
<1>1. b # c => stage'[b] = stage[b] /\ num'[b] = num[b]
    BY DEF QuietStep, BeginAppend, SkipAppend, EndAppend, BeginJudge, Refuse, Store,
       StoreFails, BeginPublish, SkipPublish, Quietly, Judge, JudgeError, Accept,
       Publish, PublishError
<1>2. b = c => Far(stage[b]) < Far(stage'[b]) /\ stage'[b] # stage[b]
    BY DEF QuietStep, BeginAppend, SkipAppend, EndAppend, BeginJudge, Refuse, Store,
       StoreFails, BeginPublish, SkipPublish, Judge, JudgeError, Publish, PublishError
<1>3. b = c => (num[b] # 0 => num'[b] = num[b])
    BY DEF QuietStep, BeginAppend, SkipAppend, EndAppend, BeginJudge, Refuse, Store,
       StoreFails, BeginPublish, SkipPublish, Quietly, Judge, JudgeError,
       Publish, PublishError, NumbersAreGiven
<1>4. PlaceBid(b) => stage'[b] # stage[b]
    BY DEF PlaceBid, EndAppend, BeginJudge, Refuse, Judge, Store, StoreFails,
       BeginPublish, SkipPublish, Publish
<1> QED
    BY <1>1, <1>2, <1>3, <1>4 DEF BidGoesOn

(* A bid needs at most seven steps, whatever watchers keep of the pool and *)
(* whatever fails: no step takes it back, leaves it where it is, or gives  *)
(* it another number.                                                      *)
THEOREM BidsMoveOn == Spec => [][\A b \in Bids : BidGoesOn(b)]_vars
<1>1. IInv /\ [Next]_vars => [\A b \in Bids : BidGoesOn(b)]_vars
  <2> SUFFICES ASSUME IInv, Next, NEW b \in Bids PROVE BidGoesOn(b)
      OBVIOUS
  <2>1. PlaceBid(b) => stage'[b] # stage[b]
      BY DEF PlaceBid, EndAppend, BeginJudge, Refuse, Judge, Store, StoreFails,
         BeginPublish, SkipPublish, Publish, Move, IInv, TypeOK
  <2>2. ASSUME NEW c \in Bids,
               QuietStep(c) \/ Judge(c) \/ JudgeError(c) \/ Publish(c) \/ PublishError(c)
        PROVE  BidGoesOn(b)
      BY <2>2, BidMoves DEF IInv
  <2>3. CASE Restart
      BY <2>1, <2>3 DEF Restart, BidGoesOn, Far, IInv, TypeOK, Stages
  <2>4. ASSUME NEW w \in Watchers,
               \/ Connect(w) \/ ConnectRefused(w) \/ Handle(w)
               \/ ReadSnapshotError(w) \/ ListenError(w)
        PROVE  BidGoesOn(b)
    <3>1. UNCHANGED <<stage, num>>
        BY <2>4 DEF Connect, ConnectRefused, Handle, ReadSnapshot, InitialFrameFails,
           BeginSubscribe, SubscribeRefused, Subscribed, Relay, ReadSnapshotError,
           ListenError, Elsewhere, bidVars
    <3> QED
        BY <2>1, <3>1 DEF BidGoesOn
  <2>5. CASE OthersMove
      BY <2>1, <2>5 DEF OthersMove, bidVars, BidGoesOn
  <2> QED
      BY <2>2, <2>3, <2>4, <2>5 DEF Next, Arrive, PlaceBid, Failures, QuietStep
<1> QED
    BY <1>1, AlwaysIInv, PTL DEF Spec

=============================================================================
