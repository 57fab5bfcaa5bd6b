------------------------------ MODULE LiveFeed ------------------------------
(***************************************************************************)
(* The live feed of one auction: accepted bids that are published to the   *)
(* channel fanout:auction:{id}, the WebSocket handlers that relay it, and  *)
(* the pool of Redis connections that both take from.  A bid is known by   *)
(* the sequence number the script gives it; its price follows from the     *)
(* number, as BidKernel's Ladder shows.  Everything else takes from the    *)
(* same pool too: rejected bids, the scheduler's jobs, the detail view and *)
(* the bids and watchers of other auctions.                                *)
(***************************************************************************)
EXTENDS Naturals, Sequences, FiniteSets

CONSTANTS
    Bids,       \* bid requests the script will accept
    Watchers,   \* WebSocket connections, each opened once
    PoolSize,   \* max_connections of the pool (20)
    MaxFaults   \* bound: how many faults can happen

ASSUME LiveFeedAssumption ==
    /\ IsFiniteSet(Bids) /\ IsFiniteSet(Watchers)
    /\ PoolSize \in Nat \ {0} /\ MaxFaults \in Nat

VARIABLES
    seq,      \* sequence_num of the auction's hash
    sent,     \* what the channel has carried, in order
    stage,    \* where a bid stands in place_bid
    num,      \* the number the script gave it
    at,       \* where a watcher's handler stands
    held,     \* watchers whose PubSub object has a connection of the pool
    snap,     \* sequence_num in the initial frame
    pos,      \* how many messages of the channel lie behind the handler
    snapAt,   \* history: Len(sent) when the snapshot was read
    joined,   \* history: Len(sent) when the subscription took effect
    others,   \* connections of the pool that everything else holds
    faults

bidVars     == <<stage, num>>
watcherVars == <<at, held, snap, pos, snapAt, joined>>
vars == <<seq, sent, bidVars, watcherVars, others, faults>>

Stages == {"idle", "appending", "appended", "judging", "judged", "stored",
           "publishing", "done", "failed", "refused"}

Places == {"away", "reading", "showing", "subscribing", "listening", "ended"}

(* Types; a subscribed handler has its connection, and its place in the    *)
(* channel lies between the snapshot's and the channel's end.              *)
TypeOK ==
    /\ seq \in Nat /\ faults \in 0..MaxFaults
    /\ sent \in Seq(Nat) /\ others \in Nat
    /\ stage \in [Bids -> Stages] /\ num \in [Bids -> Nat]
    /\ at \in [Watchers -> Places]
    /\ held \subseteq Watchers
    /\ snap \in [Watchers -> Nat] /\ pos \in [Watchers -> Nat]
    /\ snapAt \in [Watchers -> Nat] /\ joined \in [Watchers -> Nat]
    /\ \A w \in Watchers :
          /\ at[w] \in {"showing", "subscribing", "listening"} => snapAt[w] <= Len(sent)
          /\ at[w] \in {"subscribing", "listening"} => w \in held
          /\ at[w] = "listening" => /\ snapAt[w] <= joined[w]
                                    /\ joined[w] <= pos[w] /\ pos[w] <= Len(sent)

-----------------------------------------------------------------------------
(* The pool.  A command holds a connection while it runs; a PubSub object  *)
(* from its first command on.  The pool raises when it is used up.         *)

Commands == {b \in Bids : stage[b] \in {"appending", "judging", "publishing"}}

(* Mutant of Snapshots: HGETALL's connection is not given back.            *)
SnapshotsKept == {w \in Watchers : at[w] # "away"}

Snapshots == {w \in Watchers : at[w] = "reading"}

InUse == others + Cardinality(Commands) + Cardinality(Snapshots) + Cardinality(held)

Free == InUse < PoolSize

Fault == faults < MaxFaults /\ faults' = faults + 1

NoFault == UNCHANGED faults

(* Everything else takes a connection, or gives one back.                  *)
OthersTake == Free /\ others' = others + 1

OthersGive == others > 0 /\ others' = others - 1

OthersMove == /\ OthersTake \/ OthersGive
              /\ NoFault
              /\ UNCHANGED <<seq, sent, bidVars, watcherVars>>

-----------------------------------------------------------------------------
(* place_bid, as far as Redis sees it.                                     *)

Move(b, from, to) == /\ stage[b] = from
                     /\ stage' = [stage EXCEPT ![b] = to]

(* A step of place_bid that changes nothing a watcher can see.             *)
Quietly == NoFault /\ UNCHANGED <<seq, sent, num, watcherVars, others>>

(* XADD; without a connection it raises, and that is swallowed.            *)
BeginAppend(b) == Free /\ Move(b, "idle", "appending") /\ Quietly
SkipAppend(b)  == ~Free /\ Move(b, "idle", "appended") /\ Quietly
EndAppend(b)   == Move(b, "appending", "appended") /\ Quietly

(* EVALSHA; without a connection the bid is refused.                       *)
BeginJudge(b) == Free /\ Move(b, "appended", "judging") /\ Quietly

(* Mutant of Refuse: the bid waits for a connection.                       *)
Wait(b) == ~Free /\ stage[b] = "appended" /\ UNCHANGED stage /\ Quietly

Refuse(b) == ~Free /\ Move(b, "appended", "refused") /\ Quietly

Accept(b) == /\ seq' = seq + 1
             /\ num' = [num EXCEPT ![b] = seq + 1]

Judge(b) == /\ Move(b, "judging", "judged")
            /\ Accept(b)
            /\ NoFault
            /\ UNCHANGED <<sent, watcherVars, others>>

(* The command fails, with or without effect.                              *)
JudgeError(b) == /\ Fault
                 /\ Move(b, "judging", "failed")
                 /\ Accept(b) \/ UNCHANGED <<seq, num>>
                 /\ UNCHANGED <<sent, watcherVars, others>>

(* The rows are flushed; the flush fails for a bidder without a user row   *)
(* and for the second insert of one proxy.                                 *)
Store(b)      == Move(b, "judged", "stored") /\ Quietly
StoreFails(b) == Move(b, "judged", "failed") /\ Quietly

(* PUBLISH; every failure is swallowed.                                    *)
BeginPublish(b) == Free /\ Move(b, "stored", "publishing") /\ Quietly
SkipPublish(b)  == ~Free /\ Move(b, "stored", "done") /\ Quietly

(* Mutant of Broadcasts: a failed send is repeated.                        *)
BroadcastsTwice(b) == sent' = sent \o <<num[b], num[b]>>

Broadcasts(b) == sent' = Append(sent, num[b])

Publish(b) == /\ Move(b, "publishing", "done")
              /\ Broadcasts(b)
              /\ NoFault
              /\ UNCHANGED <<seq, num, watcherVars, others>>

PublishError(b) == /\ Fault
                   /\ Move(b, "publishing", "done")
                   /\ Broadcasts(b) \/ UNCHANGED sent
                   /\ UNCHANGED <<seq, num, watcherVars, others>>

-----------------------------------------------------------------------------
(* auction_live, the handler of a watcher's WebSocket.                     *)

Go(w, from, to) == /\ at[w] = from
                   /\ at' = [at EXCEPT ![w] = to]

(* A step of a handler that leaves the channel and the bids alone.         *)
Elsewhere == UNCHANGED <<seq, sent, bidVars, others>>

(* The finally block.  unsubscribe is a command of the PubSub object too:  *)
(* it takes a connection if the object has none, and nothing gives the     *)
(* object's connection back.                                               *)
Finish(w, takes) ==
    /\ at' = [at EXCEPT ![w] = "ended"]
    /\ held' = IF takes THEN held \cup {w} ELSE held
    /\ UNCHANGED <<snap, pos, snapAt, joined>>

Connect(w) ==
    /\ Free
    /\ Go(w, "away", "reading")
    /\ NoFault /\ Elsewhere
    /\ UNCHANGED <<held, snap, pos, snapAt, joined>>

ConnectRefused(w) ==
    /\ at[w] = "away" /\ ~Free
    /\ Finish(w, FALSE)
    /\ NoFault /\ Elsewhere

(* Mutant of ReadSnapshot: the frame is what the hash was opened with.     *)
ReadNothing(w) ==
    /\ Go(w, "reading", "showing")
    /\ snapAt' = [snapAt EXCEPT ![w] = Len(sent)]
    /\ NoFault /\ Elsewhere
    /\ UNCHANGED <<held, snap, pos, joined>>

(* HGETALL returns and gives its connection back.                          *)
ReadSnapshot(w) ==
    /\ Go(w, "reading", "showing")
    /\ snap' = [snap EXCEPT ![w] = seq]
    /\ snapAt' = [snapAt EXCEPT ![w] = Len(sent)]
    /\ NoFault /\ Elsewhere
    /\ UNCHANGED <<held, pos, joined>>

ReadSnapshotError(w) ==
    /\ Fault
    /\ at[w] = "reading"
    /\ \E takes \in BOOLEAN : Finish(w, takes)
    /\ Elsewhere

(* The client has left before the initial frame is sent.                   *)
InitialFrameFails(w) ==
    /\ at[w] = "showing"
    /\ Finish(w, Free)
    /\ NoFault /\ Elsewhere

(* Mutant of BeginSubscribe: the connection goes back after the command.   *)
SubscribeOnce(w) ==
    /\ Free
    /\ Go(w, "showing", "subscribing")
    /\ NoFault /\ Elsewhere
    /\ UNCHANGED <<held, snap, pos, snapAt, joined>>

BeginSubscribe(w) ==
    /\ Free
    /\ Go(w, "showing", "subscribing")
    /\ held' = held \cup {w}
    /\ NoFault /\ Elsewhere
    /\ UNCHANGED <<snap, pos, snapAt, joined>>

SubscribeRefused(w) ==
    /\ at[w] = "showing" /\ ~Free
    /\ Finish(w, FALSE)
    /\ NoFault /\ Elsewhere

(* SUBSCRIBE takes effect in Redis.                                        *)
Subscribed(w) ==
    /\ Go(w, "subscribing", "listening")
    /\ pos' = [pos EXCEPT ![w] = Len(sent)]
    /\ joined' = [joined EXCEPT ![w] = Len(sent)]
    /\ NoFault /\ Elsewhere
    /\ UNCHANGED <<held, snap, snapAt>>

(* Mutant of Relay: a message is taken off and dropped.                    *)
RelayNothing(w) ==
    /\ at[w] = "listening" /\ pos[w] < Len(sent)
    /\ UNCHANGED watcherVars
    /\ NoFault /\ Elsewhere

(* The next message.  If the client has left by now the send raises, that  *)
(* is swallowed, and the handler goes on as if it had not.                 *)
Relay(w) ==
    /\ at[w] = "listening" /\ pos[w] < Len(sent)
    /\ pos' = [pos EXCEPT ![w] = @ + 1]
    /\ NoFault /\ Elsewhere
    /\ UNCHANGED <<at, held, snap, snapAt, joined>>

(* The PubSub connection breaks; redis-py 5 raises out of listen().        *)
ListenError(w) ==
    /\ Fault
    /\ at[w] \in {"subscribing", "listening"}
    /\ Finish(w, TRUE)
    /\ Elsewhere

-----------------------------------------------------------------------------
(* The process restarts: sessions and handlers end, a new pool is created. *)

Restart ==
    /\ Fault
    /\ stage' = [b \in Bids |-> IF stage[b] \in {"idle", "done", "refused"}
                                THEN stage[b] ELSE "failed"]
    /\ at' = [w \in Watchers |-> IF at[w] = "away" THEN "away" ELSE "ended"]
    /\ held' = {} /\ others' = 0
    /\ UNCHANGED <<seq, sent, num, snap, pos, snapAt, joined>>

Init == /\ seq = 0 /\ sent = << >> /\ others = 0 /\ faults = 0
        /\ stage = [b \in Bids |-> "idle"] /\ num = [b \in Bids |-> 0]
        /\ at = [w \in Watchers |-> "away"]
        /\ held = {}
        /\ snap = [w \in Watchers |-> 0] /\ pos = [w \in Watchers |-> 0]
        /\ snapAt = [w \in Watchers |-> 0] /\ joined = [w \in Watchers |-> 0]

(* A new request, and a new watcher; then what the event loop runs.        *)
Arrive == \/ \E b \in Bids : BeginAppend(b) \/ SkipAppend(b)
          \/ \E w \in Watchers : Connect(w) \/ ConnectRefused(w)

PlaceBid(b) == \/ EndAppend(b) \/ BeginJudge(b) \/ Refuse(b) \/ Judge(b)
               \/ Store(b) \/ StoreFails(b)
               \/ BeginPublish(b) \/ SkipPublish(b) \/ Publish(b)

Handle(w) == \/ ReadSnapshot(w) \/ InitialFrameFails(w) \/ BeginSubscribe(w)
             \/ SubscribeRefused(w) \/ Subscribed(w) \/ Relay(w)

Failures == \/ \E b \in Bids : JudgeError(b) \/ PublishError(b)
            \/ \E w \in Watchers : ReadSnapshotError(w) \/ ListenError(w)
            \/ Restart

Next == \/ Arrive
        \/ \E b \in Bids : PlaceBid(b)
        \/ \E w \in Watchers : Handle(w)
        \/ OthersMove
        \/ Failures

Spec == Init /\ [][Next]_vars

(* Every coroutine that can go on does, and Redis answers or raises.       *)
FairSpec == /\ Spec
            /\ \A b \in Bids : WF_vars(PlaceBid(b))
            /\ \A w \in Watchers : WF_vars(Handle(w))

-----------------------------------------------------------------------------
(* Properties.                                                             *)

(* The channel carries accepted bids only: each frame is the number of one *)
(* bid whose rows were flushed, never beyond the hash, and no bid is       *)
(* broadcast twice, through failed commands and restarts.                  *)
FramesAreBids ==
    /\ \A b \in Bids : num[b] <= seq
    /\ \A b, c \in Bids : b # c /\ num[b] = num[c] => num[b] = 0
    /\ \A i \in 1..Len(sent) : \E b \in Bids : /\ stage[b] = "done"
                                               /\ num[b] > 0 /\ num[b] = sent[i]
    /\ \A i, j \in 1..Len(sent) : i # j => sent[i] # sent[j]

(* What a watcher has been shown.                                          *)
Shown(w) == {snap[w]} \cup {sent[i] : i \in joined[w] + 1..pos[w]}

(* Once every accepted bid has been published and relayed, a watcher has   *)
(* been shown the current price, in whatever order the bids were           *)
(* published, unless a message was sent between its snapshot and its       *)
(* subscription: that gap is the only way to miss a published bid.  The    *)
(* newest bid need not be the last frame.                                  *)
CaughtUp ==
    \A w \in Watchers :
        /\ at[w] = "listening" /\ pos[w] = Len(sent)
        /\ joined[w] = snapAt[w]
        /\ \A b \in Bids : num[b] > 0 => \E i \in 1..Len(sent) : sent[i] = num[b]
        => seq \in Shown(w)

InProgress(b) == stage[b] \notin {"idle", "done", "failed", "refused"}

(* A watcher costs the pool at most one connection in its life, although   *)
(* its handler uses one for the snapshot, one for the PubSub object and    *)
(* perhaps one in its finally block.  Without a fault a bid is refused     *)
(* only when the watchers that ever came, the other bids in progress and   *)
(* what everything else holds at that moment make up PoolSize.             *)
OneConnectionEach ==
    [][\A b \in Bids : faults = 0 /\ Refuse(b) =>
          PoolSize <= others + Cardinality({w \in Watchers : at[w] # "away"})
                      + Cardinality({c \in Bids \ {b} : InProgress(c)})]_vars

Behind(w) == at[w] = "listening" /\ pos[w] < Len(sent)

(* Messages sent after a subscription reach the watcher's handler, unless  *)
(* its connection to Redis breaks: when somebody lags behind the channel,  *)
(* there comes a time when nobody does.                                    *)
FramesArrive == (\E w \in Watchers : Behind(w)) ~> (\A w \in Watchers : ~Behind(w))

(* Bids are answered however many connections watchers keep: the pool      *)
(* refuses and never makes a bid wait.                                     *)
BidsEnd == (\E b \in Bids : InProgress(b)) ~> (\A b \in Bids : ~InProgress(b))

=============================================================================
