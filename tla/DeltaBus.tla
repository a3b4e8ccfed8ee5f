------------------------------ MODULE DeltaBus ------------------------------
(***************************************************************************)
(* The gossip manager of the daemons (netd/internal/gossip/gossip.go) and  *)
(* the gRPC streams it feeds (grpc/server.go): concurrent PublishDelta     *)
(* calls are numbered and published on one project's topic, every daemon   *)
(* that joined drops what it has already passed and copies the rest into a *)
(* bounded channel per open SubscribeDeltas stream.  Gossipsub itself is a *)
(* library: per pair of daemons a queue that may lose, repeat and reorder. *)
(* Numbering takes a tick of the clock, so no daemon publishes faster than *)
(* its clock runs, which is what seqBase relies on.                        *)
(***************************************************************************)
EXTENDS Integers, SequencesExt

CONSTANTS
    Daemons,
    Calls,          \* calls of PublishDelta, each with a delta of its own
    CallAt,         \* [Calls -> Daemons]
    Streams,        \* calls of SubscribeDeltas
    StreamAt,       \* [Streams -> Daemons]
    Stuck,          \* streams whose client may stop reading
    BufferSize,     \* SubscriberBufferSize
    Retention,      \* dedupRetention, in ticks
    SweepEvery,     \* dedupSweepEvery, in ticks
    MaxTime,        \* bound on the clock
    BusFaults       \* the allowed budgets: a set of functions on BusFaultKinds

BusFaultKinds == {"lose", "twice", "reorder", "restart", "leave"}

ASSUME BusAssumption ==
    /\ CallAt \in [Calls -> Daemons] /\ StreamAt \in [Streams -> Daemons]
    /\ Stuck \subseteq Streams
    /\ BufferSize \in Nat \ {0} /\ Retention \in Nat /\ SweepEvery \in Nat /\ MaxTime \in Nat
    /\ BusFaults \subseteq [BusFaultKinds -> Nat]

VARIABLES
    now,        \* the wall clock, one for all
    serving,    \* [Daemons -> {"up", "stopped", "closing", "down"}]: main and Close
    seqBase, publishSeq,
    call,       \* [Calls -> [stage, seq]]
    topic,      \* [Daemons -> BOOLEAN]: the project is in m.topics
    left,       \* history: [Daemons -> how often it left]
    lastSeen,   \* [Daemons -> [Daemons -> [seq, at]]], seq 0 for no entry
    lastPrune,  \* [Daemons -> Nat]
    wire,       \* [Daemons -> [Daemons -> Seq(deltas)]], from sender to receiver
    sub,        \* [Streams -> stream records]
    accepted,   \* history: [Daemons -> deltas that passed checkAndUpdateSeq]
    stale,      \* history: [Daemons -> deltas it refused]
    panicked,   \* a send on, or a second close of, a closed channel
    luck        \* fault budgets left

busVars == <<now, serving, seqBase, publishSeq, call, topic, left, lastSeen, lastPrune, wire,
             sub, accepted, stale, panicked, luck>>

NoEntry == [seq |-> 0, at |-> 0]
(* reg: in m.subs; ch: the channel; got: what the client was sent.          *)
Unopened == [reg |-> FALSE, ch |-> "none", buf |-> <<>>, got |-> <<>>]

Spend(f) == luck[f] > 0 /\ luck' = [luck EXCEPT ![f] = @ - 1]
Quiet == UNCHANGED luck
Cleared(n) == [m \in Daemons |-> [wire[m] EXCEPT ![n] = <<>>]]
Sub(s, f, v) == [sub EXCEPT ![s][f] = v]

-----------------------------------------------------------------------------
(* Topics.                                                                  *)
JoinProject(n) ==
    /\ serving[n] = "up" /\ ~topic[n]
    /\ topic' = [topic EXCEPT ![n] = TRUE]
    /\ lastSeen' = [lastSeen EXCEPT ![n] = [m \in Daemons |-> NoEntry]]
    /\ lastPrune' = [lastPrune EXCEPT ![n] = 0]
    /\ Quiet
    /\ UNCHANGED <<now, serving, seqBase, publishSeq, call, left, wire, sub, accepted, stale, panicked>>

LeaveProject(n) ==
    /\ serving[n] = "up" /\ topic[n]
    /\ Spend("leave")
    /\ topic' = [topic EXCEPT ![n] = FALSE]
    /\ left' = [left EXCEPT ![n] = @ + 1]
    /\ wire' = Cleared(n)
    /\ UNCHANGED <<now, serving, seqBase, publishSeq, call, lastSeen, lastPrune, sub,
                   accepted, stale, panicked>>

-----------------------------------------------------------------------------
(* PublishDelta, which other calls may interrupt between the number and the *)
(* publication: the manager's lock is held only to look the topic up.       *)
nextSeq(n) == seqBase[n] + publishSeq[n] + 1

stamp(c) ==
    LET n == CallAt[c] IN
    /\ serving[n] = "up" /\ topic[n]
    /\ call[c].stage = "new" /\ now < MaxTime
    /\ call' = [call EXCEPT ![c] = [stage |-> "stamped", seq |-> nextSeq(n), at |-> now]]
    /\ publishSeq' = [publishSeq EXCEPT ![n] = @ + 1]
    /\ now' = now + 1
    /\ Quiet
    /\ UNCHANGED <<serving, seqBase, topic, left, lastSeen, lastPrune, wire, sub, accepted, stale,
                   panicked>>

(* The publisher's own daemon hears the echo too; what reaches a daemon     *)
(* without streams has no effect and is left out.  A topic that was left in *)
(* between fails the call.                                                  *)
Watched == {StreamAt[s] : s \in Streams}

publish(c) ==
    LET n == CallAt[c]
        d == [id |-> c, seq |-> call[c].seq, sent |-> now]
    IN
    /\ call[c].stage = "stamped" /\ serving[n] # "down"
    /\ call' = [call EXCEPT ![c].stage = IF topic[n] THEN "sent" ELSE "failed"]
    /\ wire' = [wire EXCEPT ![n] = [m \in Daemons |-> IF topic[n] /\ topic[m] /\ m \in Watched
                                                      THEN Append(@[m], d) ELSE @[m]]]
    /\ Quiet
    /\ UNCHANGED <<now, serving, seqBase, publishSeq, topic, left, lastSeen, lastPrune, sub,
                   accepted, stale, panicked>>

-----------------------------------------------------------------------------
(* receiveLoop of daemon n for the delta d of daemon m.                     *)
SweepEarly(n, t) ==
    IF t - lastPrune[n] > SweepEvery
    THEN [m \in Daemons |-> IF t - lastSeen[n][m].at >= Retention THEN NoEntry ELSE lastSeen[n][m]]
    ELSE lastSeen[n]

Sweep(n, t) ==
    IF t - lastPrune[n] > SweepEvery
    THEN [m \in Daemons |-> IF t - lastSeen[n][m].at > Retention THEN NoEntry ELSE lastSeen[n][m]]
    ELSE lastSeen[n]

checkAndUpdateSeq(n, m, d) ==
    LET swept == Sweep(n, now)
        newer == d.seq > swept[m].seq
    IN
    /\ lastPrune' = [lastPrune EXCEPT ![n] = IF now - @ > SweepEvery THEN now ELSE @]
    /\ lastSeen' = [lastSeen EXCEPT ![n] =
                      IF newer THEN [swept EXCEPT ![m] = [seq |-> d.seq, at |-> now]] ELSE swept]
    /\ accepted' = [accepted EXCEPT ![n] = IF newer THEN @ \cup {d.id} ELSE @]
    /\ stale' = [stale EXCEPT ![n] = IF newer THEN @ ELSE @ \cup {d.id}]

(* What a stream is given of d, with the membership it came through.        *)
Heard(n, d) == [id |-> d.id, member |-> left[n]]

FanOutBlocking(n, d) ==
    /\ \A s \in Streams : StreamAt[s] = n /\ sub[s].reg => Len(sub[s].buf) < BufferSize
    /\ sub' = [s \in Streams |-> IF StreamAt[s] = n /\ sub[s].reg
                                 THEN [sub[s] EXCEPT !.buf = Append(@, Heard(n, d))] ELSE sub[s]]
    /\ UNCHANGED panicked

(* A full channel drops the delta for its own stream only.                  *)
fanOut(n, d) ==
    /\ sub' = [s \in Streams |->
                 IF StreamAt[s] = n /\ sub[s].reg /\ Len(sub[s].buf) < BufferSize
                 THEN [sub[s] EXCEPT !.buf = Append(@, Heard(n, d))]
                 ELSE sub[s]]
    /\ panicked' = (panicked \/ \E s \in Streams : StreamAt[s] = n /\ sub[s].reg /\ sub[s].ch = "closed")

Handle(n, m, d) ==
    /\ checkAndUpdateSeq(n, m, d)
    /\ IF d.seq > Sweep(n, now)[m].seq THEN fanOut(n, d) ELSE UNCHANGED <<sub, panicked>>
    /\ UNCHANGED <<now, serving, seqBase, publishSeq, call, topic, left>>

Listening(n) == serving[n] # "down" /\ topic[n]
Carried(d) == now - d.sent <= Retention

receive(n, m) ==
    /\ Listening(n) /\ wire[m][n] # <<>> /\ Carried(Head(wire[m][n]))
    /\ Handle(n, m, Head(wire[m][n]))
    /\ wire' = [wire EXCEPT ![m][n] = Tail(@)]
    /\ Quiet

(* A second copy stays on the way, or the second delta overtakes the first. *)
receive_repeated(n, m) ==
    /\ Listening(n) /\ wire[m][n] # <<>> /\ Carried(Head(wire[m][n]))
    /\ Handle(n, m, Head(wire[m][n]))
    /\ Spend("twice")
    /\ UNCHANGED wire

receive_overtaking(n, m) ==
    /\ Listening(n) /\ Len(wire[m][n]) > 1 /\ Carried(wire[m][n][2])
    /\ Handle(n, m, wire[m][n][2])
    /\ wire' = [wire EXCEPT ![m][n] = RemoveAt(@, 2)]
    /\ Spend("reorder")

(* One may be lost at any time; none is carried beyond the retention.       *)
lose(n, m) ==
    /\ wire[m][n] # <<>>
    /\ wire' = [wire EXCEPT ![m][n] = Tail(@)]
    /\ Spend("lose")
    /\ UNCHANGED <<now, serving, seqBase, publishSeq, call, topic, left, lastSeen, lastPrune, sub,
                   accepted, stale, panicked>>

expire(n, m) ==
    /\ wire[m][n] # <<>> /\ ~Carried(Head(wire[m][n]))
    /\ wire' = [wire EXCEPT ![m][n] = Tail(@)]
    /\ Quiet
    /\ UNCHANGED <<now, serving, seqBase, publishSeq, call, topic, left, lastSeen, lastPrune, sub,
                   accepted, stale, panicked>>

-----------------------------------------------------------------------------
(* SubscribeDeltas: the handler registers a channel, copies it to its       *)
(* client, and unregisters when the client or the channel goes away.        *)
Subscribe(s) ==
    /\ serving[StreamAt[s]] = "up" /\ sub[s].ch = "none"
    /\ sub' = [sub EXCEPT ![s].reg = TRUE, ![s].ch = "open"]
    /\ Quiet
    /\ UNCHANGED <<now, serving, seqBase, publishSeq, call, topic, left, lastSeen, lastPrune, wire,
                   accepted, stale, panicked>>

send(s) ==
    /\ sub[s].ch # "none" /\ sub[s].buf # <<>>
    /\ sub' = [sub EXCEPT ![s].buf = Tail(@), ![s].got = Append(@, Head(sub[s].buf))]
    /\ Quiet
    /\ UNCHANGED <<now, serving, seqBase, publishSeq, call, topic, left, lastSeen, lastPrune, wire,
                   accepted, stale, panicked>>

(* cancel, as the handler returns.                                          *)
CancelAny(s) ==
    /\ sub[s].ch # "none"
    /\ panicked' = (panicked \/ sub[s].ch = "closed")
    /\ sub' = [sub EXCEPT ![s].reg = FALSE, ![s].ch = "closed"]
    /\ Quiet
    /\ UNCHANGED <<now, serving, seqBase, publishSeq, call, topic, left, lastSeen, lastPrune, wire,
                   accepted, stale>>

CancelKeepsSlot(s) ==
    /\ sub[s].reg
    /\ panicked' = (panicked \/ sub[s].ch = "closed")
    /\ sub' = [sub EXCEPT ![s].ch = "closed"]
    /\ Quiet
    /\ UNCHANGED <<now, serving, seqBase, publishSeq, call, topic, left, lastSeen, lastPrune, wire,
                   accepted, stale>>

cancel(s) ==
    /\ sub[s].reg
    /\ panicked' = (panicked \/ sub[s].ch = "closed")
    /\ sub' = [sub EXCEPT ![s].reg = FALSE, ![s].ch = "closed"]
    /\ Quiet
    /\ UNCHANGED <<now, serving, seqBase, publishSeq, call, topic, left, lastSeen, lastPrune, wire,
                   accepted, stale>>

-----------------------------------------------------------------------------
(* main stops the gRPC server first, then Close takes the subscribers out   *)
(* of the manager and closes their channels outside the lock.               *)
stop(n) ==
    /\ serving[n] = "up"
    /\ Spend("restart")
    /\ serving' = [serving EXCEPT ![n] = "stopped"]
    /\ UNCHANGED <<now, seqBase, publishSeq, call, topic, left, lastSeen, lastPrune, wire, sub,
                   accepted, stale, panicked>>

Close(n) ==
    /\ serving[n] = "stopped"
    /\ serving' = [serving EXCEPT ![n] = "closing"]
    /\ sub' = [s \in Streams |-> IF StreamAt[s] = n /\ sub[s].reg
                                 THEN [sub[s] EXCEPT !.reg = FALSE, !.ch = "taken"] ELSE sub[s]]
    /\ topic' = [topic EXCEPT ![n] = FALSE]
    /\ wire' = Cleared(n)
    /\ Quiet
    /\ UNCHANGED <<now, seqBase, publishSeq, call, left, lastSeen, lastPrune, accepted, stale, panicked>>

Taken(n) == {s \in Streams : StreamAt[s] = n /\ sub[s].ch = "taken"}

close_channel(s) ==
    /\ s \in Taken(StreamAt[s])
    /\ sub' = Sub(s, "ch", "closed")
    /\ Quiet
    /\ UNCHANGED <<now, serving, seqBase, publishSeq, call, topic, left, lastSeen, lastPrune, wire,
                   accepted, stale, panicked>>

(* The process ends; calls under way fail, and what they would have sent is *)
(* gone.  A crash ends it from any point.                                   *)
exit(n) ==
    /\ serving[n] \in {"stopped", "closing"}
    /\ serving' = [serving EXCEPT ![n] = "down"]
    /\ topic' = [topic EXCEPT ![n] = FALSE]
    /\ wire' = Cleared(n)
    /\ sub' = [s \in Streams |-> IF StreamAt[s] = n /\ sub[s].ch # "none"
                                 THEN [sub[s] EXCEPT !.reg = FALSE, !.ch = "closed", !.buf = <<>>]
                                 ELSE sub[s]]
    /\ call' = [c \in Calls |-> IF CallAt[c] = n /\ call[c].stage = "stamped"
                                THEN [call[c] EXCEPT !.stage = "failed"] ELSE call[c]]
    /\ Quiet
    /\ UNCHANGED <<now, seqBase, publishSeq, left, lastSeen, lastPrune, accepted, stale, panicked>>

NewFromZero(n) ==
    /\ serving[n] = "down"
    /\ serving' = [serving EXCEPT ![n] = "up"]
    /\ publishSeq' = [publishSeq EXCEPT ![n] = 0]
    /\ UNCHANGED seqBase
    /\ Quiet
    /\ UNCHANGED <<now, call, topic, left, lastSeen, lastPrune, wire, sub, accepted, stale, panicked>>

NewManager(n) ==
    /\ serving[n] = "down"
    /\ serving' = [serving EXCEPT ![n] = "up"]
    /\ seqBase' = [seqBase EXCEPT ![n] = now]
    /\ publishSeq' = [publishSeq EXCEPT ![n] = 0]
    /\ Quiet
    /\ UNCHANGED <<now, call, topic, left, lastSeen, lastPrune, wire, sub, accepted, stale, panicked>>

pass ==
    /\ now < MaxTime
    /\ now' = now + 1
    /\ Quiet
    /\ UNCHANGED <<serving, seqBase, publishSeq, call, topic, left, lastSeen, lastPrune, wire, sub,
                   accepted, stale, panicked>>

-----------------------------------------------------------------------------
BusInit ==
    /\ now = 1
    /\ serving = [n \in Daemons |-> "up"]
    /\ seqBase = [n \in Daemons |-> 1] /\ publishSeq = [n \in Daemons |-> 0]
    /\ call = [c \in Calls |-> [stage |-> "new", seq |-> 0, at |-> 0]]
    /\ topic = [n \in Daemons |-> TRUE] /\ left = [n \in Daemons |-> 0]
    /\ lastSeen = [n \in Daemons |-> [m \in Daemons |-> NoEntry]]
    /\ lastPrune = [n \in Daemons |-> 0]
    /\ wire = [n \in Daemons |-> [m \in Daemons |-> <<>>]]
    /\ sub = [s \in Streams |-> Unopened]
    /\ accepted = [n \in Daemons |-> {}] /\ stale = [n \in Daemons |-> {}]
    /\ panicked = FALSE
    /\ luck \in BusFaults

BusNext ==
    \/ \E n \in Daemons :
         \/ JoinProject(n) \/ LeaveProject(n)
         \/ stop(n) \/ Close(n) \/ exit(n) \/ NewManager(n)
         \/ \E m \in Daemons : receive(n, m) \/ receive_repeated(n, m)
                                 \/ receive_overtaking(n, m) \/ lose(n, m)
                                 \/ expire(n, m)
    \/ \E c \in Calls : stamp(c) \/ publish(c)
    \/ \E s \in Streams : Subscribe(s) \/ send(s) \/ cancel(s) \/ close_channel(s)
    \/ pass

(* Receive loops run, handlers copy to clients that read, started calls end *)
(* and a stopped daemon's shutdown goes on.                                 *)
BusFairness ==
    /\ \A n \in Watched, m \in Daemons : WF_busVars(receive(n, m) \/ expire(n, m))
    /\ \A s \in Streams \ Stuck : WF_busVars(send(s))
    /\ \A n \in Daemons : WF_busVars(Close(n) \/ exit(n))

-----------------------------------------------------------------------------
BusTypeOK ==
    /\ now \in 1..MaxTime /\ serving \in [Daemons -> {"up", "stopped", "closing", "down"}]
    /\ \A c \in Calls : call[c].stage \in {"new", "stamped", "sent", "failed"}
    /\ topic \in [Daemons -> BOOLEAN]
    /\ \A s \in Streams : /\ sub[s].ch \in {"none", "open", "taken", "closed"}
                          /\ Len(sub[s].buf) <= BufferSize
                          /\ sub[s].reg <=> sub[s].ch = "open"

Stream(s) == sub[s].got \o sub[s].buf

(* A stream hears one sender's deltas in the order they were numbered and   *)
(* none twice, whatever copies gossipsub makes or reorders, and across a    *)
(* restart of the sender: what NetworkBlackboard's merges rely on.          *)
HeardInOrder ==
    \A s \in Streams : \A i, j \in 1..Len(Stream(s)) :
        LET d == Stream(s)[i]
            e == Stream(s)[j]
        IN i < j /\ CallAt[d.id] = CallAt[e.id] /\ d.member = e.member
               => call[d.id].at < call[e.id].at

(* A daemon that refuses a delta has taken that one or one its sender       *)
(* numbered later: a sender that restarts is not muted by the mark its      *)
(* earlier process left (seqBase, gossip.go:155).                           *)
NotMuted ==
    \A n \in Daemons : \A c \in stale[n] :
        \E d \in accepted[n] : CallAt[d] = CallAt[c] /\ call[d].at >= call[c].at

(* No channel is closed twice or sent on once closed, however the shutdown  *)
(* and the handlers that return meet.                                       *)
NeverPanics == ~panicked

InFlight(n, c) == \E m \in Daemons : \E i \in 1..Len(wire[m][n]) : wire[m][n][i].id = c

(* What is on the way to a daemon is handled, even while one of its streams *)
(* has a full channel and a client that does not read.                      *)
StuckStreamStallsNobody ==
    \A n \in Watched : \A c \in Calls : InFlight(n, c) /\ serving[n] = "up" ~> ~InFlight(n, c)

(* The header of gossip.go on what the receivers' test drops: duplicates    *)
(* and replays.                                                             *)
OnlyDuplicatesDropped == \A n \in Daemons : stale[n] \subseteq accepted[n]

(* The bus hears each publisher in order and once, mutes nobody who         *)
(* restarts, never sends on a closed channel, and lets no reader stall      *)
(* another (fanOut).                                                        *)
BusDelivers ==
    /\ [](BusTypeOK /\ HeardInOrder /\ NotMuted /\ NeverPanics)
    /\ StuckStreamStallsNobody
=============================================================================
