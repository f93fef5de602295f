-------------------------------- MODULE Relay --------------------------------
(***************************************************************************)
(* The relay of scaling.go: instances that carry events to each other over *)
(* a bus that may be down, lose a subscription, and hand an instance its   *)
(* own messages back.                                                      *)
(*                                                                         *)
(* A channel an instance holds is a value (Objects); the relay joins it    *)
(* when the broker makes it and leaves it when the broker drops it, each   *)
(* under the protocol's lock, so a join and a drop of one name do not      *)
(* interleave. Every joined value has a listening goroutine of its own,    *)
(* and one that was cancelled may still be handing a message over.         *)
(* That a socket coming or going is one step on the value the broker holds *)
(* is what module Pusher shows.                                            *)
(***************************************************************************)
EXTENDS Naturals, Sequences, FiniteSets

CONSTANTS
    Instances,
    Names,          \* channel names, each with its tenant
    Sockets,
    Home,           \* the instance that holds a socket
    Objects,        \* channel values of an instance
    Events,
    Bounds,         \* the bounds a behaviour may have
    None

\* A bound: the sockets that come and go, the instances events are published at
\* and those that may be shut down, the times the bus fails and the messages on a
\* topic that no relay sent.
Bound == [sockets : SUBSET Sockets, entries : SUBSET Instances, stops : SUBSET Instances,
          outages : Nat, strays : Nat]

\* What a publisher asks for: the channel, and the socket that is left out; and,
\* once it is in the fleet, the instance it came in at.
Wanted == [channel : Names, socket : Sockets \union {None}]
Published == [channel : Names, socket : Sockets \union {None}, origin : Instances]

ASSUME RelayAssumption ==
    /\ IsFiniteSet(Events)
    /\ Home \in [Sockets -> Instances]
    /\ Bounds \subseteq Bound
    /\ None \notin Instances \union Names \union Sockets \union Objects \union Events
    /\ None \notin Wanted \union Published

VARIABLES
    channels,       \* per instance and name, the value the base broker holds
    on,             \* per socket, the names it is on
    dropping,       \* per instance, the names a departure is about to drop
    joined,         \* Relay.joined: per instance and name, the value relayed
    listener,       \* per instance and value, where its goroutine is
    cancelled,      \* per instance and value, its context has ended
    topic,          \* per instance and value, the name it listens for
    inbox,          \* per instance and value, messages the bus is handing over
    degraded,       \* Relay.degraded
    closed,         \* Relay.closed, and how close came back
    bus,            \* the bus answers
    bound,          \* the bounds of this behaviour
    outages,
    strays,
    event,          \* per event, what is published
    stage,          \* per event, where its publisher is
    handed,         \* history: the instances that broadcast it
    got             \* history: per socket, the events it was sent

chanVars == <<channels, on, dropping, joined>>
listenVars == <<listener, cancelled, topic>>
busVars == <<bus, bound, outages, strays>>
eventVars == <<event, stage>>
history == <<handed, got>>
vars == <<chanVars, listenVars, inbox, degraded, closed, busVars, eventVars, history>>

Maybe == Objects \union {None}
Listening == {"none", "subscribing", "live", "retrying"}
Closings == {"open", "closing", "closed", "late"}
Stages == {"fresh", "local", "publishing", "sent", "failed", "done"}

\* relayMessage, as far as deliver looks at it. A message no relay sent names no
\* instance, or another channel; event None is one that does not decode.
Message == [event : Events \union {None}, origin : Instances \union {None}, channel : Names \union {None}]

Init ==
    /\ channels = [i \in Instances |-> [n \in Names |-> None]]
    /\ on = [s \in Sockets |-> {}]
    /\ dropping = [i \in Instances |-> {}]
    /\ joined = [i \in Instances |-> [n \in Names |-> None]]
    /\ listener = [i \in Instances |-> [o \in Objects |-> "none"]]
    /\ cancelled = [i \in Instances |-> [o \in Objects |-> FALSE]]
    /\ topic = [i \in Instances |-> [o \in Objects |-> None]]
    /\ inbox = [i \in Instances |-> [o \in Objects |-> <<>>]]
    /\ degraded = [i \in Instances |-> FALSE]
    /\ closed = [i \in Instances |-> "open"]
    /\ bus = TRUE
    /\ bound \in Bounds
    /\ outages = 0
    /\ strays = 0
    /\ event = [e \in Events |-> None]
    /\ stage = [e \in Events |-> "fresh"]
    /\ handed = [e \in Events |-> {}]
    /\ got = [s \in Sockets |-> {}]

-----------------------------------------------------------------------------
(* Joining and leaving                                                     *)

\* The sockets of an instance that are on a name.
Seated(i, n) == {s \in Sockets : Home[s] = i /\ n \in on[s]}

\* A value nothing refers to: the next one the broker makes.
Unused(i, o) ==
    /\ listener[i][o] = "none"
    /\ \A n \in Names : channels[i][n] # o /\ joined[i][n] # o

\* Relay.Join: refused once closed, nothing when the topic is already joined,
\* else the entry and its goroutine.
Join(i, n, o) ==
    IF joined[i][n] # None
    THEN UNCHANGED <<joined, listenVars, inbox>>
    ELSE /\ joined' = [joined EXCEPT ![i][n] = o]
         /\ listener' = [listener EXCEPT ![i][o] = "subscribing"]
         /\ cancelled' = [cancelled EXCEPT ![i][o] = FALSE]
         /\ topic' = [topic EXCEPT ![i][o] = n]
         /\ inbox' = [inbox EXCEPT ![i][o] = <<>>]

\* relayedBroker.FindOrCreate and the subscription that asked for it: the base
\* broker's value, made when there is none, then Join.
Enter(s, n) ==
    LET i == Home[s] IN
    /\ n \notin on[s]
    /\ closed[i] = "open"
    /\ \E o \in Objects :
        /\ IF channels[i][n] = None THEN Unused(i, o) ELSE channels[i][n] = o
        /\ channels' = [channels EXCEPT ![i][n] = o]
        /\ Join(i, n, o)
    /\ on' = [on EXCEPT ![s] = @ \union {n}]
    /\ UNCHANGED <<dropping, degraded, closed, busVars, eventVars, history>>

\* The same on a closed relay: Join answers ErrRelayClosed, the subscription
\* fails before it reserved anything, and the base broker keeps the value.
EnterRefused(s, n) ==
    LET i == Home[s] IN
    /\ n \notin on[s]
    /\ closed[i] # "open"
    /\ channels[i][n] = None
    /\ \E o \in Objects :
        /\ Unused(i, o)
        /\ channels' = [channels EXCEPT ![i][n] = o]
    /\ UNCHANGED <<on, dropping, joined, listenVars, inbox, degraded, closed, busVars, eventVars, history>>

\* Mutant: a departure drops nothing.
ExitOnly(s, n) ==
    /\ n \in on[s]
    /\ on' = [on EXCEPT ![s] = @ \ {n}]
    /\ UNCHANGED <<channels, dropping, joined, listenVars, inbox, degraded, closed, busVars, eventVars, history>>

\* A socket leaves a channel; the drop follows.
Exit(s, n) ==
    /\ n \in on[s]
    /\ on' = [on EXCEPT ![s] = @ \ {n}]
    /\ dropping' = [dropping EXCEPT ![Home[s]] = @ \union {n}]
    /\ UNCHANGED <<channels, joined, listenVars, inbox, degraded, closed, busVars, eventVars, history>>

\* Relay.Leave: the entry goes, then its goroutine's context ends.
Leave(i, n) ==
    /\ joined' = [joined EXCEPT ![i][n] = None]
    /\ cancelled' = IF joined[i][n] = None THEN cancelled
                    ELSE [cancelled EXCEPT ![i][joined[i][n]] = TRUE]

\* Mutant: the relay is left whatever the base broker answered.
RemoveAlwaysLeaves(i, n) ==
    /\ n \in dropping[i]
    /\ dropping' = [dropping EXCEPT ![i] = @ \ {n}]
    /\ channels' = IF Seated(i, n) = {} THEN [channels EXCEPT ![i][n] = None] ELSE channels
    /\ Leave(i, n)
    /\ UNCHANGED <<on, listener, topic, inbox, degraded, closed, busVars, eventVars, history>>

\* relayedBroker.Remove: the base broker drops the value when nobody is on it,
\* and the relay is left only when the base broker no longer knows the name.
Remove(i, n) ==
    /\ n \in dropping[i]
    /\ dropping' = [dropping EXCEPT ![i] = @ \ {n}]
    /\ IF Seated(i, n) = {}
       THEN /\ channels' = [channels EXCEPT ![i][n] = None]
            /\ Leave(i, n)
       ELSE UNCHANGED <<channels, joined, cancelled>>
    /\ UNCHANGED <<on, listener, topic, inbox, degraded, closed, busVars, eventVars, history>>

-----------------------------------------------------------------------------
(* Publishing                                                              *)

\* What a broadcast on the value o of instance i does with event e. A value the
\* broker no longer holds has nobody on it.
Broadcast(i, n, o, e, x) ==
    IF channels[i][n] # o \/ Seated(i, n) = {}
    THEN UNCHANGED history
    ELSE /\ handed' = [handed EXCEPT ![e] = @ \union {i}]
         /\ got' = [s \in Sockets |->
                IF s \in Seated(i, n) \ {x} THEN got[s] \union {e} ELSE got[s]]

\* The event enters the fleet at instance i, which serves its own sockets first:
\* Channel.Broadcast of the value it holds, if it holds one.
PublishLocal(e, i) ==
    /\ stage[e] = "fresh"
    /\ \E n \in Names, x \in Sockets \union {None} :
        /\ event' = [event EXCEPT ![e] = [channel |-> n, socket |-> x, origin |-> i]]
        /\ handed' = [handed EXCEPT ![e] = @ \union {i}]
        /\ got' = [s \in Sockets |->
                IF s \in Seated(i, n) \ {x} THEN got[s] \union {e} ELSE got[s]]
    /\ stage' = [stage EXCEPT ![e] = "local"]
    /\ UNCHANGED <<chanVars, listenVars, inbox, degraded, closed, busVars>>

\* Relay.Publish reads closed under the lock and lets go of it: carry logs the
\* refusal of a closed relay and that is the end of it.
Carry(e) ==
    /\ stage[e] = "local"
    /\ stage' = [stage EXCEPT ![e] = IF closed[event[e].origin] = "open" THEN "publishing" ELSE "done"]
    /\ UNCHANGED <<chanVars, listenVars, inbox, degraded, closed, busVars, event, history>>

\* External: the bus hands a message to every subscription of the topic, those
\* included whose goroutine was cancelled and has not returned.
ToTopic(n, m) ==
    inbox' = [i \in Instances |-> [o \in Objects |->
        IF listener[i][o] = "live" /\ topic[i][o] = n
        THEN Append(inbox[i][o], m) ELSE inbox[i][o]]]

\* bus.Publish of the encoded event.
BusPublish(e) ==
    /\ stage[e] = "publishing"
    /\ bus
    /\ ToTopic(event[e].channel, [event |-> e, origin |-> event[e].origin, channel |-> event[e].channel])
    /\ stage' = [stage EXCEPT ![e] = "sent"]
    /\ UNCHANGED <<chanVars, listenVars, degraded, closed, busVars, event, history>>

\* bus.Publish answers an error: the bus is down, or the context of the request
\* or the frame that published has ended.
BusRefuses(e) ==
    /\ stage[e] = "publishing"
    /\ stage' = [stage EXCEPT ![e] = "failed"]
    /\ UNCHANGED <<chanVars, listenVars, inbox, degraded, closed, busVars, event, history>>

\* recovered, after the bus answered.
PublishRecovered(e) ==
    /\ stage[e] = "sent"
    /\ degraded' = [degraded EXCEPT ![event[e].origin] = FALSE]
    /\ stage' = [stage EXCEPT ![e] = "done"]
    /\ UNCHANGED <<chanVars, listenVars, inbox, closed, busVars, event, history>>

\* fail, after it did not. The publisher is told nothing.
PublishFails(e) ==
    /\ stage[e] = "failed"
    /\ degraded' = [degraded EXCEPT ![event[e].origin] = TRUE]
    /\ stage' = [stage EXCEPT ![e] = "done"]
    /\ UNCHANGED <<chanVars, listenVars, inbox, closed, busVars, event, history>>

-----------------------------------------------------------------------------
(* Listening                                                               *)

\* A goroutine that returns holds no subscription.
Ends(i, o) ==
    /\ listener' = [listener EXCEPT ![i][o] = "none"]
    /\ cancelled' = [cancelled EXCEPT ![i][o] = FALSE]
    /\ topic' = [topic EXCEPT ![i][o] = None]
    /\ inbox' = [inbox EXCEPT ![i][o] = <<>>]

\* bus.Subscribe opens the subscription and blocks.
Subscribed(i, o) ==
    /\ listener[i][o] = "subscribing"
    /\ bus
    /\ listener' = [listener EXCEPT ![i][o] = "live"]
    /\ UNCHANGED <<chanVars, cancelled, topic, inbox, degraded, closed, busVars, eventVars, history>>

\* bus.Subscribe comes back and the context has not ended: fail, and the wait
\* before the next attempt. What the bus was handing over is lost.
SubscriptionLost(i, o) ==
    /\ listener[i][o] \in {"subscribing", "live"}
    /\ ~bus
    /\ ~cancelled[i][o]
    /\ degraded' = [degraded EXCEPT ![i] = TRUE]
    /\ listener' = [listener EXCEPT ![i][o] = "retrying"]
    /\ inbox' = [inbox EXCEPT ![i][o] = <<>>]
    /\ UNCHANGED <<chanVars, cancelled, topic, closed, busVars, eventVars, history>>

\* Mutant: the wait is for the flag and not for the clock.
RetryOnceRecovered(i, o) ==
    /\ listener[i][o] = "retrying"
    /\ ~cancelled[i][o]
    /\ ~degraded[i]
    /\ listener' = [listener EXCEPT ![i][o] = "subscribing"]
    /\ UNCHANGED <<chanVars, cancelled, topic, inbox, degraded, closed, busVars, eventVars, history>>

\* The wait is over: subscribe again.
Retry(i, o) ==
    /\ listener[i][o] = "retrying"
    /\ ~cancelled[i][o]
    /\ listener' = [listener EXCEPT ![i][o] = "subscribing"]
    /\ UNCHANGED <<chanVars, cancelled, topic, inbox, degraded, closed, busVars, eventVars, history>>

\* The context ended: Subscribe comes back, or the wait does, and listen returns.
Cancelled(i, o) ==
    /\ listener[i][o] # "none"
    /\ cancelled[i][o]
    /\ Ends(i, o)
    /\ UNCHANGED <<chanVars, degraded, closed, busVars, eventVars, history>>

\* Mutant: an instance does not tell its own messages from the others'.
AcceptsOwn(i, o, m) ==
    /\ m.event # None
    /\ m.origin # None
    /\ m.channel = topic[i][o]

\* What deliver lets through: a message that decodes, of another instance that
\* says which, addressed to the channel this subscription is for.
Accepts(i, o, m) ==
    /\ m.event # None
    /\ m.origin # i
    /\ m.origin # None
    /\ m.channel = topic[i][o]

\* Relay.deliver: recovered first, whatever arrived, then the broadcast of what
\* is let through. The exclusion the publisher asked for travels with the event.
Deliver(i, o) ==
    /\ listener[i][o] = "live"
    /\ inbox[i][o] # <<>>
    /\ LET m == Head(inbox[i][o]) IN
       IF Accepts(i, o, m)
       THEN Broadcast(i, topic[i][o], o, m.event, event[m.event].socket)
       ELSE UNCHANGED history
    /\ inbox' = [inbox EXCEPT ![i][o] = Tail(@)]
    /\ degraded' = [degraded EXCEPT ![i] = FALSE]
    /\ UNCHANGED <<chanVars, listenVars, closed, busVars, eventVars>>

-----------------------------------------------------------------------------
(* Close, and the bus                                                      *)

\* Mutant: the entries are forgotten and the root context lives on.
CloseForgets(i) ==
    /\ i \in bound.stops
    /\ closed[i] = "open"
    /\ closed' = [closed EXCEPT ![i] = "closing"]
    /\ joined' = [joined EXCEPT ![i] = [n \in Names |-> None]]
    /\ UNCHANGED <<channels, on, dropping, listenVars, inbox, degraded, busVars, eventVars, history>>

\* Mutant: the map of entries is left unmade.
CloseUnmakes(i) ==
    /\ i \in bound.stops
    /\ closed[i] = "open"
    /\ closed' = [closed EXCEPT ![i] = "closing"]
    /\ joined' = [joined EXCEPT ![i] = None]
    /\ cancelled' = [cancelled EXCEPT ![i] = [o \in Objects |-> listener[i][o] # "none"]]
    /\ UNCHANGED <<channels, on, dropping, listener, topic, inbox, degraded, busVars, eventVars, history>>

\* Relay.close: closed, no entry left, and the root context ends, which every
\* subscription's context hangs off.
Close(i) ==
    /\ i \in bound.stops
    /\ closed[i] = "open"
    /\ closed' = [closed EXCEPT ![i] = "closing"]
    /\ joined' = [joined EXCEPT ![i] = [n \in Names |-> None]]
    /\ cancelled' = [cancelled EXCEPT ![i] = [o \in Objects |-> listener[i][o] # "none"]]
    /\ UNCHANGED <<channels, on, dropping, listener, topic, inbox, degraded, busVars, eventVars, history>>

\* Mutant: close does not wait for the goroutines it cancelled.
CloseReturnsAtOnce(i) ==
    /\ closed[i] = "closing"
    /\ closed' = [closed EXCEPT ![i] = "closed"]
    /\ UNCHANGED <<chanVars, listenVars, inbox, degraded, busVars, eventVars, history>>

\* close comes back once wg counts nobody.
CloseReturns(i) ==
    /\ closed[i] = "closing"
    /\ \A o \in Objects : listener[i][o] = "none"
    /\ closed' = [closed EXCEPT ![i] = "closed"]
    /\ UNCHANGED <<chanVars, listenVars, inbox, degraded, busVars, eventVars, history>>

\* The caller's context ends first.
CloseGivesUp(i) ==
    /\ closed[i] = "closing"
    /\ closed' = [closed EXCEPT ![i] = "late"]
    /\ UNCHANGED <<chanVars, listenVars, inbox, degraded, busVars, eventVars, history>>

\* External: the bus goes away and comes back.
BusDown ==
    /\ bus
    /\ outages < bound.outages
    /\ bus' = FALSE
    /\ outages' = outages + 1
    /\ UNCHANGED <<chanVars, listenVars, inbox, degraded, closed, bound, strays, eventVars, history>>

BusUp ==
    /\ ~bus
    /\ bus' = TRUE
    /\ UNCHANGED <<chanVars, listenVars, inbox, degraded, closed, bound, outages, strays, eventVars, history>>

\* External: what does not come from a relay: something that does not decode, and
\* copies of an event that name no instance or another topic's channel.
StrayMessages(n) ==
    {[event |-> None, origin |-> None, channel |-> None]} \union
    {[event |-> e, origin |-> None, channel |-> n] : e \in {x \in Events : event[x] # None}} \union
    {[event |-> e, origin |-> event[e].origin, channel |-> None] : e \in {x \in Events : event[x] # None}}

Stray(n) ==
    /\ bus
    /\ strays < bound.strays
    /\ strays' = strays + 1
    /\ \E m \in StrayMessages(n) : ToTopic(n, m)
    /\ UNCHANGED <<chanVars, listenVars, degraded, closed, bus, bound, outages, eventVars, history>>

-----------------------------------------------------------------------------
\* The goroutine of one subscription.
Listener(i, o) ==
    \/ Subscribed(i, o)
    \/ SubscriptionLost(i, o)
    \/ Retry(i, o)
    \/ Cancelled(i, o)
    \/ Deliver(i, o)

\* The goroutine that publishes an event, once it has been let in.
Publisher(e) ==
    \/ Carry(e)
    \/ BusPublish(e)
    \/ BusRefuses(e)
    \/ PublishRecovered(e)
    \/ PublishFails(e)

Next ==
    \/ \E s \in bound.sockets, n \in Names : Enter(s, n) \/ EnterRefused(s, n) \/ Exit(s, n)
    \/ \E i \in Instances, n \in Names : Remove(i, n)
    \/ \E i \in bound.entries, e \in Events : PublishLocal(e, i)
    \/ \E e \in Events : Publisher(e)
    \/ \E i \in Instances, o \in Objects : Listener(i, o)
    \/ \E i \in Instances : Close(i) \/ CloseReturns(i) \/ CloseGivesUp(i)
    \/ BusDown
    \/ BusUp
    \/ \E n \in Names : Stray(n)

Spec == Init /\ [][Next]_vars

\* Goroutines are scheduled, a wait ends, and a Subscribe whose context ended or
\* whose bus is gone comes back. Nobody has to publish, subscribe or close, and
\* the bus need not come back.
FairSpec ==
    /\ Spec
    /\ \A i \in Instances, o \in Objects : WF_vars(Listener(i, o))
    /\ \A e \in Events : WF_vars(Publisher(e))
    /\ \A i \in Instances, n \in Names : WF_vars(Remove(i, n))
    /\ \A i \in Instances : WF_vars(CloseReturns(i))

-----------------------------------------------------------------------------
(* Properties                                                              *)

TypeOK ==
    /\ channels \in [Instances -> [Names -> Maybe]]
    /\ on \in [Sockets -> SUBSET Names]
    /\ dropping \in [Instances -> SUBSET Names]
    /\ joined \in [Instances -> [Names -> Maybe]]
    /\ listener \in [Instances -> [Objects -> Listening]]
    /\ cancelled \in [Instances -> [Objects -> BOOLEAN]]
    /\ topic \in [Instances -> [Objects -> Names \union {None}]]
    /\ inbox \in [Instances -> [Objects -> Seq(Message)]]
    /\ degraded \in [Instances -> BOOLEAN]
    /\ closed \in [Instances -> Closings]
    /\ bus \in BOOLEAN
    /\ bound \in Bounds
    /\ outages \in 0..bound.outages
    /\ strays \in 0..bound.strays
    /\ event \in [Events -> Published \union {None}]
    /\ stage \in [Events -> Stages]
    /\ handed \in [Events -> SUBSET Instances]
    /\ got \in [Sockets -> SUBSET Events]

\* The value the relay listens for is the value the broker hands out, and nothing
\* else is listened for. Join does nothing when the topic is already joined, so an
\* entry that outlived its channel would leave the next channel of that name deaf
\* to the fleet for ever, and nobody would be told.
RelaysWhatItHolds ==
    \A i \in Instances : closed[i] = "open" =>
        /\ joined[i] = channels[i]
        /\ \A o \in Objects :
            (\E n \in Names : joined[i][n] = o) <=> (listener[i][o] # "none" /\ ~cancelled[i][o])

\* After Close came back clean no goroutine of the relay is left to hand anything
\* to a channel ("Close stops every subscription and waits for them").
ClosedIsQuiet ==
    \A i \in Instances : closed[i] = "closed" =>
        \A o \in Objects : listener[i][o] = "none"

\* A channel nobody is on, and nobody is about to drop, is left behind only by a
\* relay that was closed: there FindOrCreate makes the channel and then fails.
OnlyClosedLeaves ==
    \A i \in Instances, n \in Names :
        (channels[i][n] # None /\ Seated(i, n) = {} /\ n \notin dropping[i]) => closed[i] # "open"

FanoutOf == INSTANCE Fanout WITH
    published <- [e \in Events |->
        IF event[e] = None THEN None ELSE [channel |-> event[e].channel, socket |-> event[e].socket]]

\* The fleet implements Fanout: an event reaches an instance's sockets at most
\* once, through the local broadcast or through the bus and never through both,
\* never the excluded socket whichever instance holds it, and a message no relay
\* sent reaches nobody.
ImplementsFanout == FanoutOf!Spec

\* A bus that stays up is heard again: every channel an instance relays has its
\* subscription back, unless the relay is closed.
ListenersReturn ==
    <>[]bus =>
        \A i \in Instances, n \in Names :
            []<>(joined[i][n] = None \/ listener[i][joined[i][n]] = "live")

\* Close ends: whatever the goroutines were doing, each of them sees the end of
\* its context.
CloseEnds == \A i \in Instances : (closed[i] = "closing") ~> (closed[i] # "closing")

\* "an instance which reported an outage also reports the end of one" (recovered):
\* once the bus answers for good, no instance goes on saying it is degraded.
OutageEnds ==
    <>[]bus => \A i \in Instances : degraded[i] ~> ~degraded[i]

-----------------------------------------------------------------------------
(* The properties the runs check                                            *)

\* Broker, topics and listeners of an instance hold the same channels, and no
\* channel is left behind but by a relay that was closed.
TopicsMatch == TypeOK /\ RelaysWhatItHolds /\ OnlyClosedLeaves

\* Subscriptions come back with the bus, and Close comes back whatever its
\* goroutines are doing.
RelayRecovers == ListenersReturn /\ CloseEnds

=============================================================================
