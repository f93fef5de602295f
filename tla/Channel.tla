------------------------------ MODULE Channel ------------------------------
(***************************************************************************)
(* What the subscribers of one channel are told: the channel type of       *)
(* src/protocols/pusher/channels.go, with the parts of protocol.go that    *)
(* call it (join, part, Close, whisper) and the member list that           *)
(* src/client/joaju.js draws from the frames.                              *)
(*                                                                         *)
(* The map and the cached event are guarded by the channel's lock. Who is  *)
(* told is gathered under that lock and the frames are written after it is *)
(* released, one recipient at a time: the goroutines of several sockets    *)
(* interleave between two writes. A sink keeps the order of its writes, so *)
(* a frame is applied to the client's view when it is written.             *)
(*                                                                         *)
(* The module follows one channel value to the drop that ends it; the      *)
(* broker, reservations and re-creation are the subject of Pusher.         *)
(***************************************************************************)
EXTENDS Integers, Sequences, FiniteSets

CONSTANTS
    Sockets,     \* socket ids
    Publishers,  \* goroutines serving the events route or a relayed event
    Offers,      \* Offers[s]: the members the policy lets socket s subscribe as
    NoMember,    \* joaju.Member{}: what a subscription without channel_data names
    None,        \* not on the channel, no event
    Channels     \* the channels a behaviour may be about

\* A channel, and the bounds of what happens on it: the sockets that come, the
\* goroutines that publish, the events sent, the subscriptions one socket makes
\* and the sinks that fail.
ChannelType == [presence : BOOLEAN, cache : BOOLEAN, sockets : SUBSET Sockets,
                publishers : SUBSET Publishers, events : Nat, joins : Nat, failures : Nat]

ASSUME ChannelAssumption ==
    /\ Sockets \cap Publishers = {}
    /\ NoMember # None
    /\ \A s \in Sockets : None \notin Offers[s]
    /\ Channels \subseteq ChannelType

VARIABLES
    this,         \* the channel this behaviour is about
    subscribers,  \* channel.subscribers: the member of each socket in the map, or None
    cached,       \* channel.cached and cachedSet: the last state event, or None
    dropped,      \* the broker no longer hands this channel out
    pc,           \* where each goroutine is
    job,          \* the deliveries a goroutine has still to make, in order
    failed,       \* a delivery of the present Subscribe answered an error
    list,         \* the member list a join read with Data
    seat,         \* pusher.seats: the socket is recorded on this channel
    sink,         \* the socket's sink takes frames
    view,         \* what the browser knows of the channel
    sent,         \* events sent so far
    joins,        \* subscriptions made so far
    told,         \* history: the member list if announcements arrived as decided
    swapped       \* history: members a seated socket gave up or took on

vars == <<this, subscribers, cached, dropped, pc, job, failed, list, seat, sink,
          view, sent, joins, told, swapped>>

Goroutines == Sockets \union Publishers
Users == (UNION {Offers[s] : s \in Sockets}) \ {NoMember}
Events == [id : 1..this.events, socket : Sockets \union {None}]
Stages == {"idle", "arriving", "refused", "confirming", "parting", "closing", "sending", "closed"}

\* What the map holds of a socket: off a presence channel nothing of the member.
Labels == IF this.presence THEN Users ELSE {NoMember}

Frames == [event : {"member_added", "member_removed"}, data : Users]
            \union [event : {"event"}, data : Events]
            \union [event : {"cache_miss"}, data : {None}]

Fresh == [subscribed |-> FALSE, members |-> {}, last |-> None, seen |-> {}]

-----------------------------------------------------------------------------
Seated == {s \in Sockets : subscribers[s] # None}

\* Who is on the channel: one person per member, however many sockets.
Members == {subscribers[s] : s \in Seated}

\* Mutant: the tab that leaves is not told apart from the person.
HoldsNever(subs, user) == FALSE

holds(subs, user) == \E s \in Sockets : subs[s] = user

gather(subs, skip) == {s \in Sockets : subs[s] # None} \ skip

\* Mutant: a delivery to nobody is still a delivery.
DeliveryAny(frame, to) == <<[frame |-> frame, to |-> to]>>

\* deliver answers at once when there is nobody to write to.
Delivery(frame, to) == IF to = {} THEN <<>> ELSE <<[frame |-> frame, to |-> to]>>

Said(event, data) == [event |-> event, data |-> data]

\* The handlers of the browser's Channel: _succeeded, _memberAdded,
\* _memberRemoved and the page's callbacks for an event.
Shown(v, frame) ==
    CASE frame.event = "subscription_succeeded" ->
           [v EXCEPT !.subscribed = TRUE, !.members = frame.data]
      [] frame.event = "member_added" -> [v EXCEPT !.members = @ \union {frame.data}]
      [] frame.event = "member_removed" -> [v EXCEPT !.members = @ \ {frame.data}]
      [] frame.event = "event" -> [v EXCEPT !.last = frame.data, !.seen = @ \union {frame.data}]
      [] frame.event = "cache_miss" -> v

-----------------------------------------------------------------------------
Init ==
    /\ this \in Channels
    /\ subscribers = [s \in Sockets |-> None]
    /\ cached = None
    /\ dropped = FALSE
    /\ pc = [g \in Goroutines |-> "idle"]
    /\ job = [g \in Goroutines |-> <<>>]
    /\ failed = [s \in Sockets |-> FALSE]
    /\ list = [s \in Sockets |-> {}]
    /\ seat = [s \in Sockets |-> FALSE]
    /\ sink = [s \in Sockets |-> TRUE]
    /\ view = [s \in Sockets |-> Fresh]
    /\ sent = 0
    /\ joins = [s \in Sockets |-> 0]
    /\ told = [s \in Sockets |-> {}]
    /\ swapped = {}

\* A sink closes: every Send to it from here on answers an error.
SinkFails(s) ==
    /\ sink[s]
    /\ Cardinality({t \in Sockets : ~sink[t]}) < this.failures
    /\ sink' = [sink EXCEPT ![s] = FALSE]
    /\ UNCHANGED <<this, subscribers, cached, dropped, pc, job, failed, list, seat, view, sent,
                   joins, told, swapped>>

-----------------------------------------------------------------------------
(* Writing, after the lock                                                 *)

Written(r, frame) ==
    view' = IF sink[r] THEN [view EXCEPT ![r] = Shown(@, frame)] ELSE view

\* deliver: one Send. A socket that refuses the write does not stop the
\* others, and the error is joined to what the call answers.
Emit(g, r) ==
    /\ job[g] # <<>>
    /\ r \in Head(job[g]).to
    /\ Written(r, Head(job[g]).frame)
    /\ job' = [job EXCEPT ![g] =
                 Delivery(Head(@).frame, Head(@).to \ {r}) \o Tail(@)]
    /\ failed' = IF pc[g] = "arriving" /\ ~sink[r] THEN [failed EXCEPT ![g] = TRUE] ELSE failed
    /\ UNCHANGED <<this, subscribers, cached, dropped, pc, list, seat, sink, sent, joins, told,
                   swapped>>

\* The goroutine has written all it had to write.
Done(g) == job[g] = <<>>

-----------------------------------------------------------------------------
(* pusher:subscribe                                                        *)

Announce(event, user, to) ==
    /\ told' = [s \in Sockets |->
                  IF s \notin to THEN told[s]
                  ELSE Shown([Fresh EXCEPT !.members = told[s]], Said(event, user)).members]

\* Mutant: the newcomer is told there has been nothing.
CacheAnswerMiss(s) == IF this.cache THEN Delivery(Said("cache_miss", None), {s}) ELSE <<>>

\* What a cache channel says to the newcomer and to nobody else.
CacheAnswer(s) ==
    IF ~this.cache THEN <<>>
    ELSE IF cached # None THEN Delivery(Said("event", cached), {s})
    ELSE Delivery(Said("cache_miss", None), {s})

\* A subscription is asked for: the channel is reached, and the subscriptions
\* one socket makes are bounded.
Asks(s) ==
    /\ pc[s] = "idle"
    /\ ~dropped
    /\ joins[s] < this.joins
    /\ joins' = [joins EXCEPT ![s] = @ + 1]

\* A presence channel seats nobody who names no member: Subscribe answers an
\* error before it touches the map. (Its other refusals are about a Grant that
\* is not the socket's own, and join asks the policy with the socket's own.)
SubscribeRefused(s) ==
    /\ Asks(s)
    /\ this.presence
    /\ NoMember \in Offers[s]
    /\ pc' = [pc EXCEPT ![s] = "refused"]
    /\ UNCHANGED <<this, subscribers, cached, dropped, job, failed, list, seat, sink, view, sent, told,
                   swapped>>

\* A socket that is seated already only has its member replaced.
Reseat(s, user) ==
    /\ swapped' = IF user = subscribers[s] THEN swapped
                  ELSE swapped \union {subscribers[s], user}
    /\ UNCHANGED <<job, told>>

\* A socket that was not is announced when its person arrives with it, and
\* told what the channel's state is.
Seat(s, user) ==
    LET others == gather([subscribers EXCEPT ![s] = user], {s})
    IN /\ UNCHANGED swapped
       /\ IF this.presence /\ ~holds(subscribers, user)
          THEN /\ Announce("member_added", user, others)
               /\ job' = [job EXCEPT ![s] =
                            Delivery(Said("member_added", user), others) \o CacheAnswer(s)]
          ELSE /\ job' = [job EXCEPT ![s] = CacheAnswer(s)]
               /\ UNCHANGED told

\* join up to the lock's release in Subscribe. The page's Channel is a new
\* one unless the socket is recorded on the channel.
Subscribe(s) ==
    \E user \in Labels :
        /\ Asks(s)
        /\ this.presence => user \in Offers[s]
        /\ subscribers' = [subscribers EXCEPT ![s] = user]
        /\ IF subscribers[s] # None THEN Reseat(s, user) ELSE Seat(s, user)
        /\ view' = IF seat[s] THEN view ELSE [view EXCEPT ![s] = Fresh]
        /\ failed' = [failed EXCEPT ![s] = FALSE]
        /\ pc' = [pc EXCEPT ![s] = "arriving"]
        /\ UNCHANGED <<this, cached, dropped, list, seat, sink, sent>>

Data == IF this.presence THEN Members ELSE {}

\* Subscribe answered no error: take records the seat and Data reads the
\* member list under the lock.
Confirm(s) ==
    /\ pc[s] = "arriving"
    /\ Done(s)
    /\ ~failed[s]
    /\ seat' = [seat EXCEPT ![s] = TRUE]
    /\ list' = [list EXCEPT ![s] = Data]
    /\ told' = [told EXCEPT ![s] = Data]
    /\ pc' = [pc EXCEPT ![s] = "confirming"]
    /\ UNCHANGED <<this, subscribers, cached, dropped, job, failed, sink, view, sent, joins,
                   swapped>>

\* The confirmation is written to the socket.
Answer(s) ==
    /\ pc[s] = "confirming"
    /\ Written(s, Said("subscription_succeeded", list[s]))
    /\ list' = [list EXCEPT ![s] = {}]
    /\ pc' = [pc EXCEPT ![s] = "idle"]
    /\ UNCHANGED <<this, subscribers, cached, dropped, job, failed, seat, sink, sent, joins, told,
                   swapped>>

-----------------------------------------------------------------------------
(* Leaving: pusher:unsubscribe, a failed Subscribe, and a closed socket     *)

\* Unsubscribe: a socket that is not in the map is let be, and otherwise the
\* departure is announced when the member has no other socket left.
Unsubscribe(s) ==
    LET gone == subscribers[s]
        left == [subscribers EXCEPT ![s] = None]
    IN /\ subscribers' = left
       /\ IF gone # None /\ this.presence /\ ~holds(left, gone)
          THEN /\ Announce("member_removed", gone, gather(left, {}))
               /\ job' = [job EXCEPT ![s] = Delivery(Said("member_removed", gone), gather(left, {}))]
          ELSE UNCHANGED <<told, job>>

\* part: the record goes before the socket leaves.
Part(s) ==
    /\ pc[s] = "idle"
    /\ seat[s]
    /\ seat' = [seat EXCEPT ![s] = FALSE]
    /\ Unsubscribe(s)
    /\ view' = [view EXCEPT ![s] = Fresh]
    /\ pc' = [pc EXCEPT ![s] = "parting"]
    /\ UNCHANGED <<this, cached, dropped, failed, list, sink, sent, joins, swapped>>

\* Subscribe answered an error: it refused, or it could not write to somebody.
SubscribeFailed(s) == pc[s] = "refused" \/ (pc[s] = "arriving" /\ Done(s) /\ failed[s])

\* Mutant: the failed subscription is left seated.
UndoNothing(s) ==
    /\ SubscribeFailed(s)
    /\ failed' = [failed EXCEPT ![s] = FALSE]
    /\ pc' = [pc EXCEPT ![s] = "parting"]
    /\ UNCHANGED <<this, subscribers, cached, dropped, job, list, seat, sink, view, sent, joins, told,
                   swapped>>

\* A failed Subscribe is undone: the socket leaves the map, also when an
\* earlier subscription had put it there, and what is recorded of that earlier
\* one stays.
Undo(s) ==
    /\ SubscribeFailed(s)
    /\ Unsubscribe(s)
    /\ failed' = [failed EXCEPT ![s] = FALSE]
    /\ pc' = [pc EXCEPT ![s] = "parting"]
    /\ UNCHANGED <<this, cached, dropped, list, seat, sink, view, sent, joins, swapped>>

\* Close: the socket is over. What it was on is left once.
Close(s) ==
    /\ pc[s] = "idle"
    /\ seat' = [seat EXCEPT ![s] = FALSE]
    /\ sink' = [sink EXCEPT ![s] = FALSE]
    /\ view' = [view EXCEPT ![s] = Fresh]
    /\ IF seat[s] THEN Unsubscribe(s) ELSE UNCHANGED <<subscribers, told, job>>
    /\ pc' = [pc EXCEPT ![s] = IF seat[s] THEN "closing" ELSE "closed"]
    /\ UNCHANGED <<this, cached, dropped, failed, list, sent, joins, swapped>>

\* drop: the channel goes with its last subscriber, unless somebody is
\* between reach and Subscribe (that reservation is Pusher's subject: here
\* the two are one step).
Drop(s) ==
    /\ pc[s] \in {"parting", "closing"}
    /\ Done(s)
    /\ dropped' = (dropped \/ Seated = {})
    /\ pc' = [pc EXCEPT ![s] = IF @ = "closing" THEN "closed" ELSE "idle"]
    /\ UNCHANGED <<this, subscribers, cached, job, failed, list, seat, sink, view, sent, joins,
                   told, swapped>>

-----------------------------------------------------------------------------
(* Broadcast and BroadcastToAll                                            *)

\* Only the server's own events are the channel's state.
Kept(e, state) == IF this.cache /\ state THEN e ELSE cached

\* send: the event is cached and its recipients gathered in one section. The
\* socket an event names does not receive it.
send(g, socket, state) ==
    LET e == [id |-> sent + 1, socket |-> socket]
    IN /\ pc[g] = "idle"
       /\ sent < this.events
       /\ sent' = sent + 1
       /\ cached' = Kept(e, state)
       /\ job' = [job EXCEPT ![g] = Delivery(Said("event", e), gather(subscribers, {socket}))]
       /\ pc' = [pc EXCEPT ![g] = "sending"]
       /\ UNCHANGED <<this, subscribers, dropped, failed, list, seat, sink, view, joins, told,
                      swapped>>

\* publish and Relay.deliver: an event of the application, which may name the
\* socket of the browser that caused it.
Broadcast(p) == \E socket \in this.sockets \union {None} : send(p, socket, TRUE)

\* whisper: a client event of a socket that is seated, to the others.
Whisper(s) ==
    /\ seat[s]
    /\ subscribers[s] # None
    /\ send(s, s, FALSE)

Sent(g) ==
    /\ pc[g] = "sending"
    /\ Done(g)
    /\ pc' = [pc EXCEPT ![g] = "idle"]
    /\ UNCHANGED <<this, subscribers, cached, dropped, job, failed, list, seat, sink, view, sent,
                   joins, told, swapped>>

-----------------------------------------------------------------------------
Next ==
    \/ \E s \in this.sockets :
         \/ SinkFails(s)
         \/ Subscribe(s) \/ SubscribeRefused(s) \/ Confirm(s) \/ Answer(s) \/ Undo(s)
         \/ Part(s) \/ Close(s) \/ Drop(s)
         \/ Whisper(s)
    \/ \E p \in this.publishers : Broadcast(p)
    \/ \E g \in Goroutines : Sent(g)
    \/ \E g \in Goroutines, r \in Sockets : Emit(g, r)

Spec == Init /\ [][Next]_vars

-----------------------------------------------------------------------------
TypeOK ==
    /\ this \in Channels
    /\ subscribers \in [Sockets -> Labels \union {None}]
    /\ cached \in Events \union {None}
    /\ dropped \in BOOLEAN
    /\ pc \in [Goroutines -> Stages]
    /\ \A g \in Goroutines : \A i \in DOMAIN job[g] :
         /\ job[g][i].frame \in Frames
         /\ job[g][i].to \in (SUBSET Sockets) \ {{}}
    /\ failed \in [Sockets -> BOOLEAN]
    /\ list \in [Sockets -> SUBSET Users]
    /\ seat \in [Sockets -> BOOLEAN]
    /\ sink \in [Sockets -> BOOLEAN]
    /\ view \in [Sockets -> [subscribed : BOOLEAN, members : SUBSET Users,
                             last : Events \union {None}, seen : SUBSET Events]]
    /\ sent \in 0..this.events
    /\ joins \in [Sockets -> 0..this.joins]
    /\ told \in [Sockets -> SUBSET Users]
    /\ swapped \subseteq Users

\* A subscription of this socket may be refused.
MayBeRefused(s) == this.presence /\ NoMember \in Offers[s]

\* The map and the protocol's record agree outside a join or a leave: whoever
\* is in the map is recorded or is being subscribed, whoever is being subscribed
\* is in the map, and nobody is on a channel the broker has dropped. A record
\* without a place in the map is left only by a refused subscription, which
\* unseats a socket that an earlier one had seated.
SeatIsSubscriber ==
    /\ \A s \in Sockets :
         /\ subscribers[s] # None => seat[s] \/ pc[s] = "arriving"
         /\ pc[s] = "arriving" => subscribers[s] # None
         /\ seat[s] /\ subscribers[s] = None => MayBeRefused(s)
    /\ dropped => Seated = {}

\* What the others are told about arrivals and departures is decided right:
\* the list a subscriber read with its confirmation, changed by every
\* announcement addressed to it in the order the lock decided them, is who is
\* on the channel, however many sockets a person has. Only the members of a
\* socket that changed its own are left out: that change is never announced.
AnnouncementsAddUp ==
    this.presence => \A s \in Seated :
        pc[s] # "arriving" => told[s] \ swapped = Members \ swapped

\* The policy lets the socket be this person and no other.
OnlyAs(s, user) == Offers[s] \ {NoMember} = {user}

\* A subscriber who was confirmed, and is one person, is in their own member
\* list: no late announcement, no refused subscription and no other tab of
\* theirs closing takes them out of it.
OwnNameListed ==
    this.presence => \A s \in Seated, user \in Users :
        OnlyAs(s, user) /\ view[s].subscribed => user \in view[s].members

OnItsWay(s, e) ==
    \E g \in Goroutines : \E i \in DOMAIN job[g] :
        s \in job[g][i].to /\ job[g][i].frame = Said("event", e)

\* No gap between being seated and being sent to: every subscriber with a
\* working sink has seen the channel's current state or has it on the way,
\* as the replay or as the broadcast, unless it caused the event itself.
StateReachesAll ==
    \A s \in Seated :
        cached # None /\ sink[s] =>
            cached \in view[s].seen \/ cached.socket = s \/ OnItsWay(s, cached)

Quiet == \A g \in Goroutines : pc[g] \in {"idle", "closed"}

\* Once every goroutine is done, a socket that is recorded on the channel is on it.
RecordedIsSeated == Quiet => \A s \in Sockets : seat[s] => subscribers[s] # None

\* Once every goroutine is done, the member list a browser shows is who is on
\* the channel.
MemberListTrue ==
    Quiet /\ this.presence =>
        \A s \in Seated : sink[s] => view[s].members = Members

\* Once every goroutine is done, the last event a subscriber of a cache
\* channel was shown is the channel's current state.
LastIsCurrent ==
    Quiet /\ cached # None =>
        \A s \in Seated : sink[s] /\ cached.socket # s => view[s].last = cached

-----------------------------------------------------------------------------
(* The properties the runs check                                            *)

\* Who is on the channel, who is recorded to be and who the subscribers have been
\* told of are the same people, and each subscriber is one of them to itself.
MembersTold == TypeOK /\ SeatIsSubscriber /\ AnnouncementsAddUp /\ OwnNameListed

=============================================================================
