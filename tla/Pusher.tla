------------------------------- MODULE Pusher -------------------------------
(***************************************************************************)
(* The life of channels and seats in one process: the Pusher protocol      *)
(* (src/protocols/pusher/protocol.go) over the in-memory broker (broker.go)*)
(* and the subscriber maps of its channels (channels.go), with the counter *)
(* of src/counter.go as the observer.                                      *)
(*                                                                         *)
(* A socket is served by one goroutine, which reads its frames in order.   *)
(* Goroutines of different sockets interleave between critical sections:   *)
(* every action below is one critical section of pusher.mu or channel.mu,  *)
(* or one call made with no lock held.                                     *)
(*                                                                         *)
(* Channels are values with an identity: two channels made under one name  *)
(* at different times are different members of Objects, and an object      *)
(* nobody refers to any more may be allocated again.                       *)
(***************************************************************************)
EXTENDS Integers, FiniteSets

CONSTANTS
    Sockets,      \* socket ids
    Names,        \* channel names, tenant included (ChannelName.String)
    Presence,     \* the names of presence channels
    Cache,        \* the names of cache channels
    Objects,      \* channel values that can exist at one time (the bound of the heap)
    MaxChannels,  \* channels one socket may be on
    None          \* the nil channel

ASSUME PusherAssumption ==
    /\ None \notin Names
    /\ IsFiniteSet(Sockets)
    /\ IsFiniteSet(Names)
    /\ Presence \subseteq Names
    /\ Cache \subseteq Names
    /\ MaxChannels \in Nat \ {0}
    /\ None \notin Objects

VARIABLES
    channels,     \* memoryBroker.channels: the object the broker hands out for a name
    subscribers,  \* channel.subscribers, per object
    seats,        \* pusher.seats: the object each socket is recorded on, per name
    joining,      \* pusher.joining: reservations per name
    counted,      \* Counter's channels: ChannelCreated less ChannelRemoved, never below 0
    sink,         \* TRUE while a socket's sink takes frames
    pc,           \* where the socket's goroutine is
    cur,          \* the name its present operation is about
    held,         \* the object its present operation holds
    audience,     \* the sockets its Subscribe still has to write to
    leaving,      \* memberships already forgotten and not yet unseated
    closing       \* TRUE once the socket's reader has ended

vars == <<channels, subscribers, seats, joining, counted, sink,
          pc, cur, held, audience, leaving, closing>>

opVars == <<cur, held, audience, leaving, closing>>

Maybe == Objects \union {None}

Stages == {"absent", "idle", "asking", "reached", "subscribing", "emitting",
           "taking", "undo", "unseat", "dropping", "gone"}

\* The goroutine is between reach and take, or reach and finishJoining.
Joining(s) == pc[s] \in {"reached", "subscribing", "emitting", "taking", "undo"}

\* The goroutine is inside unseat.
Unseating(s) == pc[s] \in {"unseat", "dropping", "gone"}

Goto(s, stage) == pc' = [pc EXCEPT ![s] = stage]

-----------------------------------------------------------------------------
Init ==
    /\ channels = [n \in Names |-> None]
    /\ subscribers = [o \in Objects |-> {}]
    /\ seats = [s \in Sockets |-> [n \in Names |-> None]]
    /\ joining = [n \in Names |-> 0]
    /\ counted = 0
    /\ sink = [s \in Sockets |-> FALSE]
    /\ pc = [s \in Sockets |-> "absent"]
    /\ cur = [s \in Sockets |-> None]
    /\ held = [s \in Sockets |-> None]
    /\ audience = [s \in Sockets |-> {}]
    /\ leaving = [s \in Sockets |-> {}]
    /\ closing = [s \in Sockets |-> FALSE]

\* A connection is opened. Socket ids are never reused in the code; one is
\* reused here only when nothing refers to the connection that had it.
Open(s) ==
    /\ pc[s] = "absent"
    /\ \A t \in Sockets : s \notin audience[t]
    /\ sink' = [sink EXCEPT ![s] = TRUE]
    /\ closing' = [closing EXCEPT ![s] = FALSE]
    /\ Goto(s, "idle")
    /\ UNCHANGED <<channels, subscribers, seats, joining, counted, cur, held, audience, leaving>>

\* The sink of a socket fails (a full queue, a failed write) while its reader
\* has not noticed yet: from here on every Send to it answers an error.
SinkFails(s) ==
    /\ pc[s] # "absent"
    /\ sink[s]
    /\ sink' = [sink EXCEPT ![s] = FALSE]
    /\ UNCHANGED <<channels, subscribers, seats, joining, counted, pc, opVars>>

-----------------------------------------------------------------------------
(* pusher:subscribe                                                        *)

SeatedNames(s) == {n \in Names : seats[s][n] # None}

\* Mutant: a socket may go one over.
AtChannelLimitOff(s, n) ==
    /\ seats[s][n] = None
    /\ Cardinality(SeatedNames(s)) > MaxChannels

\* A name the socket is already on is never over the limit.
AtChannelLimit(s, n) ==
    /\ seats[s][n] = None
    /\ Cardinality(SeatedNames(s)) >= MaxChannels

\* join up to the subscription policy: the limit is asked before the policy.
AskPolicy(s, n) ==
    /\ pc[s] = "idle"
    /\ ~AtChannelLimit(s, n)
    /\ cur' = [cur EXCEPT ![s] = n]
    /\ Goto(s, "asking")
    /\ UNCHANGED <<channels, subscribers, seats, joining, counted, sink, held, audience, leaving, closing>>

\* The policy refuses: the client is told and the socket stays.
Deny(s) ==
    /\ pc[s] = "asking"
    /\ cur' = [cur EXCEPT ![s] = None]
    /\ Goto(s, "idle")
    /\ UNCHANGED <<channels, subscribers, seats, joining, counted, sink, held, audience, leaving, closing>>

\* No goroutine, record or map refers to the object.
Unreferenced(o) ==
    /\ \A n \in Names : channels[n] # o
    /\ \A s \in Sockets :
        /\ held[s] # o
        /\ \A n \in Names : seats[s][n] # o /\ <<n, o>> \notin leaving[s]

\* Mutant: the insert does not look whether the name is held.
FindOrCreateAfresh(n, o) ==
    /\ Unreferenced(o)
    /\ channels' = [channels EXCEPT ![n] = o]
    /\ subscribers' = [subscribers EXCEPT ![o] = {}]

\* memoryBroker.FindOrCreate: the object held under the name, or a new one.
FindOrCreate(n, o) ==
    \/ /\ channels[n] = o
       /\ UNCHANGED <<channels, subscribers>>
    \/ /\ channels[n] = None
       /\ Unreferenced(o)
       /\ channels' = [channels EXCEPT ![n] = o]
       /\ subscribers' = [subscribers EXCEPT ![o] = {}]

\* Mutant: every subscription announces the channel.
ReachAlwaysAnnounced(s) ==
    /\ pc[s] = "asking"
    /\ \E o \in Objects :
        /\ FindOrCreate(cur[s], o)
        /\ held' = [held EXCEPT ![s] = o]
    /\ joining' = [joining EXCEPT ![cur[s]] = @ + 1]
    /\ Goto(s, "reached")
    /\ UNCHANGED <<seats, counted, sink, cur, audience, leaving, closing>>

\* reach: Find, FindOrCreate and the reservation in one critical section. A
\* channel that was missing is announced next, before anything else.
Reach(s) ==
    /\ pc[s] = "asking"
    /\ \E o \in Objects :
        /\ FindOrCreate(cur[s], o)
        /\ held' = [held EXCEPT ![s] = o]
    /\ joining' = [joining EXCEPT ![cur[s]] = @ + 1]
    /\ Goto(s, IF channels[cur[s]] = None THEN "reached" ELSE "subscribing")
    /\ UNCHANGED <<seats, counted, sink, cur, audience, leaving, closing>>

\* observer.ChannelCreated, with no lock held.
ChannelCreated(s) ==
    /\ pc[s] = "reached"
    /\ counted' = counted + 1
    /\ Goto(s, "subscribing")
    /\ UNCHANGED <<channels, subscribers, seats, joining, sink, opVars>>

\* channel.Subscribe refuses before it touches the map: a presence channel and
\* a subscription naming no member.
SubscribeRefused(s) ==
    /\ pc[s] = "subscribing"
    /\ cur[s] \in Presence
    /\ Goto(s, "undo")
    /\ UNCHANGED <<channels, subscribers, seats, joining, counted, sink, opVars>>

\* Who channel.Subscribe writes to once the socket is seated: on a presence
\* channel the others, when the member is new to it (announce), and on a cache
\* channel the newcomer. Members are not told apart here, so a first membership
\* of the socket may or may not be its member's first.
SubscribeAudience(s, n, o, announce) ==
    (IF announce THEN subscribers[o] \ {s} ELSE {}) \union (IF n \in Cache THEN {s} ELSE {})

\* channel.Subscribe under channel.mu. A socket already seated announces nothing.
SubscribeSeats(s) ==
    /\ pc[s] = "subscribing"
    /\ subscribers' = [subscribers EXCEPT ![held[s]] = @ \union {s}]
    /\ \/ /\ s \in subscribers[held[s]]
          /\ Goto(s, "taking")
          /\ UNCHANGED audience
       \/ /\ s \notin subscribers[held[s]]
          /\ \E announce \in BOOLEAN :
              /\ announce => cur[s] \in Presence
              /\ audience' = [audience EXCEPT ![s] = SubscribeAudience(s, cur[s], held[s], announce)]
          /\ Goto(s, "emitting")
    /\ UNCHANGED <<channels, seats, joining, counted, sink, cur, held, leaving, closing>>

\* channel.Subscribe writes after it let go of the lock. One recipient whose
\* sink is gone makes the whole call answer an error, and join unwinds on it.
Emit(s) ==
    /\ pc[s] = "emitting"
    /\ audience' = [audience EXCEPT ![s] = {}]
    /\ Goto(s, IF \A t \in audience[s] : sink[t] THEN "taking" ELSE "undo")
    /\ UNCHANGED <<channels, subscribers, seats, joining, counted, sink, cur, held, leaving, closing>>

\* finishJoiningLocked: the reservation goes, and never below none.
Released(n) == [joining EXCEPT ![n] = IF @ <= 1 THEN 0 ELSE @ - 1]

\* Mutant: a second subscription keeps the first one's record.
TakeOnlyFirst(s) ==
    /\ pc[s] = "taking"
    /\ joining' = Released(cur[s])
    /\ seats' = [seats EXCEPT ![s][cur[s]] = IF @ = None THEN held[s] ELSE @]
    /\ cur' = [cur EXCEPT ![s] = None]
    /\ held' = [held EXCEPT ![s] = None]
    /\ Goto(s, "idle")
    /\ UNCHANGED <<channels, subscribers, counted, sink, audience, leaving, closing>>

\* take: the reservation is released in the critical section that records the
\* seat. The confirmation that follows writes to the socket itself and ends join.
Take(s) ==
    /\ pc[s] = "taking"
    /\ joining' = Released(cur[s])
    /\ seats' = [seats EXCEPT ![s][cur[s]] = held[s]]
    /\ cur' = [cur EXCEPT ![s] = None]
    /\ held' = [held EXCEPT ![s] = None]
    /\ Goto(s, "idle")
    /\ UNCHANGED <<channels, subscribers, counted, sink, audience, leaving, closing>>

\* Mutant: a failed Subscribe keeps its reservation.
FinishJoiningForgotten(s) ==
    /\ pc[s] = "undo"
    /\ leaving' = [leaving EXCEPT ![s] = {<<cur[s], held[s]>>}]
    /\ cur' = [cur EXCEPT ![s] = None]
    /\ held' = [held EXCEPT ![s] = None]
    /\ Goto(s, "unseat")
    /\ UNCHANGED <<channels, subscribers, seats, joining, counted, sink, audience, closing>>

\* Mutant: a failed Subscribe is not unseated.
FinishJoiningOnly(s) ==
    /\ pc[s] = "undo"
    /\ joining' = Released(cur[s])
    /\ cur' = [cur EXCEPT ![s] = None]
    /\ held' = [held EXCEPT ![s] = None]
    /\ Goto(s, "idle")
    /\ UNCHANGED <<channels, subscribers, seats, counted, sink, audience, leaving, closing>>

\* A failed Subscribe: finishJoining, then unseat of what this call held.
FinishJoining(s) ==
    /\ pc[s] = "undo"
    /\ joining' = Released(cur[s])
    /\ leaving' = [leaving EXCEPT ![s] = {<<cur[s], held[s]>>}]
    /\ cur' = [cur EXCEPT ![s] = None]
    /\ held' = [held EXCEPT ![s] = None]
    /\ Goto(s, "unseat")
    /\ UNCHANGED <<channels, subscribers, seats, counted, sink, audience, closing>>

-----------------------------------------------------------------------------
(* pusher:unsubscribe and the end of a socket                              *)

\* part: the record goes before the socket leaves the channel (forgetOne).
Part(s, n) ==
    /\ pc[s] = "idle"
    /\ seats[s][n] # None
    /\ leaving' = [leaving EXCEPT ![s] = {<<n, seats[s][n]>>}]
    /\ seats' = [seats EXCEPT ![s][n] = None]
    /\ Goto(s, "unseat")
    /\ UNCHANGED <<channels, subscribers, joining, counted, sink, cur, held, audience, closing>>

\* A socket whose goroutine has ended takes no frames: Terminate closes its sink
\* as the last thing read does.
Ended(s, stage) == sink' = [sink EXCEPT ![s] = @ /\ stage # "absent"]

\* Mutant: the records go and the channels are not left.
CloseForgetsOnly(s) ==
    /\ pc[s] = "idle"
    /\ seats' = [seats EXCEPT ![s] = [n \in Names |-> None]]
    /\ closing' = [closing EXCEPT ![s] = TRUE]
    /\ Goto(s, "absent")
    /\ Ended(s, "absent")
    /\ UNCHANGED <<channels, subscribers, joining, counted, cur, held, audience, leaving>>

\* Close: forget takes every record out in one step.
Close(s) ==
    LET next == IF SeatedNames(s) = {} THEN "absent" ELSE "unseat" IN
    /\ pc[s] = "idle"
    /\ leaving' = [leaving EXCEPT ![s] = {<<n, seats[s][n]>> : n \in SeatedNames(s)}]
    /\ seats' = [seats EXCEPT ![s] = [n \in Names |-> None]]
    /\ closing' = [closing EXCEPT ![s] = TRUE]
    /\ Goto(s, next)
    /\ Ended(s, next)
    /\ UNCHANGED <<channels, subscribers, joining, counted, cur, held, audience>>

\* Mutant: a membership is left over and over.
UnsubscribeAgain(s) ==
    /\ pc[s] = "unseat"
    /\ \E seat \in leaving[s] :
        /\ cur' = [cur EXCEPT ![s] = seat[1]]
        /\ held' = [held EXCEPT ![s] = seat[2]]
        /\ subscribers' = [subscribers EXCEPT ![seat[2]] = @ \ {s}]
    /\ Goto(s, "dropping")
    /\ UNCHANGED <<channels, seats, joining, counted, sink, audience, leaving, closing>>

\* unseat, first half: channel.Unsubscribe of one membership. What it writes to
\* the others changes nothing here, and its errors are dropped or logged.
Unsubscribe(s) ==
    /\ pc[s] = "unseat"
    /\ \E seat \in leaving[s] :
        /\ cur' = [cur EXCEPT ![s] = seat[1]]
        /\ held' = [held EXCEPT ![s] = seat[2]]
        /\ subscribers' = [subscribers EXCEPT ![seat[2]] = @ \ {s}]
        /\ leaving' = [leaving EXCEPT ![s] = @ \ {seat}]
    /\ Goto(s, "dropping")
    /\ UNCHANGED <<channels, seats, joining, counted, sink, audience, closing>>

\* memoryBroker.Remove: the object the broker holds under the name goes when
\* nobody is on it. It need not be the object the caller left.
Remove(n) ==
    IF channels[n] # None /\ subscribers[channels[n]] = {}
    THEN [channels EXCEPT ![n] = None]
    ELSE channels

\* What follows one membership of unseat: the next one, or the end of it.
AfterUnseat(s) ==
    IF leaving[s] # {} THEN "unseat" ELSE IF closing[s] THEN "absent" ELSE "idle"

\* Mutant: a subscription under way reserves nothing.
MayDropUnreserved(s) == subscribers[held[s]] = {}

\* drop asks whether anybody is joining, whether the object it left is empty,
\* and then the broker.
MayDrop(s) == joining[cur[s]] = 0 /\ subscribers[held[s]] = {}

\* drop in one critical section: gone when the broker no longer knows the name.
Drop(s) ==
    LET gone == MayDrop(s) /\ Remove(cur[s])[cur[s]] = None
        next == IF gone THEN "gone" ELSE AfterUnseat(s)
    IN
    /\ pc[s] = "dropping"
    /\ channels' = IF MayDrop(s) THEN Remove(cur[s]) ELSE channels
    /\ cur' = [cur EXCEPT ![s] = None]
    /\ held' = [held EXCEPT ![s] = None]
    /\ Goto(s, next)
    /\ Ended(s, next)
    /\ UNCHANGED <<subscribers, seats, joining, counted, audience, leaving, closing>>

\* Mutant: the count may go below zero.
ChannelRemovedUnfloored(s) ==
    /\ pc[s] = "gone"
    /\ counted' = counted - 1
    /\ Goto(s, AfterUnseat(s))
    /\ Ended(s, AfterUnseat(s))
    /\ UNCHANGED <<channels, subscribers, seats, joining, opVars>>

\* observer.ChannelRemoved, with no lock held; Counter never goes below zero.
ChannelRemoved(s) ==
    /\ pc[s] = "gone"
    /\ counted' = IF counted > 0 THEN counted - 1 ELSE 0
    /\ Goto(s, AfterUnseat(s))
    /\ Ended(s, AfterUnseat(s))
    /\ UNCHANGED <<channels, subscribers, seats, joining, opVars>>

-----------------------------------------------------------------------------
\* What the goroutine of a socket does by itself once a frame was read.
Goroutine(s) ==
    \/ Deny(s)
    \/ Reach(s)
    \/ ChannelCreated(s)
    \/ SubscribeRefused(s)
    \/ SubscribeSeats(s)
    \/ Emit(s)
    \/ Take(s)
    \/ FinishJoining(s)
    \/ Unsubscribe(s)
    \/ Drop(s)
    \/ ChannelRemoved(s)

\* What the network and the client decide.
Environment(s) ==
    \/ Open(s)
    \/ SinkFails(s)
    \/ \E n \in Names : AskPolicy(s, n) \/ Part(s, n)
    \/ Close(s)

Next == \E s \in Sockets : Goroutine(s) \/ Environment(s)

Spec == Init /\ [][Next]_vars

\* Goroutines are scheduled; clients need not do anything.
FairSpec == Spec /\ \A s \in Sockets : WF_vars(Goroutine(s))

-----------------------------------------------------------------------------
(* Properties                                                              *)

TypeOK ==
    /\ channels \in [Names -> Maybe]
    /\ subscribers \in [Objects -> SUBSET Sockets]
    /\ seats \in [Sockets -> [Names -> Maybe]]
    /\ joining \in [Names -> Nat]
    /\ counted \in Nat
    /\ sink \in [Sockets -> BOOLEAN]
    /\ pc \in [Sockets -> Stages]
    /\ cur \in [Sockets -> Names \union {None}]
    /\ held \in [Sockets -> Maybe]
    /\ audience \in [Sockets -> SUBSET Sockets]
    /\ leaving \in [Sockets -> SUBSET (Names \X Objects)]
    /\ closing \in [Sockets -> BOOLEAN]

\* The reason pusher.joining exists: nobody is seated on a channel value the
\* broker no longer hands out. Such a socket would hear nothing from then on and
\* be told nothing.
NoOrphan ==
    \A o \in Objects : subscribers[o] # {} => \E n \in Names : channels[n] = o

\* A membership is always on somebody's books: the socket's seat record, the
\* join that is about to write it, or an unseat already under way. One that is
\* not would outlive its socket, since Close only leaves what it finds recorded.
AccountedFor ==
    \A n \in Names : \A s \in Sockets :
        (channels[n] # None /\ s \in subscribers[channels[n]]) =>
            \/ seats[s][n] = channels[n]
            \/ Joining(s) /\ cur[s] = n /\ held[s] = channels[n]
            \/ <<n, channels[n]>> \in leaving[s]

\* A socket whose goroutine has ended is on no channel value, reachable or not,
\* and in no record.
NoGhost ==
    \A s \in Sockets : pc[s] = "absent" =>
        /\ \A o \in Objects : s \notin subscribers[o]
        /\ \A n \in Names : seats[s][n] = None

\* A channel with nobody on it is about to be filled or about to be dropped: a
\* failed or finished subscription leaves nothing behind.
NoLeak ==
    \A n \in Names :
        (channels[n] # None /\ subscribers[channels[n]] = {}) =>
            \E s \in Sockets :
                \/ Joining(s) /\ cur[s] = n
                \/ pc[s] = "dropping" /\ cur[s] = n
                \/ \E o \in Objects : <<n, o>> \in leaving[s]

\* A reservation is held by exactly the goroutines between reach and take.
JoiningExact ==
    \A n \in Names : joining[n] = Cardinality({s \in Sockets : Joining(s) /\ cur[s] = n})

\* atChannelLimit reserves nothing between its answer and take, and needs not to.
ChannelLimit == \A s \in Sockets : Cardinality(SeatedNames(s)) <= MaxChannels

Live == {n \in Names : channels[n] # None}

Quiescent == \A s \in Sockets : pc[s] \in {"absent", "idle"}

\* The observer's count of channels never reports a channel nobody is on.
CountNotAboveLive == Quiescent => counted <= Cardinality(Live)

\* The observer's count of channels is the number of channels (Channels "is how
\* many exist right now", TenantCount).
CountIsLive == Quiescent => counted = Cardinality(Live)

\* "once the checks pass the socket is on the channel" (channel.Subscribe): a
\* subscription that got past the checks ends with the seat recorded.
SeatedOncePastChecks ==
    \A s \in Sockets, n \in Names :
        (pc[s] = "emitting" /\ cur[s] = n) ~> (seats[s][n] # None)

\* The sockets a publish on a name reaches: the broker finds the channel, or
\* answers that there is none.
Reached(n) == IF channels[n] = None THEN {} ELSE subscribers[channels[n]]

\* The sockets whose goroutine is inside an operation.
Busy == {s \in Sockets : pc[s] \notin {"absent", "idle"}}

AudienceOf == INSTANCE Audience WITH audience <- [n \in Names |-> Reached(n)], busy <- Busy

\* Making, finding and dropping channel values never changes who a publish
\* reaches: a process implements Audience, in which a socket comes or goes only
\* by an operation of its own. A channel value replaced or removed under its
\* subscribers would take away sockets that asked for nothing.
ImplementsAudience == AudienceOf!Spec

\* Once nobody asks for a name any more, a channel nobody is on goes away. While
\* subscriptions keep arriving and failing, their reservations may keep it.
EmptyChannelGoes ==
    \A n \in Names :
        <>[](\A s \in Sockets : cur[s] = n => ~(pc[s] = "asking" \/ Joining(s)))
            => []<>(channels[n] = None \/ Reached(n) # {})

\* Every operation a goroutine starts ends.
OperationsEnd == \A s \in Sockets : []<>(pc[s] \in {"absent", "idle"})

-----------------------------------------------------------------------------
(* The properties the runs check                                            *)

\* Both numbers the protocol keeps are within what is there: the observer's count
\* of channels, and the seats of a socket although nothing reserves them between
\* the answer of atChannelLimit and take.
NumbersBounded == CountNotAboveLive /\ ChannelLimit

\* Every goroutine gets to the end of what it began, and no empty channel is left
\* once nobody asks for it.
EverythingEnds == OperationsEnd /\ EmptyChannelGoes

=============================================================================
