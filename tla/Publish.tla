------------------------------ MODULE Publish ------------------------------
(***************************************************************************)
(* The three ways an event enters the server, and where it ends up:        *)
(*   - POST events and batch_events (src/protocols/pusher/routes.go);      *)
(*   - a client event on a socket (protocol.go whisper, pusher.go Accept); *)
(*   - HesapeBroadcaster.Broadcast (src/broadcaster.go).                   *)
(* Each ends in the same loop: name the channel out of the Grant, deliver  *)
(* to the subscribers of this instance, then hand the event to the fleet.  *)
(* Subscriptions change and sinks fail while the loop runs.                *)
(***************************************************************************)
EXTENDS Integers, Sequences, FiniteSets

CONSTANTS
    Requests,      \* the publishes of a behaviour, each on a goroutine of its own
    Inputs,        \* what a publish may carry, see InputType
    Tenants,       \* the tenants one process serves
    Requested,     \* channel names as clients write them
    Kind,          \* Kind[n]: the ChannelType a name denotes, "invalid" for none
    Sockets,       \* the sockets of this instance
    Owner,         \* Owner[c]: the tenant on the Grant of a socket or a subject
    Subjects,      \* the subjects that call the API or hold the broadcaster
    Operators,     \* the subjects the OperationPolicy allows
    Readable,      \* Readable[c]: the names the SubscriptionPolicy lets a subject reach
    ClientEvents,  \* PusherConfig.ClientEvents
    MaxChanges,    \* bound: changes of the audience
    None           \* no subject, no socket, no answer yet

\* One element of a body: the namespace of the event's name ("none" when it
\* has no name), whether the data is JSON, the channels, and the socket spared.
ElementType == [name : {"app", "client", "reserved", "none"}, json : BOOLEAN,
                channels : Seq(Requested), socket : Sockets \union {None}]

\* A publish: the way in, who asks, whether the path names this app, whether
\* the body is declared and decodes as JSON, whether the broadcaster's Grant
\* is one for ChannelJoin, and the elements (one, except in a batch). A call of
\* a route may come without a Subject.
InputType(p) ==
    /\ \/ p.door = "route" /\ p.by \in Subjects \union {None}
       \/ p.door = "broadcaster" /\ p.by \in Subjects
       \/ p.door = "socket" /\ p.by \in Sockets
    /\ {p.app, p.declared, p.decoded, p.join} \subseteq BOOLEAN
    /\ p.body \in Seq(ElementType)

\* What a caller may be answered.
Answers == {200, 400, 401, 403, 404, 415, 4009, 4200, 4301}

ASSUME PublishAssumption ==
    /\ None \notin Tenants \union Sockets \union Subjects
    /\ None \notin Answers
    /\ Sockets \cap Subjects = {}
    /\ Owner \in [Sockets \union Subjects -> Tenants]
    /\ Readable \in [Subjects -> SUBSET Requested]
    /\ \A p \in Inputs : InputType(p)
    /\ ClientEvents \in BOOLEAN
    /\ MaxChanges \in Nat

VARIABLES
    input,    \* what each publish carries
    seats,    \* the channels each socket is on, tenant included
    sink,     \* the socket's sink takes frames
    stage,    \* where the goroutine of each publish is
    at,       \* the element and the channel of it that come next
    to,       \* the subscribers the present broadcast has still to write to
    failed,   \* a write of the present broadcast answered an error
    status,   \* what the caller was answered
    got,      \* what sockets were written: [socket, request, element, name]
    carried,  \* what the fleet was handed: [request, element, name]
    changes,  \* changes of the audience so far
    loyal     \* history: who was on a channel with a working sink since the start

vars == <<input, seats, sink, stage, at, to, failed, status, got, carried, changes, loyal>>

Names == Tenants \X Requested
Guarded == {"private", "presence", "private-cache", "presence-cache"}
Valid(n) == Kind[n] # "invalid"
Stages == {"new", "channel", "delivering", "answered"}

Element(r) == input[r].body[at[r][1]]
Channels(r) == Element(r).channels

-----------------------------------------------------------------------------
Init ==
    /\ input \in [Requests -> Inputs]
    /\ seats \in [Sockets -> SUBSET {n \in Names : Valid(n[2])}]
    /\ \A s \in Sockets : \A n \in seats[s] : n[1] = Owner[s]
    /\ sink = [s \in Sockets |-> TRUE]
    /\ stage = [r \in Requests |-> "new"]
    /\ at = [r \in Requests |-> <<1, 1>>]
    /\ to = [r \in Requests |-> {}]
    /\ failed = [r \in Requests |-> FALSE]
    /\ status = [r \in Requests |-> None]
    /\ got = {}
    /\ carried = {}
    /\ changes = 0
    /\ loyal = [r \in Requests |-> {}]

\* A socket's own frames are read one at a time: it leaves nothing while its
\* client event is on the way.
Whispering(s) ==
    \E r \in Requests : /\ input[r].door = "socket"
                        /\ input[r].by = s
                        /\ stage[r] \in {"channel", "delivering"}

Leave(s, n) ==
    /\ changes < MaxChanges
    /\ n \in seats[s]
    /\ ~Whispering(s)
    /\ changes' = changes + 1
    /\ seats' = [seats EXCEPT ![s] = @ \ {n}]
    /\ loyal' = [r \in Requests |-> loyal[r] \ {<<s, n>>}]
    /\ UNCHANGED <<input, sink, stage, at, to, failed, status, got, carried>>

SinkFails(s) ==
    /\ changes < MaxChanges
    /\ sink[s]
    /\ changes' = changes + 1
    /\ sink' = [sink EXCEPT ![s] = FALSE]
    /\ loyal' = [r \in Requests |-> {p \in loyal[r] : p[1] # s}]
    /\ UNCHANGED <<input, seats, stage, at, to, failed, status, got, carried>>

-----------------------------------------------------------------------------
(* The checks                                                              *)

\* The tenant of whoever publishes, off the Grant.
Tenant(r) == Owner[input[r].by]

\* Mutant: the name is found under whichever tenant has it.
NewChannelNameAny(r, n) ==
    <<CHOOSE t \in Tenants : (\E u \in Tenants \ {Tenant(r)} : \E s \in Sockets : <<u, n>> \in seats[s])
                                 => t # Tenant(r), n>>

\* NewChannelName: the tenant comes from the Grant and from nowhere else.
NewChannelName(r, n) == <<Tenant(r), n>>

\* enter and decode of routes.go, in their order; 200 goes on.
Entered(p) ==
    IF p.door # "route" THEN 200
    ELSE IF ~p.app THEN 404
    ELSE IF p.by = None THEN 401
    ELSE IF p.by \notin Operators THEN 403
    ELSE IF ~p.declared THEN 415
    ELSE IF ~p.decoded THEN 400
    ELSE 200

\* Mutant: the reserved names are let through.
WellFormedAny(p, e) ==
    /\ e.name # "none"
    /\ e.json
    /\ (p.door = "broadcaster" \/ e.channels # <<>>)

\* ClientMaySend: of the frames that carry an event, a socket may send the
\* client's own.
ClientMaySend(e) == e.name = "client"

\* publish, up to its loop; Broadcast of the broadcaster, which has no event
\* to send where no channel is named; ClientMaySend and Decode of a frame.
WellFormed(p, e) ==
    \/ p.door = "broadcaster" /\ e.channels = <<>>
    \/ /\ e.name \notin {"none", "reserved"}
       /\ p.door = "socket" => ClientMaySend(e)
       /\ e.json
       /\ e.channels # <<>>

\* Mutant: client events reach channels the sender is not on.
AcceptAnyone(r, n) ==
    IF ~ClientEvents THEN 4301
    ELSE IF Kind[n[2]] \notin Guarded THEN 4009
    ELSE 200

\* Accept, for a frame that is a client event: the switch, the kind of
\* channel, and the seat the channel holds for the sender.
Accept(r, n) ==
    IF ~ClientEvents THEN 4301
    ELSE IF Kind[n[2]] \notin Guarded THEN 4009
    ELSE IF n \notin seats[input[r].by] THEN 4009
    ELSE 200

\* What stands between a publish and one channel: the name, then the policy,
\* or the Broker's own question about the Grant.
Reached(r, n) ==
    LET p == input[r]
        bad == IF p.door = "socket" THEN 4200 ELSE 400
    IN IF ~Valid(n[2]) THEN bad
       ELSE IF p.door = "route" /\ n[2] \notin Readable[p.by] THEN 403
       ELSE IF p.door = "broadcaster" /\ ~p.join THEN 403
       ELSE IF p.door = "socket" THEN Accept(r, n)
       ELSE 200

Malformed(r) == IF input[r].door = "socket" THEN 4200 ELSE 400

Answer(r, code) ==
    /\ stage' = [stage EXCEPT ![r] = "answered"]
    /\ status' = [status EXCEPT ![r] = code]

-----------------------------------------------------------------------------
(* The loop                                                                *)

\* The request arrives and is refused, or its first element is taken up.
Enter(r) ==
    /\ stage[r] = "new"
    /\ loyal' = [loyal EXCEPT ![r] = {p \in Sockets \X Names : sink[p[1]] /\ p[2] \in seats[p[1]]}]
    /\ IF Entered(input[r]) # 200
       THEN Answer(r, Entered(input[r]))
       ELSE /\ stage' = [stage EXCEPT ![r] = "channel"]
            /\ UNCHANGED status
    /\ UNCHANGED <<input, seats, sink, at, to, failed, got, carried, changes>>

Ill(r) ==
    /\ at[r][1] <= Len(input[r].body)
    /\ ~WellFormed(input[r], Element(r))

Owed(r) ==
    /\ at[r][1] <= Len(input[r].body)
    /\ at[r][2] <= Len(Channels(r))

\* Mutant: the batch is read one element past its end.
AdvancePast(r) ==
    /\ stage[r] = "channel"
    /\ ~Ill(r)
    /\ ~Owed(r)
    /\ IF at[r][1] > Len(input[r].body)
       THEN /\ Answer(r, 200)
            /\ UNCHANGED at
       ELSE /\ at' = [at EXCEPT ![r] = <<@[1] + 1, 1>>]
            /\ UNCHANGED <<stage, status>>
    /\ UNCHANGED <<input, seats, sink, to, failed, got, carried, changes, loyal>>

\* No element is left, or no channel of this one: the next, or the answer.
\* Nothing at all to do is a success.
Advance(r) ==
    /\ stage[r] = "channel"
    /\ ~Ill(r)
    /\ ~Owed(r)
    /\ IF at[r][1] >= Len(input[r].body)
       THEN /\ Answer(r, 200)
            /\ UNCHANGED at
       ELSE /\ at' = [at EXCEPT ![r] = <<@[1] + 1, 1>>]
            /\ UNCHANGED <<stage, status>>
    /\ UNCHANGED <<input, seats, sink, to, failed, got, carried, changes, loyal>>

\* An element that cannot be published ends the request, the ones before it
\* having been delivered.
RefuseElement(r) ==
    /\ stage[r] = "channel"
    /\ Ill(r)
    /\ Answer(r, Malformed(r))
    /\ UNCHANGED <<input, seats, sink, at, to, failed, got, carried, changes, loyal>>

Pending(r) ==
    /\ stage[r] = "channel"
    /\ ~Ill(r)
    /\ Owed(r)

\* A channel that cannot be named or reached ends the request.
RefuseChannel(r) ==
    /\ Pending(r)
    /\ LET n == NewChannelName(r, Channels(r)[at[r][2]])
       IN /\ Reached(r, n) # 200
          /\ Answer(r, Reached(r, n))
    /\ UNCHANGED <<input, seats, sink, at, to, failed, got, carried, changes, loyal>>

\* Whom the event is kept from: the socket the body names, or the sender.
Spared(r) == IF input[r].door = "socket" THEN input[r].by ELSE Element(r).socket

\* Broker.Find and gather: a channel nobody here is on has no audience.
Audience(r, n) == {s \in Sockets : n \in seats[s]} \ {Spared(r)}

Broadcast(r) ==
    /\ Pending(r)
    /\ LET n == NewChannelName(r, Channels(r)[at[r][2]])
       IN /\ Reached(r, n) = 200
          /\ to' = [to EXCEPT ![r] = Audience(r, n)]
    /\ failed' = [failed EXCEPT ![r] = FALSE]
    /\ stage' = [stage EXCEPT ![r] = "delivering"]
    /\ UNCHANGED <<input, seats, sink, at, status, got, carried, changes, loyal>>

Copy(r, s) == [socket |-> s, request |-> r, element |-> at[r][1],
               name |-> NewChannelName(r, Channels(r)[at[r][2]])]

\* deliver: one Send.
Deliver(r, s) ==
    /\ stage[r] = "delivering"
    /\ s \in to[r]
    /\ to' = [to EXCEPT ![r] = @ \ {s}]
    /\ got' = IF sink[s] THEN got \union {Copy(r, s)} ELSE got
    /\ failed' = [failed EXCEPT ![r] = @ \/ ~sink[s]]
    /\ UNCHANGED <<input, seats, sink, stage, at, status, carried, changes, loyal>>

\* Broadcast answered nil: the fleet is handed the event, whatever the bus
\* makes of it.
Carry(r) ==
    /\ stage[r] = "delivering"
    /\ to[r] = {}
    /\ ~failed[r]
    /\ carried' = carried \union {[request |-> r, element |-> at[r][1],
                                   name |-> NewChannelName(r, Channels(r)[at[r][2]])]}
    /\ at' = [at EXCEPT ![r] = <<@[1], @[2] + 1>>]
    /\ stage' = [stage EXCEPT ![r] = "channel"]
    /\ UNCHANGED <<input, seats, sink, to, failed, status, got, changes, loyal>>

\* Mutant: a failed write ends the request as a success.
GiveUpQuietly(r) ==
    /\ stage[r] = "delivering"
    /\ to[r] = {}
    /\ failed[r]
    /\ Answer(r, 200)
    /\ UNCHANGED <<input, seats, sink, at, to, failed, got, carried, changes, loyal>>

\* Mutant: a failed broadcast is tried again.
GiveUpNever(r) ==
    /\ stage[r] = "delivering"
    /\ to[r] = {}
    /\ failed[r]
    /\ stage' = [stage EXCEPT ![r] = "channel"]
    /\ UNCHANGED <<input, seats, sink, at, to, failed, status, got, carried, changes, loyal>>

\* Broadcast answered an error: the publish ends here.
GiveUp(r) ==
    /\ stage[r] = "delivering"
    /\ to[r] = {}
    /\ failed[r]
    /\ Answer(r, Malformed(r))
    /\ UNCHANGED <<input, seats, sink, at, to, failed, got, carried, changes, loyal>>

-----------------------------------------------------------------------------
Step(r) ==
    \/ Enter(r) \/ Advance(r) \/ RefuseElement(r) \/ RefuseChannel(r)
    \/ Broadcast(r) \/ Carry(r) \/ GiveUp(r)
    \/ \E s \in Sockets : Deliver(r, s)

Next ==
    \/ \E r \in Requests : Step(r)
    \/ \E s \in Sockets, n \in Names : Leave(s, n)
    \/ \E s \in Sockets : SinkFails(s)

Spec == Init /\ [][Next]_vars

\* A handler runs until it has answered: no step of it waits for another
\* goroutine, because a sink takes a frame into its queue or refuses it.
FairSpec == Spec /\ \A r \in Requests : WF_vars(Step(r))

-----------------------------------------------------------------------------
TypeOK ==
    /\ input \in [Requests -> Inputs]
    /\ seats \in [Sockets -> SUBSET Names]
    /\ sink \in [Sockets -> BOOLEAN]
    /\ stage \in [Requests -> Stages]
    /\ at \in [Requests -> (Nat \ {0}) \X (Nat \ {0})]
    /\ \A r \in Requests : input[r].body # <<>> => at[r][1] \in DOMAIN input[r].body
    /\ to \in [Requests -> SUBSET Sockets]
    /\ failed \in [Requests -> BOOLEAN]
    /\ status \in [Requests -> Answers \union {None}]
    /\ \A g \in got : g.socket \in Sockets /\ g.request \in Requests /\ g.name \in Names
    /\ \A c \in carried : c.request \in Requests /\ c.name \in Names
    /\ changes \in 0..MaxChanges

\* What element i of a publish owes: a copy to the fleet and to everybody who
\* was there all along, the spared socket apart, for every channel it names.
Delivered(r, i) ==
    \A c \in DOMAIN input[r].body[i].channels :
        LET n == NewChannelName(r, input[r].body[i].channels[c])
            spared == IF input[r].door = "socket" THEN input[r].by ELSE input[r].body[i].socket
        IN /\ [request |-> r, element |-> i, name |-> n] \in carried
           /\ \A s \in Sockets :
                <<s, n>> \in loyal[r] /\ s # spared =>
                    [socket |-> s, request |-> r, element |-> i, name |-> n] \in got

\* A publish answered as a success was one: every channel of every element
\* reached the fleet and every subscriber who was there from start to end.
SuccessReachesAll ==
    \A r \in Requests :
        status[r] = 200 => \A i \in DOMAIN input[r].body : Delivered(r, i)

\* No event crosses a tenant, on this instance or towards the fleet: it ends on
\* a socket, and under a name, of the tenant on the publisher's Grant.
TenantKept ==
    /\ \A g \in got : g.name[1] = Tenant(g.request) /\ Owner[g.socket] = Tenant(g.request)
    /\ \A c \in carried : c.name[1] = Tenant(c.request)

\* Whatever is delivered was allowed to whoever sent it: no caller speaks in
\* the server's reserved names, and a browser speaks only as client events, on
\* guarded channels, and never to itself.
SpokenByRight ==
    \A g \in got :
        LET p == input[g.request]
            e == p.body[g.element]
        IN /\ e.name \notin {"reserved", "none"}
           /\ p.door = "route" => p.by \in Operators /\ g.name[2] \in Readable[p.by]
           /\ p.door = "socket" =>
                /\ ClientEvents
                /\ e.name = "client"
                /\ Kind[g.name[2]] \in Guarded
                /\ g.socket # p.by

\* While a client event is on the way its sender is on the channel.
WhispersFromInside ==
    \A r \in Requests :
        input[r].door = "socket" /\ stage[r] = "delivering" =>
            NewChannelName(r, Channels(r)[at[r][2]]) \in seats[input[r].by]

\* Every publish is answered.
EveryoneAnswered == \A r \in Requests : <>(stage[r] = "answered")

\* Everything a route asks about a publish is answered yes.
NoCheckFails(r) ==
    LET p == input[r]
    IN /\ p.door = "route"
       /\ Entered(p) = 200
       /\ \A i \in DOMAIN p.body :
            /\ WellFormed(p, p.body[i])
            /\ \A c \in DOMAIN p.body[i].channels :
                 Reached(r, NewChannelName(r, p.body[i].channels[c])) = 200

\* A publish that no check refuses reaches every channel it names, here and in
\* the fleet, whatever becomes of single subscribers.
EveryChannelReached ==
    \A r \in Requests :
        stage[r] = "answered" /\ NoCheckFails(r) =>
            \A i \in DOMAIN input[r].body : Delivered(r, i)

-----------------------------------------------------------------------------
(* The properties the runs check                                            *)

\* An event is heard only by those who may hear it, from one who may say it: within
\* a tenant, by an operator who may read the channel or a browser that is on it.
HeardByRight == TypeOK /\ TenantKept /\ SpokenByRight /\ WhispersFromInside

=============================================================================
