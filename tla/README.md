# joaju, specified

TLA+ modules, TLC configurations and TLAPS proofs for `arandu-io/joaju`, a
WebSocket server that speaks the Pusher protocol: the code under `src/`.

## 1. The system

| Part | Source | State it keeps | Operations |
|---|---|---|---|
| Server | `server.go` | `conns`, `perTenant`, `closeReasons`, `closed`, `workers` under one mutex | `handleSocket`, `read`, `register`, `unregister`, `recordCloseReason`, `recordReadCloseReason`, `Terminate`, `Close` |
| Sink | `server.go` | a bounded queue, a `done` channel, one writing goroutine per socket | `Send`, `fail`, `Terminate`, `write`, `flush` |
| Rate limiter | `server.go` | tokens and the instant they were earned at, per socket | `allow` |
| Pusher protocol | `protocols/pusher/protocol.go` | `seats` (what each socket is on), `joining` (reservations per name) under one mutex | `join`, `part`, `Close`, `whisper`, `reach`, `take`, `finishJoining`, `unseat`, `drop` |
| Memory broker | `protocols/pusher/broker.go` | one channel value per name | `Find`, `FindOrCreate`, `Remove`, `All` |
| Channel | `protocols/pusher/channels.go` | subscribers with their members, the cached event | `Subscribe`, `Unsubscribe`, `Broadcast`, `Data` |
| Counter | `counter.go`, `events.go` | connections and channels per tenant | the `Observer` calls |
| Relay | `scaling.go` | joined topics and their listeners, the degraded flag | `Join`, `Leave`, `Publish`, `listen`, `deliver`, `close` |
| Fleet metrics | `scaling.go`, `protocols/pusher/routes.go` | pending questions, subscriptions to questions and answers | `serve`, `attend`, `ask`, `answer`, `collect` |
| Ways in | `protocols/pusher/routes.go`, `broadcaster.go`, `protocols/pusher/protocol.go` | none | `events`, `batchEvents`, `Broadcast`, `whisper` |
| Transport | `ws/frame.go`, `ws/conn.go`, `ws/utf8.go` | the state of a fragmented message and of its UTF-8 check, `closeSent` | `ReadFrame`, `WriteFrame`, `ReadMessage`, `WriteMessage`, `FormatClose` |
| Handshake | `ws/client.go`, `ws/server.go`, `ws/handshake.go` | deadlines, buffered readers, who owns the connection | `Dial`, `Upgrade` |
| Browser client | `client/joaju.js` | connection state, timers, channels, members | connect, retry, subscribe, authorize |
| Process | `cmd/joaju/` | slots per address | front door, policies, `addressLimit`, shutdown |

One goroutine reads a socket, one writes it. The reader calls the protocol with
one frame at a time; the protocol takes its own lock, then the broker's, then a
channel's, and never holds one across a write to a socket. A broadcast runs on
the publisher's goroutine and calls `Send` of every subscriber's sink, which
queues or fails and never blocks. The observer is called with no lock held.

What is hard here is what happens between those critical sections: a channel
handed out and not yet joined, a seat recorded after the membership exists, a
subscription that fails half way, a socket whose end four goroutines notice in
any order, a close racing the frame that explains it, a shutdown racing a
handshake, an announcement overtaking a confirmation, a bus that comes and goes
under its subscribers, an answer that arrives after its question is over, a pong
between the halves of a frame, a timer of the browser racing its socket.
`PROJECT.json` lists these at their lines under `hazards`.

What makes each part correct:

- protocol and broker: nobody listens on a value publishes do not reach; every
  membership can be undone; nothing outlives its socket; empty channels go;
- server: the limit and the count behind it are exact; a socket's goroutines
  end; the reason reported is why it ended; what was queued is written before
  the close;
- counter: it says how many there are;
- channel: a client's member list converges to who is there;
- relay: an event reaches every other instance at most once and stays in its
  tenant; a question ends; degradation ends;
- ways in: who is told of success was heard, by those who may hear, in one tenant;
- transport: what is read is what was written; a message is delivered exactly when
  its fragments are legal; frames of several goroutines do not mix;
- handshake: both ends agree that there was one, and nothing of it lingers;
- client: it ends up connected and subscribed when it wants to be, and nowhere
  when it does not;
- process: a slot per socket, no more and no less; a signal ends it.

## 2. Modules

Several modules have settings that a single instance cannot combine cheaply: a
channel is presence or cache, a fleet loses messages or is asked twice. Those
modules hold the setting in a variable that `Init` chooses from a constant set and
no action changes (`bound` in `Relay`, `Fleet` and `Client`, `this` in `Channel` and
`Frame`, `part` in `MCWs` and `MCProcess`), so one run covers them all and each stays small.

### `Pusher` (with `Audience`, `MCPusher`, `PusherProofs`)

Protocol, broker and subscriber maps of one process. Channel values have an
identity (`Objects`), because the question the code's `pusher.joining` answers is
about two values made under one name at different times. One action per
critical section or unlocked call:

| Action | Code |
|---|---|
| `AskPolicy`, `Deny` | `join` up to the policy's answer; `atChannelLimit` is asked first |
| `Reach` | `reach`: `Find`, `FindOrCreate` and the reservation under `pusher.mu` |
| `ChannelCreated`, `ChannelRemoved` | the observer calls, no lock held |
| `SubscribeRefused`, `SubscribeSeats`, `Emit` | `channel.Subscribe`: its checks, its critical section, its deliveries |
| `Take` | `take`: reservation released and seat recorded in one section |
| `FinishJoining` | the failed `Subscribe`: release, then `unseat` |
| `Part`, `Close` | `forgetOne` and `forget`: the record goes first |
| `Unsubscribe`, `Drop` | the two halves of `unseat` |
| `Open`, `SinkFails` | a socket arrives; its sink stops taking frames |

Abstractions: a name stands for itself and its tenant; frames have no content; presence
members are not told apart (module `Channel` does), so whether a first membership is
announced is left open; `MaxChannels` is positive (a negative setting, no limit, is the
instance with a large one); client events do not touch this state. The writes of one
`Subscribe` are one step, whose outcome is whether every recipient's sink took the
frame. A socket id and a channel value are used again only when nothing refers to them,
which keeps the model finite and is indistinguishable from a fresh one.

`Audience` is the promise: per name, a set of sockets that a publish reaches,
in which a socket comes or goes only while it has an operation of its own under
way. `Pusher` implements it with `audience[n]` the subscribers of the value the
broker holds for `n`, and `busy` the sockets whose goroutine is inside a join, a
part or a Close.

### `Server` (with `MCServer`, `ServerProofs`)

Registry, reader, sink and writer of each socket. The connection is `up`, `lost`
(the peer or the network) or `shut` (by this process). The queue is a number.
`call` is the goroutines inside `Send`, each between two of its selects.
`owed`, `unsaid`, `left` and `behind` are history variables that only properties read.
What a read said (`known`) may be the client's answer to the server's own close frame.

| Action | Code |
|---|---|
| `Admit`, `RefuseHandshake`, `Upgrade` | `handleSocket`; `newSink` starts the writer |
| `Register`, `Unregister` | one critical section each |
| `TellRefusal`, `AnnounceRefusal` | `read` of a socket over the limit, or of a closed server |
| `ConnectionOpened`, `OpenProtocol` | `read` up to its loop |
| `ReadKnown`, `ReadTransport` | a failed `ReadMessage` that says why, and one that does not |
| `RecordReadCloseReason`, `AnnounceClosed`, `ReaderEnds` | the way out of `read` |
| `WriteFrame`, `WriteFails`, `SeesDone`, `FlushOne`, `SaysGoodbye`, `WriterEnds` | `sink.write` and `sink.flush` |
| `FailRecords`, `FailCloses`, `SendRecords`, `SendCloses` | `sink.fail`: the reason, then the close |
| `SendBegins`, `SendOffers` | the two selects of `Send` |
| `Terminate`, `Close`, `TerminateOne` | the sockets collected under the lock, then ended one by one |
| `Lose` | the client goes away (external) |

Abstractions: a frame that was read and changes nothing here is no step; the
replies a reader writes to its own socket are among the callers of `Send`; a
write to a lost connection may succeed or fail; a read deadline that passes is a
`ReadKnown` at any time, and a lost connection is noticed in the end.

### `RateLimiter` (with `MCProcess`, `EdgeProofs`)

`newRateLimiter` and `allow` over a clock of whole units. `Refill` is the
division, the remainder kept and the cap; `AllowUnmetered`, `AllowMetered` and
`Refuse` are the three ways `allow` ends. `credit` (an exact bucket, charged for
the same frames) and `since`, `passed` (an observer who may start at any instant)
are history variables. The clock does not go back: Go's `time.Sub` of two
`time.Now` is monotonic.

### `Channel` (with `MCChannel`, `ChannelProofs`)

One channel value, from its first subscriber to the drop, with what each
subscriber's browser shows. The lock guards the map and the cached event; who is
told is gathered under it (`job`) and written after it, one recipient at a time
(`Emit`), so goroutines interleave between two writes.

| Action | Code |
|---|---|
| `Subscribe` | `channel.Subscribe`: the map entry, and for a socket that was not there (`Seat`) `member_added` if no other tab of the person is (`holds`) and the cached event; for one that was (`Reseat`) nothing more |
| `SubscribeRefused` | `channel.Subscribe` of a presence channel without a member |
| `Confirm`, `Answer` | `join` takes the seat and reads the member list (`Data`), then writes the confirmation |
| `Undo` | `join` after a `Subscribe` that refused or could not write to somebody: `unseat`, also of an earlier seat |
| `Part`, `Close` | `channel.Unsubscribe` and `member_removed` |
| `Broadcast`, `Whisper` | `channel.Broadcast` with and without a socket left out; the event is cached under the lock |
| `Emit`, `SinkFails`, `Drop` | `channel.emit`, a sink that died, `pusher.drop` |

`Offers[s]` is the set of members the policy lets a socket subscribe as: several, when
it may come back as somebody else, and `NoMember`, when it may name nobody. The other
refusals of `Subscribe` (`channels.go:168-185`) are about a `Grant` of another socket,
name or tenant, and `join` passes the socket's own.
`told` is a history variable: the list a subscriber read, changed by what was
addressed to it in the lock's order. So is `swapped`, the members that a seated socket
gave up or took on: that change is not announced (`channels.go:158`), and
`AnnouncementsAddUp` speaks of all other members. `view` is the member list and the
last event that `joaju.js` keeps.

### `Publish` (with `MCPublish`, `PublishProofs`)

The three ways an event enters (`door`): a route, the broadcaster, a client event.
`Enter` is every check up to the loop; each channel is then named out of the Grant
(`NewChannelName`), looked up, broadcast (`Broadcast`, `Deliver` per recipient) and
handed to the fleet (`Carry`); `RefuseElement`, `RefuseChannel` and `GiveUp` are the
ways out on an error. Subscriptions and sinks change between any two steps. A body
is a sequence of elements, each a kind of event name and a sequence of channels.

### `Relay` (with `Fanout`, `MCRelay`, `RelayProofs`)

Instances, the values their brokers hold, the topics they joined and one listening
goroutine per joined value. `Enter`, `Exit` and `Remove` are the relayed broker's
`FindOrCreate` and `Remove` with `Join` and `Leave`; `PublishLocal`, `BusPublish`,
`BusRefuses`, `PublishRecovered` and `PublishFails` a publish that is carried;
`Subscribed`, `SubscriptionLost`, `Retry`, `Cancelled` and `Deliver` the listener;
`Close`, `CloseReturns` and `CloseGivesUp` the shutdown. The bus is external: it
hands a message to the subscriptions there are, the sender's included, and loses it
for the others; it may go down and carry messages no relay sent.

`Fanout` is the promise to a publisher: an event is handed to an instance at most
once, reaches the sockets that instance holds on the channel except the one left
out, and nobody else. `Relay` implements it.

### `Fleet` (with `MCFleet`, `FleetProofs`)

The metrics questions. `Ask` registers the question, publishes it and computes how
many answers to expect from the bus's count; `AnswerReads`, `AnswerSends` and
`AnswerRefused` are the answering goroutine of another instance, `CollectFinds` and
`CollectPuts` the collecting one; `TakeAnswer` and `Deadline` race. Subscriptions
come and go (`Attend`, `Lose`), and so do sockets. `seen` and `steady` are history
variables: the sockets that were there at some time since the question, and all the
time. An answer is a number of connections and a set of people, one channel.

### `Utf8`, `Utf8Text`, `Frame`, `Conn`, `CloseReason`, `Handshake` (with `Ws`, `MCWs`, `EdgeProofs`)

Package `ws`, one module per concern. `Utf8` is `utf8Validator` byte by byte, against
`Utf8Text`, which says what well-formed UTF-8 is. `Frame` is `WriteFrame` and
`ReadFrame` on a stream of bytes that may end anywhere; which end reads, and with what
limit, is `this`; the widths of the length field, the mask and the chunk are constants
that the instance scales down, with payloads on both sides of each. `Conn` is the reader
(`Data`, `Ping`, `Pong`, `Close`, `Fault`, each ending in `FailRead` on its error path)
and the writers (`WriteMessage`, `Lock`, `WriteHeader`, `WritePayload`, `WriteFails`,
and `Oversize`, a control frame too long to be written, refused after `closeSent` was
set); a payload is whole runes, halves of runes and stray bytes, and `Folded` is the
loop that feeds it to the validator. `consumed` and `returned` are history variables:
the frames `ReadFrame` was given and the messages `ReadMessage` returned. `CloseReason`
is `FormatClose` against `ParseClose`. `Handshake` is `Dial` on one end and `Upgrade` on
the other, with a proxy or a cache between them, segments that a buffered reader takes
together, deadlines, some of which cannot be set or lifted, and a clock.

`Ws` puts the five next to each other, as `Utf`, `Closing`, `Framing`, `Socket` and
`Opening`, with one assumption and one property for each promise. They share no
state. `MCWs` checks them together: a behaviour is about one part.

### `Client` (with `MCClient`, `ClientProofs`)

`client/joaju.js`. A task of the browser runs to its end, so each is one action:
calls of the page (`Connect`, `Disconnect`, `Subscribe`, `Unsubscribe`), frames and
the end of a socket (`Receive`, `Closed`), the timers (`RetryFires`,
`ActivityFires`, `PongFires`, `WindowPasses`) and the answers of the authorization
endpoint (`AuthAnswers`, `AuthFails`). The server's end is what `Server` and `Pusher`
do with a frame (`Accept`, `Refuse`, `Serve`, `ServerCloses`); the network may drop a
connection or silently stop carrying it. Delays are left out, and with them the
backoff; so are a channel's own events.

A listener runs inside the task that calls it. A page may be one whose listeners of
"disconnected" and "state" call `connect` (`bound.reentrant`): from `_closed`
(`ConnectedMeanwhile`), from `_retry` (`ConnectedAtRetry`) and from `_open` (`Dial`,
which then leaves a socket behind). `retry` holds apart whether the client has a timer's
handle and how many timers are due, because such a page can have set one over another.

### `Process` (with `MCProcess`, `EdgeProofs`)

`cmd/joaju`: `Take` and `Release` of a slot per address around the handler, the address
read out of `X-Forwarded-For` as far as trusted proxies vouch for it (`Client`), and
`run` from the signal to its return: `ShutdownReturns` or `Deadline`, then `Exit`; a
second signal and a listener that stops by itself end it at once (`SecondSignal`,
`ListenerStops`). `Pass` is a request that is not counted: no limit is set, it is not a
socket, or its peer cannot be told. What a client and the proxies on its way write in
the header is part of a request.

## 3. Runs

A run's properties are conjunctions of named parts where the parts are one promise;
each part is defined, with its own comment, in the module.

| Run | Instance | States | Shows |
|---|---|---|---|
| `pusher` | 2 sockets, a presence-cache name and a public one, 4 values, limit 1 | 359,720 | `NoOrphan`, `AccountedFor`, `NoGhost`, `NoLeak`, `JoiningExact`, `NumbersBounded`, refinement of `Audience`, `EverythingEnds` |
| `channel` | 3 tabs of 2 people on a presence channel; a tab that may come back as somebody else or naming nobody; 2 publishers and 2 events on a cache channel; presence and cache at once | 3,868,617 | `MembersTold`, `StateReachesAll` |
| `publish` | 1 publish of 21 kinds, 2 tenants, 3 sockets, 2 changes under way | 82,711 | `SuccessReachesAll`, `HeardByRight`, `EveryoneAnswered` |
| `server_registry` | 2 sockets, 1 tenant, limit 1, queue 1 | 1,956,329 | `RegistrySound`, `ReasonsStand`, `RefusalTold` |
| `server_sink` | 1 socket, 2 callers, queue 2 | 88,814 | `ReasonTrue`, `FlushedBeforeGoodbye`, `GoroutinesEnd` |
| `relay` | 2 instances, 1 event; one that meets an outage and closes; stray messages | 225,280 | `TopicsMatch`, `ClosedIsQuiet`, refinement of `Fanout`, `RelayRecovers` |
| `fleet` | 3 instances and 1 question; 2 and 2; a loss and a refusal with a second tenant | 210,588 | `TallyTrue`, `QuestionsEnd` |
| `ws` | the parts of the package, below | 183,792 | `TextExact`, `FramesExact`, `MessagesExact`, `WritesOrdered`, `HandshakeSound`, `ReadsEnd` |
| `client` | 2 channels, 3 sockets, 4 calls, 1 fault; 1 channel, 4 sockets, 2 faults; two pages that connect from their listeners, 3 and 4 sockets | 415,675 | `OneConnection`, `PageAgrees`, `ConnectionsSettle` |
| `process` | 3 requests, 2 clients, a trusted proxy and one that is not, limit 2; a bucket: a second of 12 units, limits 0, 1, 3, 5, 13, 26 units of time | 740,955 | `SlotsExact`, `ProcessEnds`, `NeverOverspent`, `NeverShortChanged` |
| `pusher_count` | 2 sockets, 1 name | | a disagreement, section 6 |
| `server_answer` | 1 socket, 2 callers, queue 2 | | a disagreement, section 6 |

Bounds. A hazard of the protocol involves a leaver and a joiner on one name, one of
which may fail: two sockets, with two names and a limit of one so that the limit bites
and a socket holds two positions. Four channel values are more than two sockets can
refer to. Two sockets and a limit of one give refusals, races for the last slot and a
slot freed. A queue of one or two is full at once, and two callers can both be past
`Send`'s first check when it closes. A second of 12 units has limits that divide it (1,
3), one that does not (5, which earns six frames a second), and one that costs nothing
(13); `MaxFrames` is above what `NeverOverspent` allows in that time. In `Channel` two
tabs of one person and one of another are what `holds` tells apart, and two joins let a
tab come back while its first announcements are still being written, be refused while it
is seated, or become somebody else. `MaxChanges` of two lets one socket leave and
another one's sink die during one publish; two publishes at a time share nothing but the
subscriptions. In `Relay` one event published anywhere meets every state of the other
instance's listener; the bounds `outages`, `strays` and `stops` are per behaviour. In
`Fleet` `Backlog` is one, so that an answer past it is dropped. In `ws` every byte
string of up to four bytes over both ends of each class the validator tells apart;
frames with a seven bit length of up to 2, sixteen bits up to 4, a limit of 1 and a
chunk of 3; four frames from the peer and two writers; a clock of six for a timeout of
two. In `Client` as many sockets as calls and faults can use up, so that the bound never
keeps a page from coming back; a page that connects from its listeners uses up more, and
is stopped by the bound once it has two sockets and two timers. In `Process` a limit of
two with three requests; no limit at all is proved and not explored. Sockets are
symmetric in `server_registry`, which has no liveness property. What section 4 proves
holds whatever the bounds. Deadlock is not checked where everybody may stop: the page
makes no further call, no socket comes, the process has exited.

Fairness. Goroutines are scheduled (weak fairness of each goroutine's steps), a Go
`select` with a ready case proceeds, timers fire, and a read of a shut or lost
connection answers: the read deadline guarantees it. In `Relay` a wait of `listen`
ends and a `Subscribe` whose context ended returns; the bus owes nothing, and
`ListenersReturn` is about a bus that stays up. In `Handshake` the clock goes on. In
`Client` the browser runs what is due, a server that is there takes sockets and
answers frames, and the endpoint answers or times out. Nothing is assumed of
clients, publishers, pages or operators. `EmptyChannelGoes` is stated for names that
are not asked for for ever: subscriptions that keep arriving and failing hold
reservations one after the other, and `drop` may meet one every time.

## 4. Proofs

A proof module extends the module it is about and proves, for every value of the
constants that satisfies the module's assumption, what a run checks on one instance.

| Proof module | Assumption | Theorem | Property |
|---|---|---|---|
| `PusherProofs` | `PusherAssumption`: finitely many sockets and names, `None` apart | `TypeCorrect`, `NobodyOrphaned`, `ReservationsExact`, `MembershipsAccounted`, `NothingLeaks`, `NoGhosts`, `NumbersStayBounded` | `TypeOK`, `NoOrphan`, `JoiningExact`, `AccountedFor`, `NoLeak`, `NoGhost`, `NumbersBounded` |
| | | `Refinement` | `Spec` implements `Audience!Spec` |
| `ServerProofs` | `ServerAssumption`: finitely many sockets, each with a tenant and a subject, a queue that holds a frame | `RegistryHolds`, `ReasonsStandAlways`, `ReasonReported`, `RefusalsTold`, `FlushPrecedesGoodbye` | `RegistrySound`, `ReasonsStand`, `ReasonTrue`, `RefusalTold`, `FlushedBeforeGoodbye` |
| `ChannelProofs` | `ChannelAssumption`: sockets and publishers apart, channels of the type there is | `MembersAreTold`, `StateReaches` | `MembersTold`, `StateReachesAll` |
| `PublishProofs` | `PublishAssumption`: every socket and subject has a tenant, every input is one the doors can be given | `HeardOnlyByRight`, `SuccessIsDelivery` | `HeardByRight`, `SuccessReachesAll` |
| `RelayProofs` | `RelayAssumption`: finitely many events, a socket has a home, `None` apart | `TopicsAlwaysMatch`, `ClosedStaysQuiet` | `TopicsMatch`, `ClosedIsQuiet` |
| | | `Refinement` | `Spec` implements `Fanout!Spec` |
| `ClientProofs` | `ClientAssumption`: finitely many channels, `None` apart | `ConnectionIsOne`, `PageAndServerAgree` | `OneConnection`, `PageAgrees` |
| `FleetProofs` | `FleetAssumption`: finitely many instances and sockets, each socket with a home, each question with an asker, `None` apart | `TallyIsTrue` | `TallyTrue` |
| `EdgeProofs` | `ProcessAssumption`: finitely many requests, clients are not proxies, a limit that is a natural number (0: none) | `ClientIsVouched`, `SlotsAreExact`, `AnsweredFirst` | what `Client` computes, `SlotsExact`, `AnsweredBeforeExit` (the safety part of `ProcessEnds`) |
| | `RateAssumption`: natural numbers, a second is not empty | `RateTypeCorrect`, `Bounded`, `Generous` | `RateTypeOK`, `NeverOverspent`, `NeverShortChanged` |
| | `WsAssumption`: frame widths that grow, a mask that is not empty, a chunk that holds a short payload, bytes that are bytes, reasons that are text, codes a peer may be sent, the reader apart from the writers, inputs of the kinds the modules name | `FramesAreExact`, `MessagesAreExact`, `WritesAreOrdered`, `HandshakeIsSound`, `TextIsExact` | `FramesExact`, `MessagesExact`, `WritesOrdered`, `HandshakeSound`, `TextExact` |
| | | `ErrorsStand` | `Socket!ErrorStands` (the safety part of `ReadsEnd`) |

Every proof has the same shape. An inductive invariant `IInv` conjoins the property
with what its preservation needs; TLC checked each on its run's instance first. One
lemma per part of `IInv` shows that a step preserves it, with a case per action that
can disturb it; composite actions have a lemma that lists their outcomes (`...Cases`)
or says what they change (`...Effect`). None of the properties is inductive alone.
What each needs:

**Pusher.** `StageOf` says what a goroutine holds at each stage. `OneName`: a value is
known under one name only, in the broker, the records and the goroutines, so dropping
one name cannot orphan another's subscribers. `Reserved`: a goroutine that joins holds
the value the broker hands out for its name. This is what the reservation buys: `drop`
sees `joining > 0`, which `JoiningExact` turns into the existence of the joiner
(`ReservationCounts`, `NoReservation`). `Seated`: whoever is on a value is recorded,
joining or being unseated. For `NumbersStayBounded`, `CountOK` weighs what the observer
was told against what it will be told: channels counted and makers still to announce
are at most the channels there are and the leavers still to announce one gone, and a
channel has one maker (`MakersBounded`). `LimitOK` says that what `atChannelLimit`
answered is still true when the seat is taken, because a socket has one goroutine.

**Server.** The invariant speaks of one socket at a time. `LifeOf`: what the reader's
stage says of registry, writer and connection; in particular nobody but its own
goroutines can end a socket that was never registered. `FlushOf`: what is owed is in
the queue, and what is owed with what was flushed fits in `OutboundQueue`, the number
of turns `flush` takes: that bound is why the close frame comes last. `ToldOf`: a
refusal the client has not seen is about to be queued, is queued, or is owed.
`ReasonOf`: every path that shuts a connection gave a reason before it. `CallOf`: a
caller between the two halves of `fail` has given it too. `ReasonTrue` lets "client" stand
for an ended socket whose client only answered the close where a `Send` had found the
queue full (`behind`), because the code does so: section 6.

**Channel.** Frames are written after the lock is released, so the invariant is about
what still waits in a goroutine's `job`. `RemovalsApart`: nobody is about to be told
that they left themselves, which `holds` guarantees at the instant the recipients are
gathered and no later join can spoil. `OwnOf`: a subscriber is in the list it read and
in the one its page shows, as long as the policy lets it be one person only. A record
without a place in the map is left by a refused subscription alone (`MayBeRefused`):
section 6. `StageOf`, `JobsOK` and `IdleOK` tie stages to seats and
deliveries.

**Publish.** `ProgressOf`: what is behind a publish was delivered, and on the present
channel whoever was there all along has it or is still to be written to. `AllowedOf`:
what was asked before a broadcast began still holds while it runs. `AudienceOK`: a
socket is on channels of its own tenant only.

**Relay.** `WiringOf`: in an open instance the entries of the relay are the values of
the broker, and a goroutine that was not cancelled listens for an entry. `ListenerOf`
and `StageOf` tie stages to subscriptions and publishers. `CopyOf` follows every copy
of an event in an inbox: it is the only one there, and an instance with a copy left at
the value its broker holds has not handed the event out. It carries the refinement:
the local broadcast, a value that was dropped with a message still in hand, and the
instance's own message coming back are the three ways to hand an event out twice.

**Client.** What page and server believe of a channel is spread over the object the
page holds, requests and confirmations on the way, authorizations in flight and the
seat. `AgreesOn` says what the last request on the way will make of them; the lemmas on
`Quiet`, `Has` and `Final` say how these change when a queue grows at one end and
shrinks at the other. `FirstOf`: the frame with the socket id is the first of a socket,
so no confirmation is heard before it. `EarlyOf`: nothing is on a socket the server has
not taken. `AloneOK`: one socket and at most one timer at a time, and the timer's handle is
held, unless a listener connects.

**Fleet.** Questions, drafts and answers are on their way at once, some of them for a
question that is over. `Accounted` says that a function `where` puts
each instance that heard a question in one place: the question still in its inbox, a
draft, an answer in the asker's inbox, in the collector's hand, in the asker's
channel, or counted. From it follow that no instance is counted twice, that what is
still waited for and what was counted make up those who heard, and that the tally lies
between what was there all the time (`steady`) and at some time (`seen`). `StageOf`,
`QuestionMail`, `DraftMail`, `AnswerMail` and `Single` say what each stage and each
message stands for. The sums over sockets are reasoned about as cardinalities of
disjoint sets.

**Process.** `ClientIsVouched` has no state: reading the header from the right up to the
first hop that is not trusted finds what following the connection back finds, whatever
the client wrote and however long the way was. `SlotsAreExact` then needs `CountExact`
and `StageOf`, what a request's stage says it is counted against. `AnsweredFirst` adds
`NothingInFlight`, that a `Shutdown` that came back without an error left nothing.

**RateLimiter.** `Covers`: tokens and unconverted time are worth at least the exact
bucket. `Pays`: until the first refill of an observation the frames seen and the tokens
left are one bucket, and after it every further token was paid for by time since, save
less than the cost of one. The products with a variable cost are isolated in
`Distribute`, `Monotone` and `Division`.

**Frame.** `FramesAreExact` has to say where in the stream every frame lies that was
written and not yet returned. `Placed` gives each a position and a mask: the first is
partly read, and what the reader holds is that part (`AtFrame`); the others follow whole,
unit by unit as `Encoded` lays them out (`Laid`); after them comes nothing, an odd header,
or less than nothing where the stream was cut (`Followed`). `RefusedForCause` and
`AllocationBounded` follow from what `InProgress` says of a length that was found right.

**Conn.** For the writers, `WholeFrames` and `CloseIsLast` need `Turn`: unless the
connection broke, a goroutine between a header and its payload holds the mutex and that
header is the last thing written. `ClosesLast`: whoever has the mutex once `closeSent` is
set is writing the close. `Answered` and `Paired` match pings read with pongs written, at
most one of them still owed; `Why` ties what the peer is told to what the reader ends
with. For the messages, `OpenMessage` says that a message is open exactly when data came
after the last final frame, and that the validator is where it is after what is held of
it; `Joined` and `ReturnedWell` speak of those that were returned. `Folded` and the
joining of payloads are recursive functions: `FoldIs`, `FoldEnds` and `FoldConcat` unfold
them by an induction over lengths, `Upward` (what holds of 0 and passes from a number to
the next holds up to any number).

**Handshake.** `Ahead`: what has not happened yet has left no trace in the streams and
buffers. `BothEnds`: which ends of the connection are up at each stage, and whose key was
answered. `Answer`: a dialer that waits finds a response first, one it would take for its
own only where an `Upgrade` wrote it, and after it only frames; `Request` is the other
direction. `FlowsDown` and `FlowsUp`: what was read, is buffered and is on the way is, in
this order, what was written. `Untimed`: a handshake that ended left no deadline.

**Utf8 and CloseReason.** The first byte of a rune tells its length, so the recursion
of `Parses` has no choice: `RunesTo(s, p)` says that the first `p` bytes are runes, and
`SkipRunes` that a parse of `s` is one from there. `Utf8Inv`: the validator is between
two runes, or inside one whose bytes make `value` so far (`Partly`), or the text is
past hope (`Dead`). `RefusedTwo`, `RefusedThree` and `RefusedFour` say that the checks
of the complete value, minimum, surrogates and maximum, are those the table makes of
the first two bytes. For a reason, `WholeIs`: in a text that is runes, a rune ends
at a place exactly where one ends as `DecodeLastRuneInString` sees it, because no byte
that begins a rune also follows in one; and `RuneCut`: a cut goes through one rune.

Only model-checked:

- liveness, which the prover does not reach: `EverythingEnds`, `GoroutinesEnd`,
  `EveryoneAnswered`, `RelayRecovers`, `QuestionsEnd`, `ConnectionsSettle`, and
  `ReadsEnd` and `ProcessEnds` but for their safety parts;
- the two disagreements of section 6 that have a run: they are counterexamples.

## 5. Not modelled

- The front door, the policies and the configuration check signatures and read the
  environment: one answer per request and no state.
- The Redis bus checks two arguments around its driver; the bus is external in
  `Relay` and `Fleet`. The script server serves one file.
- The JSON of frames and bodies, the texts of errors and logs.
- Delays, backoff and jitter: a timer fires at any time after it is set.
- The terminate route is one call of `Terminate`; the routes that list only read,
  apart from the questions of `Fleet`. Registration of handlers and options happens
  before the server runs.
- `disconnect` called from inside a listener of the browser client: from "unavailable" it
  leaves a timer that finds nothing wanted, from "connecting" a socket that is dialled all
  the same. `connect` from a listener of "failed" or of `disconnect`'s own "disconnected"
  is a later `Connect`.
- A channel's own events in the browser (bindings and the member objects), beyond
  the member list and the last event in `Channel`.

## 6. Disagreements found

`drop` announces `ChannelRemoved` once per leaver that finds the channel gone: run
`pusher_count` (`CountIsLive`), `protocols/pusher/protocol.go:679`.

`recordReadCloseReason` writes over every reason but shutdown and terminated: a client that
fell behind, whose socket a `Send` ended as an error, and who then answers the close frame,
is reported as hanging up: run `server_answer` (`AnswerIsNotHangingUp`), `server.go:1006`.
`events.go:56` calls `ReasonClient` "the client hanging up" and `events.go:66` has
`ReasonError` for this case.

The modules also define what other comments of the code promise and the model does
not keep. These definitions are in no run; each is violated under the configuration
named, with the definition in place of its properties.

| Definition | Configuration | Code | What happens |
|---|---|---|---|
| `Pusher!SeatedOncePastChecks` | `Pusher` | `protocol.go:441` | `join` undoes a subscription because somebody else's socket is dead, which the comment at `channels.go:163` rules out |
| `Server!ConnectionsAreCounted` | `Server_registry` | `server.go:827` | a refused connection is announced as closed and never as opened, and lowers the count of the open ones |
| `Channel!RecordedIsSeated` | `Channel` | `protocol.go:441` | a presence subscription that names nobody, of a socket that is on the channel, takes the socket off and leaves its record, while `protocol.go:443` says "a subscription that failed leaves nothing behind" |
| `Channel!MemberListTrue` | `Channel` | `protocol.go:457` | a member who leaves between the confirmation's list and its write stays in the newcomer's list |
| `Channel!LastIsCurrent` | `Channel` | `channels.go:223` | the replay of an older event is written after the broadcast of a newer one |
| `Publish!EveryChannelReached` | `Publish` | `routes.go:241` | a dead socket on one channel keeps the event from the channels after it and from the fleet; `routes.go:179` says "every channel it names" |
| `Relay!OutageEnds` | `Relay` | `scaling.go:891` | an instance that lost a subscription and publishes nothing stays degraded after the bus is back |
| `Fleet!CompleteWhenCounted` | `Fleet` | `scaling.go:1222` | with its own answering subscription down, an instance waits for one answer too few |
| `Fleet!HeldElsewhereIsKnown` | `Fleet` | `routes.go:503` | a channel held by other instances only is answered 404, while `routes.go:315` calls it "still a channel this tenant has" |
| `Utf!RefusesAtOnce` of `MCWs` | `Ws` | `ws/utf8.go:86` | overlong forms and surrogates are refused with their last byte, not "on the first bad byte" (`utf8.go:21`) |
| `Framing!OneChunk` of `MCWs` | `Ws` | `ws/frame.go:260` | a declared length nobody sends the bytes for costs two chunks, not the "one chunk" of `frame.go:248` |
| `Socket!AbnormalIsTold` of `MCWs` | `Ws` | `ws/conn.go:328` | a connection that ends with no close frame gives the transport's error and never `CloseAbnormalClosure` (`conn.go:27`) |
| `Socket!CloseSentIsOut` of `MCWs` | `Ws` | `ws/conn.go:387` | a close frame too long to be written is refused after `closeSent` was set: nothing may be written any more and no close went out |
| `Opening!WholeDialBounded` of `MCWs` | `Ws` | `ws/client.go:116` | connecting and the response each get the whole `HandshakeTimeout` |
| `Opening!BodyIntact` of `MCWs` | `Ws` | `ws/client.go:146` | of a refusal's body only what arrived with its headers can be read |
| `Opening!FailureAnswered` of `MCWs` | `Ws` | `ws/server.go:115` | a client that sent bytes before the 101 is closed on with no answer |
| `Client!Alone` | `Client` | `client/joaju.js:719` | `connect` from a listener of "disconnected" or "state" (`joaju.js:537`, `718`, `772`) leaves several sockets and timers, some with nobody to end them; `joaju.js` says "one connection to one server" |
| `Client!FailedMeansRefused` | `Client` | `client/joaju.js:748` | a refused subscription and a network drop within a second end the client for good |
| `Client!SubscribedMeansSeated` | `Client` | `client/joaju.js:617` | a confirmation on its way marks a channel that was left and asked for again |
| `Client!EarlySilenceNoticed` | `Client` | `client/joaju.js:570` | no timer runs before the first frame: a socket silent from the start is never given up |

## 7. State of the project

The stateful parts of the system are modelled, and every invariant that a run checks is
proved, with two refinements. What could follow:

- a model of the front door's signature check and of the configuration, if they come to
  keep state;
- a proof of the progress that the liveness properties assert, once a prover for
  fairness is at hand;
- `Conn` over `Frame`: that what `Conn` takes from `ReadFrame` and hands to the
  connection is what `Frame` reads and writes, as one refinement instead of two modules
  that use the same vocabulary.
