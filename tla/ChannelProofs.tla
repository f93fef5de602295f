---------------------------- MODULE ChannelProofs ----------------------------
(***************************************************************************)
(* Proofs about Channel, for any number of sockets, people and publishers  *)
(* and any channel. The frames are written after the lock is released, one *)
(* recipient at a time, so the invariant speaks of what still waits to be  *)
(* written: no goroutine is about to tell a socket that its own person has *)
(* left, and the channel's state waits for whoever has not seen it.        *)
(***************************************************************************)
EXTENDS Channel, SequenceTheorems, TLAPS

-----------------------------------------------------------------------------
(* Deliveries                                                              *)

\* What a goroutine may have to write.
Deliveries == [frame : Frames, to : (SUBSET Sockets) \ {{}}]

\* What a page may know of the channel.
Views == [subscribed : BOOLEAN, members : SUBSET Users, last : Events \union {None},
          seen : SUBSET Events]

\* Somewhere in the deliveries q the frame is still to be written to socket r.
Waits(q, frame, r) == \E i \in DOMAIN q : q[i].frame = frame /\ r \in q[i].to

\* deliver's work is empty, or one frame with somebody to write it to.
LEMMA DeliveryType ==
    ASSUME NEW frame \in Frames, NEW to \in SUBSET Sockets
    PROVE  Delivery(frame, to) \in Seq(Deliveries)
<1>1. CASE to = {}
  BY <1>1 DEF Delivery
<1>2. CASE to # {}
  <2> DEFINE d == [frame |-> frame, to |-> to]
  <2>1. d \in Deliveries
    BY <1>2 DEF Deliveries
  <2>2. Delivery(frame, to) = <<d>>
    BY <1>2 DEF Delivery
  <2> HIDE DEF d
  <2> QED
    BY <2>1, <2>2
<1> QED
  BY <1>1, <1>2

\* The frame of a delivery waits for those it is addressed to.
LEMMA DeliveryWaits ==
    ASSUME NEW frame, NEW to, NEW f, NEW r
    PROVE  Waits(Delivery(frame, to), f, r) <=> f = frame /\ r \in to
<1>1. CASE to = {}
  BY <1>1 DEF Waits, Delivery
<1>2. CASE to # {}
  <2> DEFINE q == <<[frame |-> frame, to |-> to]>>
  <2>1. DOMAIN q = {1} /\ q[1].frame = frame /\ q[1].to = to
    OBVIOUS
  <2> QED
    BY <1>2, <2>1 DEF Waits, Delivery
<1> QED
  BY <1>1, <1>2

\* What waits in one list after another waits in one of them.
LEMMA ConcatWaits ==
    ASSUME NEW p \in Seq(Deliveries), NEW q \in Seq(Deliveries), NEW f, NEW r
    PROVE  Waits(p \o q, f, r) <=> Waits(p, f, r) \/ Waits(q, f, r)
<1>1. /\ p \o q \in Seq(Deliveries)
      /\ Len(p \o q) = Len(p) + Len(q)
      /\ Len(p) \in Nat /\ Len(q) \in Nat
      /\ DOMAIN p = 1..Len(p) /\ DOMAIN q = 1..Len(q) /\ DOMAIN (p \o q) = 1..(Len(p) + Len(q))
  OBVIOUS
<1>2. ASSUME NEW i \in DOMAIN p PROVE i \in DOMAIN (p \o q) /\ (p \o q)[i] = p[i]
  BY <1>1
<1>3. ASSUME NEW i \in DOMAIN q PROVE Len(p) + i \in DOMAIN (p \o q) /\ (p \o q)[Len(p) + i] = q[i]
  BY <1>1
<1>4. ASSUME NEW i \in DOMAIN (p \o q)
      PROVE  \/ i \in DOMAIN p /\ (p \o q)[i] = p[i]
             \/ i - Len(p) \in DOMAIN q /\ (p \o q)[i] = q[i - Len(p)]
  BY <1>1
<1>5. Waits(p, f, r) => Waits(p \o q, f, r)
  BY <1>2 DEF Waits
<1>6. Waits(q, f, r) => Waits(p \o q, f, r)
  BY <1>3 DEF Waits
<1>7. Waits(p \o q, f, r) => Waits(p, f, r) \/ Waits(q, f, r)
  BY <1>4 DEF Waits
<1> QED
  BY <1>5, <1>6, <1>7

\* What waits is in the first delivery or in the rest.
LEMMA HeadWaits ==
    ASSUME NEW q \in Seq(Deliveries), q # <<>>, NEW f, NEW r
    PROVE  /\ Head(q) \in Deliveries /\ Tail(q) \in Seq(Deliveries)
           /\ Waits(q, f, r) <=> (f = Head(q).frame /\ r \in Head(q).to) \/ Waits(Tail(q), f, r)
<1>1. /\ Head(q) = q[1] /\ Len(q) \in Nat /\ Len(q) > 0 /\ DOMAIN q = 1..Len(q)
      /\ Tail(q) \in Seq(Deliveries) /\ Len(Tail(q)) = Len(q) - 1
      /\ DOMAIN Tail(q) = 1..(Len(q) - 1)
      /\ q[1] \in Deliveries
  OBVIOUS
<1>2. ASSUME NEW i \in DOMAIN Tail(q) PROVE i + 1 \in DOMAIN q /\ Tail(q)[i] = q[i + 1]
  BY <1>1
<1>3. ASSUME NEW i \in DOMAIN q PROVE i = 1 \/ (i - 1 \in DOMAIN Tail(q) /\ Tail(q)[i - 1] = q[i])
  BY <1>1
<1>4. Waits(q, f, r) => (f = Head(q).frame /\ r \in Head(q).to) \/ Waits(Tail(q), f, r)
  BY <1>1, <1>3 DEF Waits
<1>5. Waits(Tail(q), f, r) => Waits(q, f, r)
  BY <1>2 DEF Waits
<1>6. f = Head(q).frame /\ r \in Head(q).to => Waits(q, f, r)
  BY <1>1 DEF Waits
<1> QED
  BY <1>1, <1>4, <1>5, <1>6

\* Nothing waits in an empty list.
LEMMA EmptyWaits == ASSUME NEW f, NEW r PROVE ~Waits(<<>>, f, r)
BY DEF Waits

\* Writing the first frame to one of its recipients takes that one away, and nothing
\* else.
LEMMA EmitWaits ==
    ASSUME NEW q \in Seq(Deliveries), q # <<>>, NEW r \in Head(q).to
    PROVE  LET rest == Delivery(Head(q).frame, Head(q).to \ {r}) \o Tail(q)
           IN /\ rest \in Seq(Deliveries)
              /\ \A f, x : Waits(rest, f, x) => Waits(q, f, x)
              /\ \A f, x : Waits(q, f, x) =>
                    Waits(rest, f, x) \/ (f = Head(q).frame /\ x = r)
<1> DEFINE d == Delivery(Head(q).frame, Head(q).to \ {r})
<1>1. Head(q) \in Deliveries /\ Tail(q) \in Seq(Deliveries)
  BY HeadWaits
<1>2. d \in Seq(Deliveries)
  BY <1>1, DeliveryType DEF Deliveries
<1>3. d \o Tail(q) \in Seq(Deliveries)
  BY <1>1, <1>2
<1>4. ASSUME NEW f, NEW x
      PROVE  /\ Waits(q, f, x) <=> (f = Head(q).frame /\ x \in Head(q).to) \/ Waits(Tail(q), f, x)
             /\ Waits(d \o Tail(q), f, x) <=> Waits(d, f, x) \/ Waits(Tail(q), f, x)
             /\ Waits(d, f, x) <=> f = Head(q).frame /\ x \in Head(q).to \ {r}
  <2> HIDE DEF d
  <2>1. Waits(d \o Tail(q), f, x) <=> Waits(d, f, x) \/ Waits(Tail(q), f, x)
    BY <1>1, <1>2, ConcatWaits
  <2>2. Waits(d, f, x) <=> f = Head(q).frame /\ x \in Head(q).to \ {r}
    BY DeliveryWaits DEF d
  <2> QED
    BY <2>1, <2>2, HeadWaits
<1> HIDE DEF d
<1> QED
  BY <1>3, <1>4 DEF d

\* What a frame of these does to a page: it removes nobody but the person it names,
\* and no event is forgotten.
LEMMA ShownType ==
    ASSUME NEW v \in Views, NEW frame \in Frames
    PROVE  /\ Shown(v, frame) \in Views
           /\ Shown(v, frame).subscribed = v.subscribed
           /\ \A u \in v.members : u \in Shown(v, frame).members \/ frame = Said("member_removed", u)
           /\ v.seen \subseteq Shown(v, frame).seen
           /\ frame.event = "event" => frame.data \in Shown(v, frame).seen
BY DEF Shown, Views, Frames, Said

-----------------------------------------------------------------------------
(* The inductive invariant                                                 *)

\* Every goroutine has a list of deliveries.
JobsOK == job \in [Goroutines -> Seq(Deliveries)]

\* A goroutine that is not writing has nothing left to write.
IdleOK == \A g \in Goroutines : pc[g] \in {"idle", "confirming", "closed"} => job[g] = <<>>

\* What the stage of a socket's goroutine says of the channel and the record.
StageOf(s) ==
    /\ this.presence => subscribers[s] \in (Offers[s] \ {NoMember}) \union {None}
    /\ subscribers[s] # None => seat[s] \/ pc[s] = "arriving"
    /\ pc[s] = "arriving" => subscribers[s] # None
    /\ seat[s] /\ subscribers[s] = None => MayBeRefused(s)
    /\ pc[s] = "arriving" /\ seat[s] => (~failed[s] /\ job[s] = <<>>) \/ MayBeRefused(s)
    /\ pc[s] = "refused" => MayBeRefused(s) /\ job[s] = <<>>
    /\ pc[s] \in {"closing", "closed"} => ~seat[s]

\* A subscriber is in the list it read and in the list its page shows.
OwnOf(s) ==
    this.presence => \A user \in Users : OnlyAs(s, user) =>
        /\ pc[s] = "confirming" => user \in list[s]
        /\ view[s].subscribed => user \in view[s].members

\* Nobody who is one person is about to be told that they have left themselves.
RemovalsApart ==
    \A g \in Goroutines, r \in Sockets, user \in Users :
        OnlyAs(r, user) => ~Waits(job[g], Said("member_removed", user), r)

\* The inductive invariant.
IInv ==
    /\ TypeOK
    /\ JobsOK
    /\ IdleOK
    /\ \A s \in Sockets : StageOf(s) /\ OwnOf(s)
    /\ dropped => Seated = {}
    /\ AnnouncementsAddUp
    /\ RemovalsApart
    /\ cached # None => this.cache
    /\ StateReachesAll

-----------------------------------------------------------------------------
(* What the operations leave to be written                                 *)

\* A broadcast or a whisper, told apart only by what becomes of the state.
Sends(g, socket) == \E state \in BOOLEAN : send(g, socket, state)

\* A step is one of the operations, with its parameters of their types.
LEMMA StepCases ==
    ASSUME this \in Channels, [Next]_vars
    PROVE  \/ \E s \in Sockets :
                \/ SinkFails(s) \/ Subscribe(s) \/ SubscribeRefused(s) \/ Confirm(s) \/ Answer(s)
                \/ Undo(s) \/ Part(s) \/ Close(s) \/ Drop(s)
           \/ \E g \in Goroutines, socket \in Sockets \union {None} : Sends(g, socket)
           \/ \E g \in Goroutines : Sent(g)
           \/ \E g \in Goroutines, r \in Sockets : Emit(g, r)
           \/ UNCHANGED vars
<1>1. this.sockets \subseteq Sockets /\ this.publishers \subseteq Publishers
  BY ChannelAssumption DEF ChannelType
<1>2. \A s \in this.sockets : Whisper(s) => Sends(s, s)
  BY DEF Whisper, Sends
<1>3. \A p \in this.publishers : Broadcast(p) =>
        \E socket \in Sockets \union {None} : Sends(p, socket)
  BY <1>1 DEF Broadcast, Sends
<1> QED
  BY <1>1, <1>2, <1>3 DEF Next, Goroutines

\* The frames the operations make are frames.
LEMMA FrameTypes ==
    /\ \A u \in Users : Said("member_added", u) \in Frames /\ Said("member_removed", u) \in Frames
    /\ \A e \in Events : Said("event", e) \in Frames
    /\ Said("cache_miss", None) \in Frames
BY DEF Frames, Said

\* What CacheAnswer hands a newcomer is a list of deliveries.
LEMMA CacheAnswerType ==
    ASSUME NEW s \in Sockets, cached \in Events \union {None}
    PROVE  /\ CacheAnswer(s) \in Seq(Deliveries)
           /\ \A f, r : Waits(CacheAnswer(s), f, r) =>
                 f.event \in {"event", "cache_miss"}
           /\ this.cache /\ cached # None => Waits(CacheAnswer(s), Said("event", cached), s)
<1>1. CASE ~this.cache
  BY <1>1, EmptyWaits DEF CacheAnswer
<1>2. CASE this.cache /\ cached # None
  <2>1. Said("event", cached) \in Frames
    BY <1>2, FrameTypes
  <2>2. CacheAnswer(s) = Delivery(Said("event", cached), {s})
    BY <1>2 DEF CacheAnswer
  <2>3. \A f, r : Waits(CacheAnswer(s), f, r) <=> f = Said("event", cached) /\ r \in {s}
    BY <2>2, DeliveryWaits
  <2>4. CacheAnswer(s) \in Seq(Deliveries)
    BY <2>1, <2>2, DeliveryType
  <2> QED
    BY <2>3, <2>4 DEF Said
<1>3. CASE this.cache /\ cached = None
  <2>1. Said("cache_miss", None) \in Frames
    BY FrameTypes
  <2>2. CacheAnswer(s) = Delivery(Said("cache_miss", None), {s})
    BY <1>3 DEF CacheAnswer
  <2>3. \A f, r : Waits(CacheAnswer(s), f, r) <=> f = Said("cache_miss", None) /\ r \in {s}
    BY <2>2, DeliveryWaits
  <2>4. CacheAnswer(s) \in Seq(Deliveries)
    BY <2>1, <2>2, DeliveryType
  <2> QED
    BY <1>3, <2>3, <2>4 DEF Said
<1> QED
  BY <1>1, <1>2, <1>3

\* What Subscribe leaves its goroutine to write: nothing, or the announcement of
\* an arrival and the cache's answer, and then the newcomer is sent the state.
LEMMA SubscribeJob ==
    ASSUME IInv, NEW s \in Sockets, Subscribe(s)
    PROVE  /\ job' \in [Goroutines -> Seq(Deliveries)]
           /\ \A g \in Goroutines \ {s} : job'[g] = job[g]
           /\ job[s] = <<>>
           /\ \A f, r : Waits(job'[s], f, r) => f.event \in {"member_added", "event", "cache_miss"}
           /\ subscribers[s] # None => job' = job
           /\ subscribers[s] = None /\ cached # None => Waits(job'[s], Said("event", cached), s)
<1>1. PICK user \in Labels :
        IF subscribers[s] # None THEN Reseat(s, user) ELSE Seat(s, user)
  BY DEF Subscribe
<1> DEFINE others == gather([subscribers EXCEPT ![s] = user], {s})
           added == Delivery(Said("member_added", user), others)
<1>2. s \in Goroutines /\ others \in SUBSET Sockets
  BY DEF Goroutines, gather
<1>3. job \in [Goroutines -> Seq(Deliveries)] /\ job[s] = <<>>
  BY <1>2 DEF IInv, JobsOK, IdleOK, Subscribe, Asks
<1>4. cached \in Events \union {None} /\ (cached # None => this.cache)
  BY DEF IInv, TypeOK
<1>5. this.presence => added \in Seq(Deliveries)
  BY <1>2, FrameTypes, DeliveryType DEF Labels
<1>6. \A f, r : Waits(added, f, r) => f.event = "member_added"
  BY DeliveryWaits DEF Said
<1>7. CASE subscribers[s] # None
  BY <1>1, <1>3, <1>7, EmptyWaits DEF Reseat
<1>8. CASE subscribers[s] = None /\ job' = [job EXCEPT ![s] = CacheAnswer(s)]
  BY <1>2, <1>3, <1>4, <1>8, CacheAnswerType
<1>9. CASE /\ subscribers[s] = None
           /\ this.presence
           /\ job' = [job EXCEPT ![s] = added \o CacheAnswer(s)]
  <2> HIDE DEF added
  <2>1. added \o CacheAnswer(s) \in Seq(Deliveries)
    BY <1>4, <1>5, <1>9, CacheAnswerType
  <2>2. \A f, r : Waits(added \o CacheAnswer(s), f, r) <=>
                    Waits(added, f, r) \/ Waits(CacheAnswer(s), f, r)
    BY <1>4, <1>5, <1>9, CacheAnswerType, ConcatWaits
  <2>3. job'[s] = added \o CacheAnswer(s)
    BY <1>2, <1>3, <1>9
  <2>4. job' \in [Goroutines -> Seq(Deliveries)] /\ \A g \in Goroutines \ {s} : job'[g] = job[g]
    BY <1>2, <1>3, <1>9, <2>1
  <2>5. \A f, r : Waits(job'[s], f, r) => f.event \in {"member_added", "event", "cache_miss"}
    BY <1>4, <1>6, <2>2, <2>3, CacheAnswerType
  <2>6. cached # None => Waits(job'[s], Said("event", cached), s)
    BY <1>4, <2>2, <2>3, CacheAnswerType
  <2> QED
    BY <1>3, <1>9, <2>4, <2>5, <2>6
<1> QED
  BY <1>1, <1>7, <1>8, <1>9 DEF Seat

\* What Unsubscribe leaves its goroutine to write: at most the departure of the
\* person, to sockets of other people.
LEMMA UnsubscribeJob ==
    ASSUME IInv, NEW s \in Sockets, job[s] = <<>>, Unsubscribe(s)
    PROVE  /\ job' \in [Goroutines -> Seq(Deliveries)]
           /\ \A g \in Goroutines \ {s} : job'[g] = job[g]
           /\ \A f, r : Waits(job'[s], f, r) =>
                 /\ r \in Sockets /\ ~OnlyAs(r, subscribers[s])
                 /\ f = Said("member_removed", subscribers[s])
<1> DEFINE gone == subscribers[s]
           after == [subscribers EXCEPT ![s] = None]
           to == gather(after, {})
<1>1. s \in Goroutines /\ to \in SUBSET Sockets
  BY DEF Goroutines, gather
<1>2. job \in [Goroutines -> Seq(Deliveries)]
  BY DEF IInv, JobsOK
<1>3. this.presence /\ gone # None => gone \in Users
  BY DEF IInv, TypeOK, Labels
<1>4. CASE job' = job
  BY <1>2, <1>4, EmptyWaits
<1>5. CASE /\ this.presence /\ gone # None
           /\ ~holds(after, gone)
           /\ job' = [job EXCEPT ![s] = Delivery(Said("member_removed", gone), to)]
  <2>1. Delivery(Said("member_removed", gone), to) \in Seq(Deliveries)
    BY <1>1, <1>3, <1>5, FrameTypes, DeliveryType
  <2>2. job' \in [Goroutines -> Seq(Deliveries)] /\ \A g \in Goroutines \ {s} : job'[g] = job[g]
    BY <1>1, <1>2, <1>5, <2>1
  <2>3. job'[s] = Delivery(Said("member_removed", gone), to)
    BY <1>1, <1>2, <1>5
  <2>4. \A f, r : Waits(job'[s], f, r) => f = Said("member_removed", gone) /\ r \in to
    BY <2>3, DeliveryWaits
  <2>5. ASSUME NEW r \in to PROVE r \in Sockets /\ ~OnlyAs(r, gone)
    <3>1. r \in Sockets /\ after[r] # None /\ after[r] # gone
      BY <1>5 DEF gather, holds
    <3>2. after[r] = subscribers[r]
      BY <3>1 DEF IInv, TypeOK
    <3> QED
      BY <1>5, <3>1, <3>2 DEF IInv, StageOf, OnlyAs
  <2> QED
    BY <2>2, <2>4, <2>5
<1> QED
  BY <1>4, <1>5 DEF Unsubscribe

\* What one Send leaves its goroutine to write.
LEMMA EmitJob ==
    ASSUME IInv, NEW g \in Goroutines, NEW r \in Sockets, Emit(g, r)
    PROVE  /\ job' \in [Goroutines -> Seq(Deliveries)]
           /\ \A h \in Goroutines \ {g} : job'[h] = job[h]
           /\ Head(job[g]).frame \in Frames
           /\ Waits(job[g], Head(job[g]).frame, r)
           /\ \A f, x : Waits(job'[g], f, x) => Waits(job[g], f, x)
           /\ \A f, x : Waits(job[g], f, x) =>
                 Waits(job'[g], f, x) \/ (f = Head(job[g]).frame /\ x = r)
<1>1. job \in [Goroutines -> Seq(Deliveries)] /\ job[g] # <<>> /\ r \in Head(job[g]).to
  BY DEF IInv, JobsOK, Emit
<1> DEFINE q == job[g]
           rest == Delivery(Head(q).frame, Head(q).to \ {r}) \o Tail(q)
<1>2. q \in Seq(Deliveries) /\ q # <<>> /\ r \in Head(q).to
  BY <1>1
<1>3. job' = [job EXCEPT ![g] = rest]
  BY DEF Emit
<1> HIDE DEF q
<1>4. /\ rest \in Seq(Deliveries)
      /\ \A f, x : Waits(rest, f, x) => Waits(q, f, x)
      /\ \A f, x : Waits(q, f, x) => Waits(rest, f, x) \/ (f = Head(q).frame /\ x = r)
  BY <1>2, EmitWaits
<1> HIDE DEF rest
<1>5. job' \in [Goroutines -> Seq(Deliveries)] /\ job'[g] = rest
      /\ \A h \in Goroutines \ {g} : job'[h] = job[h]
  BY <1>1, <1>3, <1>4
<1>6. Head(q).frame \in Frames /\ Waits(q, Head(q).frame, r)
  BY <1>2, HeadWaits DEF Deliveries
<1> QED
  BY <1>4, <1>5, <1>6 DEF q

\* The event the next broadcast or whisper sends.
EventOf(socket) == [id |-> sent + 1, socket |-> socket]

\* What a broadcast or a whisper leaves its goroutine to write.
LEMMA SendJob ==
    ASSUME IInv, NEW g \in Goroutines, NEW socket \in Sockets \union {None},
           Sends(g, socket)
    PROVE  /\ EventOf(socket) \in Events
           /\ job' \in [Goroutines -> Seq(Deliveries)]
           /\ \A h \in Goroutines \ {g} : job'[h] = job[h]
           /\ job[g] = <<>>
           /\ job'[g] = Delivery(Said("event", EventOf(socket)), Seated \ {socket})
<1> DEFINE e == EventOf(socket)
           to == gather(subscribers, {socket})
<1>1. job \in [Goroutines -> Seq(Deliveries)] /\ job[g] = <<>>
  BY DEF IInv, JobsOK, IdleOK, Sends, send
<1>2. e \in Events
  <2>1. this.events \in Nat
    BY ChannelAssumption DEF IInv, TypeOK, ChannelType
  <2>2. sent \in 0..this.events /\ sent < this.events
    BY DEF IInv, TypeOK, Sends, send
  <2>3. sent + 1 \in 1..this.events
    BY <2>1, <2>2
  <2> QED
    BY <2>3 DEF Events, EventOf
<1>3. to \in SUBSET Sockets /\ to = Seated \ {socket}
  BY DEF gather, Seated
<1>4. job' = [job EXCEPT ![g] = Delivery(Said("event", e), to)]
  BY DEF Sends, send, EventOf
<1> HIDE DEF e, to
<1>5. Delivery(Said("event", e), to) \in Seq(Deliveries)
  BY <1>2, <1>3, FrameTypes, DeliveryType
<1>6. /\ job' \in [Goroutines -> Seq(Deliveries)]
      /\ \A h \in Goroutines \ {g} : job'[h] = job[h]
      /\ job'[g] = Delivery(Said("event", e), to)
  BY <1>1, <1>4, <1>5
<1> QED
  BY <1>1, <1>2, <1>3, <1>6 DEF e

\* The event waits for everybody on the channel but the socket it names.
LEMMA SendWaits ==
    ASSUME IInv, NEW g \in Goroutines, NEW socket \in Sockets \union {None},
           Sends(g, socket), NEW f, NEW r
    PROVE  Waits(job'[g], f, r) <=>
              f = Said("event", EventOf(socket)) /\ r \in Seated /\ r # socket
<1>1. job'[g] = Delivery(Said("event", EventOf(socket)), Seated \ {socket})
  BY SendJob
<1> QED
  BY <1>1, DeliveryWaits

-----------------------------------------------------------------------------
(* The steps                                                               *)

\* The channel stays the channel, and with it every set of values.
LEMMA Constant ==
    ASSUME this \in Channels, [Next]_vars
    PROVE  /\ this' = this /\ Events' = Events /\ Frames' = Frames
           /\ Deliveries' = Deliveries /\ Views' = Views
<1>1. this' = this
  BY StepCases DEF SinkFails, Subscribe, SubscribeRefused, Confirm, Answer, Undo, Part, Close, Drop,
                   Sends, send, Sent, Emit, vars
<1>2. Events' = Events
  BY <1>1 DEF Events
<1>3. Frames' = Frames
  BY <1>2 DEF Frames
<1> QED
  BY <1>1, <1>2, <1>3 DEF Deliveries, Views

\* Leaving is three operations: a goroutine that leaves had nothing left to write.
LEMMA Leaves ==
    ASSUME IInv, NEW s \in Sockets, Undo(s) \/ Part(s) \/ (Close(s) /\ seat[s])
    PROVE  /\ job[s] = <<>> /\ Unsubscribe(s)
           /\ (seat' = seat /\ MayBeRefused(s)) \/ seat' = [seat EXCEPT ![s] = FALSE]
           /\ pc' = [pc EXCEPT ![s] = "parting"]
              \/ (pc' = [pc EXCEPT ![s] = "closing"] /\ seat' = [seat EXCEPT ![s] = FALSE])
<1>1. s \in Goroutines /\ seat \in [Sockets -> BOOLEAN]
  BY DEF Goroutines, IInv, TypeOK
<1>2. CASE Undo(s)
  <2>1. StageOf(s)
    BY DEF IInv
  <2>2. seat[s] => MayBeRefused(s)
    BY <1>2, <2>1 DEF Undo, SubscribeFailed, StageOf
  <2>3. ~seat[s] => seat = [seat EXCEPT ![s] = FALSE]
    BY <1>1
  <2> QED
    BY <1>2, <2>1, <2>2, <2>3 DEF Undo, SubscribeFailed, Done, StageOf
<1>3. CASE Part(s)
  BY <1>1, <1>3 DEF Part, IInv, IdleOK
<1>4. CASE Close(s) /\ seat[s]
  BY <1>1, <1>4 DEF Close, IInv, IdleOK
<1> QED
  BY <1>2, <1>3, <1>4

\* What is to be written stays a list of deliveries, and none is left to a
\* goroutine that has gone on.
LEMMA JobsStep == IInv /\ [Next]_vars => JobsOK' /\ IdleOK'
<1> SUFFICES ASSUME IInv, [Next]_vars PROVE JobsOK' /\ IdleOK'
  OBVIOUS
<1>1. this \in Channels /\ pc \in [Goroutines -> Stages] /\ Sockets \subseteq Goroutines
  BY DEF IInv, TypeOK, Goroutines
<1>2. job \in [Goroutines -> Seq(Deliveries)] /\ Deliveries' = Deliveries
  BY <1>1, Constant DEF IInv, JobsOK
<1>3. \A g \in Goroutines : pc[g] \in {"idle", "confirming", "closed"} => job[g] = <<>>
  BY DEF IInv, IdleOK
<1> SUFFICES /\ job' \in [Goroutines -> Seq(Deliveries)]
             /\ \A g \in Goroutines : pc'[g] \in {"idle", "confirming", "closed"} => job'[g] = <<>>
  BY <1>2 DEF JobsOK, IdleOK, Goroutines
<1>4. ASSUME NEW s \in Sockets,
             SinkFails(s) \/ SubscribeRefused(s) \/ Confirm(s) \/ Answer(s) \/ Drop(s)
      PROVE  /\ job' = job
             /\ \A g \in Goroutines : pc'[g] \in {"idle", "confirming", "closed"} => job[g] = <<>>
  BY <1>1, <1>3, <1>4 DEF SinkFails, SubscribeRefused, Confirm, Answer, Drop, Done
<1>5. ASSUME NEW s \in Sockets, Subscribe(s)
      PROVE  /\ job' \in [Goroutines -> Seq(Deliveries)]
             /\ \A g \in Goroutines : pc'[g] \in {"idle", "confirming", "closed"} => job'[g] = <<>>
  <2>1. pc' = [pc EXCEPT ![s] = "arriving"]
    BY <1>5 DEF Subscribe
  <2> QED
    BY <1>1, <1>3, <1>5, <2>1, SubscribeJob
<1>6. ASSUME NEW s \in Sockets, Undo(s) \/ Part(s) \/ (Close(s) /\ seat[s])
      PROVE  /\ job' \in [Goroutines -> Seq(Deliveries)]
             /\ \A g \in Goroutines : pc'[g] \in {"idle", "confirming", "closed"} => job'[g] = <<>>
  <2>1. /\ job[s] = <<>> /\ Unsubscribe(s)
        /\ pc' \in {[pc EXCEPT ![s] = "parting"], [pc EXCEPT ![s] = "closing"]}
    BY <1>6, Leaves
  <2>2. job' \in [Goroutines -> Seq(Deliveries)] /\ \A g \in Goroutines \ {s} : job'[g] = job[g]
    BY <2>1, UnsubscribeJob
  <2>3. s \in Sockets
    OBVIOUS
  <2> QED
    BY ONLY <1>1, <1>3, <2>1, <2>2, <2>3
<1>7. ASSUME NEW s \in Sockets, Close(s), ~seat[s]
      PROVE  /\ job' = job
             /\ \A g \in Goroutines : pc'[g] \in {"idle", "confirming", "closed"} => job[g] = <<>>
  BY <1>1, <1>3, <1>7 DEF Close
<1>8. ASSUME NEW g \in Goroutines, NEW socket \in Sockets \union {None}, Sends(g, socket)
      PROVE  /\ job' \in [Goroutines -> Seq(Deliveries)]
             /\ \A h \in Goroutines : pc'[h] \in {"idle", "confirming", "closed"} => job'[h] = <<>>
  <2>1. pc' = [pc EXCEPT ![g] = "sending"]
    BY <1>8 DEF Sends, send
  <2>2. job' \in [Goroutines -> Seq(Deliveries)] /\ \A h \in Goroutines \ {g} : job'[h] = job[h]
    BY <1>8, SendJob
  <2> QED
    BY <1>1, <1>3, <2>1, <2>2
<1>9. ASSUME NEW g \in Goroutines, Sent(g)
      PROVE  /\ job' = job
             /\ \A h \in Goroutines : pc'[h] \in {"idle", "confirming", "closed"} => job[h] = <<>>
  BY <1>1, <1>3, <1>9 DEF Sent, Done
<1>10. ASSUME NEW g \in Goroutines, NEW r \in Sockets, Emit(g, r)
       PROVE  /\ job' \in [Goroutines -> Seq(Deliveries)]
              /\ \A h \in Goroutines : pc'[h] \in {"idle", "confirming", "closed"} => job'[h] = <<>>
  <2>1. pc' = pc /\ job[g] # <<>>
    BY <1>10 DEF Emit
  <2> QED
    BY <1>1, <1>3, <1>10, <2>1, EmitJob
<1>11. CASE UNCHANGED vars
  BY <1>2, <1>3, <1>11 DEF vars
<1> QED
  BY <1>1, <1>2, <1>4, <1>5, <1>6, <1>7, <1>8, <1>9, <1>10, <1>11, StepCases

\* What a step does to one browser's view of the channel: nothing, a new view, the
\* confirmation, or one frame that waited to be written to it.
LEMMA ViewStep ==
    ASSUME IInv, [Next]_vars, NEW s \in Sockets
    PROVE  \/ view'[s] = view[s]
           \/ view'[s] = Fresh /\ ((Subscribe(s) /\ subscribers[s] = None) \/ Part(s) \/ Close(s))
           \/ /\ Answer(s)
              /\ view'[s] = [view[s] EXCEPT !.subscribed = TRUE, !.members = list[s]]
           \/ \E g \in Goroutines :
                /\ Emit(g, s)
                /\ sink[s]
                /\ view'[s] = Shown(view[s], Head(job[g]).frame)
<1>1. this \in Channels /\ view \in [Sockets -> Views]
  BY DEF IInv, TypeOK, Views
<1> SUFFICES ASSUME view'[s] # view[s]
             PROVE  \/ /\ view'[s] = Fresh
                       /\ (Subscribe(s) /\ subscribers[s] = None) \/ Part(s) \/ Close(s)
                    \/ /\ Answer(s)
                       /\ view'[s] = [view[s] EXCEPT !.subscribed = TRUE, !.members = list[s]]
                    \/ \E g \in Goroutines :
                         /\ Emit(g, s)
                         /\ sink[s]
                         /\ view'[s] = Shown(view[s], Head(job[g]).frame)
  OBVIOUS
<1>2. ASSUME NEW r \in Sockets
      PROVE  ~(SinkFails(r) \/ SubscribeRefused(r) \/ Confirm(r) \/ Undo(r) \/ Drop(r))
  BY DEF SinkFails, SubscribeRefused, Confirm, Undo, Drop
<1>3. ASSUME NEW r \in Sockets, Subscribe(r)
      PROVE  r = s /\ subscribers[s] = None /\ view'[s] = Fresh
  <2>1. /\ pc[r] = "idle"
        /\ view' = view \/ (view' = [view EXCEPT ![r] = Fresh] /\ ~seat[r])
    BY <1>3 DEF Subscribe, Asks
  <2>2. StageOf(r)
    BY DEF IInv
  <2> QED
    BY <1>1, <2>1, <2>2 DEF StageOf
<1>4. ASSUME NEW r \in Sockets, Part(r) \/ Close(r) PROVE r = s /\ view'[s] = Fresh
  BY <1>1, <1>4 DEF Part, Close
<1>5. ASSUME NEW r \in Sockets, Answer(r)
      PROVE  r = s /\ view'[s] = [view[s] EXCEPT !.subscribed = TRUE, !.members = list[s]]
  BY <1>1, <1>5 DEF Answer, Written, Shown, Said
<1>6. ASSUME NEW g \in Goroutines, NEW r \in Sockets, Emit(g, r)
      PROVE  r = s /\ sink[s] /\ view'[s] = Shown(view[s], Head(job[g]).frame)
  BY <1>1, <1>6 DEF Emit, Written
<1>7. ASSUME NEW g \in Goroutines, NEW socket \in Sockets \union {None}
      PROVE  ~Sends(g, socket) /\ ~Sent(g)
  BY DEF Sends, send, Sent
<1>8. ~UNCHANGED vars
  BY DEF vars
<1> QED
  BY <1>1, <1>2, <1>3, <1>4, <1>5, <1>6, <1>7, <1>8, StepCases

\* A view shown a frame it was sent stays a view.
LEMMA ViewType ==
    ASSUME IInv, [Next]_vars
    PROVE  view' \in [Sockets -> Views]
<1>1. /\ this \in Channels
      /\ view \in [Sockets -> Views]
      /\ list \in [Sockets -> SUBSET Users]
  BY DEF IInv, TypeOK, Views
<1>2. Fresh \in Views
  BY DEF Fresh, Views
<1>3. ASSUME NEW s \in Sockets, NEW v \in Views, view' = [view EXCEPT ![s] = v]
      PROVE  view' \in [Sockets -> Views]
  BY <1>1, <1>3
<1>4. ASSUME NEW r \in Sockets,
             SinkFails(r) \/ SubscribeRefused(r) \/ Confirm(r) \/ Undo(r) \/ Drop(r)
      PROVE  view' = view
  BY <1>4 DEF SinkFails, SubscribeRefused, Confirm, Undo, Drop
<1>5. ASSUME NEW r \in Sockets, Subscribe(r) \/ Part(r) \/ Close(r)
      PROVE  view' = view \/ view' = [view EXCEPT ![r] = Fresh]
  BY <1>5 DEF Subscribe, Part, Close
<1>6. ASSUME NEW r \in Sockets, Answer(r) PROVE view' \in [Sockets -> Views]
  <2> DEFINE v == [view[r] EXCEPT !.subscribed = TRUE, !.members = list[r]]
  <2>1. v \in Views
    BY <1>1 DEF Views
  <2>2. view' = view \/ view' = [view EXCEPT ![r] = v]
    BY <1>6 DEF Answer, Written, Shown, Said
  <2> QED
    BY <1>1, <1>3, <2>1, <2>2
<1>7. ASSUME NEW g \in Goroutines, NEW r \in Sockets, Emit(g, r) PROVE view' \in [Sockets -> Views]
  <2> DEFINE v == Shown(view[r], Head(job[g]).frame)
  <2>1. Head(job[g]).frame \in Frames
    BY <1>7, EmitJob
  <2>2. v \in Views
    BY <1>1, <2>1, ShownType
  <2>3. view' = view \/ view' = [view EXCEPT ![r] = v]
    BY <1>7 DEF Emit, Written
  <2> HIDE DEF v
  <2> QED
    BY <1>1, <1>3, <2>2, <2>3
<1>8. ASSUME NEW g \in Goroutines, NEW socket \in Sockets \union {None}, Sends(g, socket) \/ Sent(g)
      PROVE  view' = view
  BY <1>8 DEF Sends, send, Sent
<1>9. CASE UNCHANGED vars
  BY <1>1, <1>9 DEF vars
<1> QED
  BY <1>1, <1>2, <1>3, <1>4, <1>5, <1>6, <1>7, <1>8, <1>9, StepCases

\* Every variable keeps its type.
LEMMA TypeStep == IInv /\ [Next]_vars => TypeOK'
<1> SUFFICES ASSUME IInv, [Next]_vars PROVE TypeOK'
  OBVIOUS
<1>1. /\ this' = this /\ Events' = Events /\ Frames' = Frames
      /\ Deliveries' = Deliveries /\ Views' = Views
  BY Constant DEF IInv, TypeOK
<1> DEFINE Rest == /\ this' = this
                   /\ subscribers' \in [Sockets -> Labels \union {None}]
                   /\ cached' \in Events \union {None}
                   /\ dropped' \in BOOLEAN
                   /\ pc' \in [Goroutines -> Stages]
                   /\ failed' \in [Sockets -> BOOLEAN]
                   /\ list' \in [Sockets -> SUBSET Users]
                   /\ seat' \in [Sockets -> BOOLEAN]
                   /\ sink' \in [Sockets -> BOOLEAN]
                   /\ sent' \in 0..this.events
                   /\ joins' \in [Sockets -> 0..this.joins]
                   /\ told' \in [Sockets -> SUBSET Users]
                   /\ swapped' \subseteq Users
<1>2. view' \in [Sockets -> Views']
  BY <1>1, ViewType
<1>3. \A g \in Goroutines : \A i \in DOMAIN job'[g] :
         job'[g][i].frame \in Frames' /\ job'[g][i].to \in (SUBSET Sockets) \ {{}}
  <2>1. job' \in [Goroutines -> Seq(Deliveries')]
    BY JobsStep DEF JobsOK, Goroutines
  <2>2. ASSUME NEW g \in Goroutines, NEW i \in DOMAIN job'[g] PROVE job'[g][i] \in Deliveries'
    BY <2>1, <2>2
  <2> QED
    BY <2>2 DEF Deliveries
<1>4. Rest => TypeOK'
  BY <1>1, <1>2, <1>3 DEF IInv, TypeOK, Labels, Users, Goroutines, Stages, Views
<1>5. this.events \in Nat /\ this.joins \in Nat
  BY ChannelAssumption DEF IInv, TypeOK, ChannelType
<1>6. \A s \in Sockets : s \in Goroutines
  BY DEF Goroutines
<1>7. this.presence => Members \in SUBSET Users
  BY DEF Members, Seated, IInv, TypeOK, Labels
<1>8. ASSUME NEW event \in {"member_added", "member_removed"}, NEW user \in Users, NEW to,
             Announce(event, user, to)
      PROVE  told' \in [Sockets -> SUBSET Users]
  BY <1>8 DEF Announce, Shown, Said, Fresh, IInv, TypeOK
<1>9. ASSUME NEW s \in Sockets, Unsubscribe(s)
      PROVE  /\ told' \in [Sockets -> SUBSET Users]
             /\ subscribers' \in [Sockets -> Labels \union {None}]
  <2>1. this.presence /\ subscribers[s] # None => subscribers[s] \in Users
    BY DEF IInv, TypeOK, Labels
  <2> QED
    BY <1>8, <1>9, <2>1 DEF Unsubscribe, IInv, TypeOK
<1> USE <1>5, <1>6 DEF IInv, TypeOK, Stages
<1>10. ASSUME NEW s \in Sockets, SinkFails(s) PROVE Rest
  BY <1>10 DEF SinkFails
<1>11. ASSUME NEW s \in Sockets, Subscribe(s) PROVE Rest
  <2>1. PICK user \in Labels :
          /\ IF subscribers[s] # None THEN Reseat(s, user) ELSE Seat(s, user)
          /\ subscribers' = [subscribers EXCEPT ![s] = user]
    BY <1>11 DEF Subscribe
  <2>2. told' \in [Sockets -> SUBSET Users]
    BY <1>8, <2>1 DEF Reseat, Seat, Labels
  <2>3. joins' \in [Sockets -> 0..this.joins]
    BY <1>11 DEF Subscribe, Asks
  <2>4. swapped' \subseteq Users
    BY <2>1 DEF Reseat, Seat, Labels
  <2> QED
    BY <1>11, <2>1, <2>2, <2>3, <2>4 DEF Subscribe
<1>12. ASSUME NEW s \in Sockets, SubscribeRefused(s) PROVE Rest
  BY <1>12 DEF SubscribeRefused, Asks
<1>13. ASSUME NEW s \in Sockets, Confirm(s) PROVE Rest
  BY <1>7, <1>13 DEF Confirm, Data
<1>14. ASSUME NEW s \in Sockets, Answer(s) PROVE Rest
  BY <1>14 DEF Answer
<1>15. ASSUME NEW s \in Sockets, Undo(s) PROVE Rest
  BY <1>9, <1>15 DEF Undo
<1>16. ASSUME NEW s \in Sockets, Part(s) PROVE Rest
  BY <1>9, <1>16 DEF Part
<1>17. ASSUME NEW s \in Sockets, Close(s) PROVE Rest
  BY <1>9, <1>17 DEF Close
<1>18. ASSUME NEW s \in Sockets, Drop(s) PROVE Rest
  BY <1>18 DEF Drop
<1>19. ASSUME NEW g \in Goroutines, NEW socket \in Sockets \union {None}, Sends(g, socket)
       PROVE  Rest
  <2>1. EventOf(socket) \in Events
    BY <1>19, SendJob
  <2>2. cached' \in {EventOf(socket), cached}
    BY <1>19 DEF Sends, send, Kept, EventOf
  <2> QED
    BY <1>19, <2>1, <2>2 DEF Sends, send
<1>20. ASSUME NEW g \in Goroutines, Sent(g) PROVE Rest
  BY <1>20 DEF Sent
<1>21. ASSUME NEW g \in Goroutines, NEW r \in Sockets, Emit(g, r) PROVE Rest
  BY <1>21 DEF Emit
<1>22. ASSUME UNCHANGED vars PROVE Rest
  BY <1>22 DEF vars
<1>23. this \in Channels
  OBVIOUS
<1> HIDE DEF IInv, TypeOK, Rest
<1> QED
  BY <1>23, <1>4, <1>10, <1>11, <1>12, <1>13, <1>14, <1>15, <1>16, <1>17, <1>18, <1>19, <1>20, <1>21, <1>22,
     StepCases

\* A socket's member is one the policy gave it, it is on the channel only while its
\* goroutine is subscribing it or has it recorded, and only a refused subscription
\* leaves the record without it.
LEMMA StageStep == IInv /\ [Next]_vars => \A r \in Sockets : StageOf(r)'
<1> SUFFICES ASSUME IInv, [Next]_vars, NEW r \in Sockets PROVE StageOf(r)'
  OBVIOUS
<1>1. /\ subscribers \in [Sockets -> Labels \union {None}]
      /\ pc \in [Goroutines -> Stages]
      /\ failed \in [Sockets -> BOOLEAN]
      /\ seat \in [Sockets -> BOOLEAN]
      /\ job \in [Goroutines -> Seq(Deliveries)]
      /\ \A s \in Sockets : s \in Goroutines /\ None \notin Offers[s] /\ StageOf(s)
      /\ this \in Channels /\ this' = this /\ NoMember # None
      /\ \A s \in Sockets : pc[s] = "idle" => job[s] = <<>>
  BY ChannelAssumption, Constant DEF IInv, TypeOK, JobsOK, IdleOK, Goroutines
<1> USE <1>1 DEF StageOf, MayBeRefused
<1>2. ASSUME NEW s \in Sockets, SinkFails(s) PROVE StageOf(r)'
  BY <1>2 DEF SinkFails
<1>3. ASSUME NEW s \in Sockets, Subscribe(s) PROVE StageOf(r)'
  <2>1. subscribers[s] # None => job' = job
    BY <1>3, SubscribeJob
  <2>2. \A q \in Sockets \ {s} : job'[q] = job[q]
    BY <1>3, SubscribeJob
  <2>3. PICK user \in Labels :
          /\ this.presence => user \in Offers[s]
          /\ subscribers' = [subscribers EXCEPT ![s] = user]
    BY <1>3 DEF Subscribe
  <2>4. user # None /\ (this.presence => user \in Offers[s] \ {NoMember})
    BY <2>3 DEF Labels, Users
  <2>5. /\ pc[s] = "idle" /\ pc' = [pc EXCEPT ![s] = "arriving"]
        /\ failed' = [failed EXCEPT ![s] = FALSE] /\ seat' = seat
    BY <1>3 DEF Subscribe, Asks
  <2>6. CASE r = s
    <3>1. seat[s] => job'[s] = <<>> \/ (this.presence /\ NoMember \in Offers[s])
      BY <2>1, <2>5
    <3> QED
      BY <2>3, <2>4, <2>5, <2>6, <3>1
  <2>7. CASE r # s
    BY <2>2, <2>3, <2>5, <2>7
  <2> QED
    BY <2>6, <2>7
<1>4. ASSUME NEW s \in Sockets, SubscribeRefused(s) PROVE StageOf(r)'
  BY <1>4 DEF SubscribeRefused, Asks
<1>5. ASSUME NEW s \in Sockets, Confirm(s) PROVE StageOf(r)'
  BY <1>5 DEF Confirm
<1>6. ASSUME NEW s \in Sockets, Answer(s) PROVE StageOf(r)'
  BY <1>6 DEF Answer
<1>7. ASSUME NEW s \in Sockets, Undo(s) \/ Part(s) \/ (Close(s) /\ seat[s]) PROVE StageOf(r)'
  <2>1. /\ job[s] = <<>> /\ Unsubscribe(s)
        /\ (seat' = seat /\ MayBeRefused(s)) \/ seat' = [seat EXCEPT ![s] = FALSE]
        /\ pc' = [pc EXCEPT ![s] = "parting"]
           \/ (pc' = [pc EXCEPT ![s] = "closing"] /\ seat' = [seat EXCEPT ![s] = FALSE])
    BY <1>7, Leaves
  <2>2. subscribers' = [subscribers EXCEPT ![s] = None]
    BY <2>1 DEF Unsubscribe
  <2>3. \A q \in Sockets \ {s} : job'[q] = job[q] /\ failed'[q] = failed[q]
    BY <1>7, <2>1, UnsubscribeJob DEF Undo, Part, Close
  <2>4. CASE r = s
    BY <2>1, <2>2, <2>4
  <2>5. CASE r # s
    BY <2>1, <2>2, <2>3, <2>5
  <2> QED
    BY <2>4, <2>5
<1>8. ASSUME NEW s \in Sockets, Close(s), ~seat[s] PROVE StageOf(r)'
  BY <1>8 DEF Close
<1>9. ASSUME NEW s \in Sockets, Drop(s) PROVE StageOf(r)'
  BY <1>9 DEF Drop
<1>10. ASSUME NEW g \in Goroutines, NEW socket \in Sockets \union {None}, Sends(g, socket)
      PROVE  StageOf(r)'
  <2>1. \A h \in Goroutines \ {g} : job'[h] = job[h]
    BY <1>10, SendJob
  <2>2. /\ pc[g] = "idle" /\ pc' = [pc EXCEPT ![g] = "sending"]
        /\ UNCHANGED <<subscribers, seat, failed>>
    BY <1>10 DEF Sends, send
  <2> QED
    BY <2>1, <2>2
<1>11. ASSUME NEW g \in Goroutines, Sent(g) PROVE StageOf(r)'
  BY <1>11 DEF Sent
<1>12. ASSUME NEW g \in Goroutines, NEW q \in Sockets, Emit(g, q) PROVE StageOf(r)'
  <2>1. \A h \in Goroutines \ {g} : job'[h] = job[h]
    BY <1>12, EmitJob
  <2>2. job[g] # <<>> /\ UNCHANGED <<pc, subscribers, seat>>
        /\ (failed' = failed \/ failed' = [failed EXCEPT ![g] = TRUE])
    BY <1>12 DEF Emit
  <2> QED
    BY <2>1, <2>2
<1>13. CASE UNCHANGED vars
  BY <1>13 DEF vars
<1> HIDE DEF StageOf
<1> QED
  BY <1>1, <1>2, <1>3, <1>4, <1>5, <1>6, <1>7, <1>8, <1>9, <1>10, <1>11, <1>12, <1>13, StepCases

\* Nobody joins a channel that was dropped, and it was dropped empty.
LEMMA DroppedStep == IInv /\ [Next]_vars => (dropped' => Seated' = {})
<1> SUFFICES ASSUME IInv, [Next]_vars, dropped' PROVE Seated' = {}
  OBVIOUS
<1>1. this \in Channels /\ subscribers \in [Sockets -> Labels \union {None}]
      /\ (dropped => Seated = {})
  BY DEF IInv, TypeOK
<1>2. ASSUME NEW s \in Sockets, Drop(s) PROVE Seated' = {}
  BY <1>1, <1>2 DEF Drop, Seated
<1>3. ASSUME dropped, \A s \in Sockets : subscribers'[s] = subscribers[s] \/ subscribers'[s] = None
      PROVE  Seated' = {}
  BY <1>1, <1>3 DEF Seated
<1>4. ASSUME NEW s \in Sockets,
             Undo(s) \/ Part(s) \/ Close(s) \/ SinkFails(s) \/ Confirm(s) \/ Answer(s)
      PROVE  Seated' = {}
  BY <1>1, <1>3, <1>4 DEF Undo, Part, Close, SinkFails, Confirm, Answer, Unsubscribe
<1>5. ASSUME NEW s \in Sockets PROVE ~Subscribe(s) /\ ~SubscribeRefused(s)
  BY DEF Subscribe, SubscribeRefused, Asks
<1>6. ASSUME NEW g \in Goroutines, NEW socket \in Sockets \union {None}, Sends(g, socket) \/ Sent(g)
      PROVE  Seated' = {}
  BY <1>3, <1>6 DEF Sends, send, Sent
<1>7. ASSUME NEW g \in Goroutines, NEW q \in Sockets, Emit(g, q) PROVE Seated' = {}
  BY <1>3, <1>7 DEF Emit
<1>8. CASE UNCHANGED vars
  BY <1>3, <1>8 DEF vars
<1> QED
  BY <1>1, <1>2, <1>4, <1>5, <1>6, <1>7, <1>8, StepCases

\* Only its own Subscribe puts a socket on the channel.
LEMMA JoinsOnly ==
    ASSUME IInv, [Next]_vars, NEW r \in Sockets, subscribers[r] = None, subscribers'[r] # None
    PROVE  Subscribe(r)
<1>1. this \in Channels /\ subscribers \in [Sockets -> Labels \union {None}]
  BY DEF IInv, TypeOK
<1>2. ASSUME NEW s \in Sockets, Subscribe(s) PROVE s = r
  BY <1>1, <1>2 DEF Subscribe
<1>3. ASSUME NEW s \in Sockets
      PROVE  ~(\/ SinkFails(s) \/ SubscribeRefused(s) \/ Confirm(s) \/ Answer(s) \/ Undo(s)
               \/ Part(s) \/ Close(s) \/ Drop(s))
  BY <1>1 DEF SinkFails, SubscribeRefused, Confirm, Answer, Undo, Part, Close, Drop, Unsubscribe
<1>4. ASSUME NEW g \in Goroutines, NEW socket \in Sockets \union {None}
      PROVE  ~Sends(g, socket) /\ ~Sent(g)
  BY DEF Sends, send, Sent
<1>5. ASSUME NEW g \in Goroutines, NEW q \in Sockets PROVE ~Emit(g, q)
  BY DEF Emit
<1>6. ~UNCHANGED vars
  BY DEF vars
<1> QED
  BY <1>1, <1>2, <1>3, <1>4, <1>5, <1>6, StepCases

\* Every arrival and departure is announced to all that have to know of it, and to
\* nobody's loss: what was told keeps adding up to who is there.
LEMMA AddUpStep == IInv /\ [Next]_vars => AnnouncementsAddUp'
<1> SUFFICES ASSUME IInv, [Next]_vars, this.presence, NEW r \in Sockets,
                    subscribers'[r] # None, pc'[r] # "arriving",
                    NEW u, u \notin swapped'
             PROVE  u \in told'[r] <=> u \in Members'
  BY Constant DEF AnnouncementsAddUp, Seated, IInv, TypeOK
<1> DEFINE Told == u \in told'[r] <=> u \in Members'
<1>1. /\ subscribers \in [Sockets -> Users \union {None}]
      /\ seat \in [Sockets -> BOOLEAN]
      /\ pc \in [Goroutines -> Stages] /\ Sockets \subseteq Goroutines
      /\ told \in [Sockets -> SUBSET Users]
      /\ None \notin Users
      /\ \A s \in Sockets : StageOf(s)
      /\ this \in Channels
  BY ChannelAssumption DEF IInv, TypeOK, Labels, Users, Goroutines
<1>2. u \in Members <=> u # None /\ \E s \in Sockets : subscribers[s] = u
  BY DEF Members, Seated
<1>3. u \in Members' <=> u # None /\ \E s \in Sockets : subscribers'[s] = u
  BY DEF Members, Seated
<1>4. ASSUME subscribers[r] # None, pc[r] # "arriving", u \notin swapped
      PROVE  u \in told[r] <=> u \in Members
  BY <1>4 DEF IInv, AnnouncementsAddUp, Seated
<1>5. ASSUME UNCHANGED <<subscribers, told, swapped>>, pc[r] # "arriving" PROVE Told
  BY <1>2, <1>3, <1>4, <1>5
<1>6. ASSUME NEW s \in Sockets, Subscribe(s) PROVE Told
  <2>1. PICK user \in Labels :
          /\ subscribers' = [subscribers EXCEPT ![s] = user]
          /\ IF subscribers[s] # None THEN Reseat(s, user) ELSE Seat(s, user)
    BY <1>6 DEF Subscribe
  <2> DEFINE others == gather([subscribers EXCEPT ![s] = user], {s})
  <2>2. pc' = [pc EXCEPT ![s] = "arriving"]
    BY <1>6 DEF Subscribe
  <2>3. r # s /\ pc[r] # "arriving" /\ subscribers[r] # None /\ user \in Users
    BY <1>1, <2>1, <2>2 DEF Labels
  <2>4. CASE subscribers[s] # None
    <3>1. told' = told /\ u \notin swapped /\ (user = subscribers[s] \/ u \notin {subscribers[s], user})
      BY <2>1, <2>4 DEF Reseat
    <3> QED
      BY <1>1, <1>2, <1>3, <1>4, <2>1, <2>3, <3>1
  <2>5. CASE subscribers[s] = None /\ holds(subscribers, user)
    <3>1. told' = told /\ swapped' = swapped
      BY <2>1, <2>5 DEF Seat
    <3>2. \E q \in Sockets : subscribers[q] = user
      BY <2>5 DEF holds
    <3>3. u \in Members' <=> u \in Members
      BY <1>1, <1>2, <1>3, <2>1, <2>3, <2>5, <3>2
    <3> QED
      BY <1>4, <2>3, <3>1, <3>3
  <2>6. CASE subscribers[s] = None /\ ~holds(subscribers, user)
    <3>1. r \in others
      BY <1>1, <2>3 DEF gather
    <3>2. Announce("member_added", user, others) /\ swapped' = swapped
      BY <2>1, <2>6 DEF Seat
    <3>3. told'[r] = told[r] \union {user}
      BY <3>1, <3>2 DEF Announce, Shown, Said, Fresh
    <3>4. u \in Members' <=> u \in Members \/ u = user
      BY <1>1, <1>2, <1>3, <2>1, <2>3, <2>6
    <3> QED
      BY <1>4, <2>3, <3>2, <3>3, <3>4
  <2> QED
    BY <2>4, <2>5, <2>6
<1>7. ASSUME NEW s \in Sockets, Confirm(s) PROVE Told
  <2>1. /\ UNCHANGED <<subscribers, swapped>> /\ told' = [told EXCEPT ![s] = Members]
        /\ pc' = [pc EXCEPT ![s] = "confirming"]
    BY <1>7 DEF Confirm, Data
  <2>2. CASE r = s
    BY <1>1, <1>2, <1>3, <2>1, <2>2
  <2>3. CASE r # s
    BY <1>1, <1>2, <1>3, <1>4, <2>1, <2>3
  <2> QED
    BY <2>2, <2>3
<1>8. ASSUME NEW s \in Sockets, Undo(s) \/ Part(s) \/ (Close(s) /\ seat[s]) PROVE Told
  <2> DEFINE gone == subscribers[s]
             after == [subscribers EXCEPT ![s] = None]
  <2>1. Unsubscribe(s) /\ swapped' = swapped
    BY <1>8, Leaves DEF Undo, Part, Close
  <2>2. subscribers' = after
    BY <2>1 DEF Unsubscribe
  <2>3. r # s /\ subscribers[r] # None /\ pc[r] # "arriving"
    <3>1. r # s
      BY <1>1, <2>2
    <3> QED
      BY <1>1, <1>8, <2>2, <3>1, Leaves
  <2>4. CASE gone = None \/ holds(after, gone)
    <3>1. told' = told
      BY <2>1, <2>4 DEF Unsubscribe
    <3>2. u \in Members' <=> u \in Members
      BY <1>1, <1>2, <1>3, <2>2, <2>4 DEF holds
    <3> QED
      BY <1>4, <2>1, <2>3, <3>1, <3>2
  <2>5. CASE gone # None /\ ~holds(after, gone)
    <3>1. Announce("member_removed", gone, gather(after, {}))
      BY <2>1, <2>5 DEF Unsubscribe
    <3>2. r \in gather(after, {})
      BY <1>1, <2>3 DEF gather
    <3>3. told'[r] = told[r] \ {gone}
      BY <3>1, <3>2 DEF Announce, Shown, Said, Fresh
    <3>4. u \in Members' <=> u \in Members /\ u # gone
      BY <1>1, <1>2, <1>3, <2>2, <2>5 DEF holds
    <3> QED
      BY <1>4, <2>1, <2>3, <3>3, <3>4
  <2> QED
    BY <2>4, <2>5
<1>9. ASSUME NEW s \in Sockets,
             \/ SinkFails(s) \/ SubscribeRefused(s) \/ Answer(s) \/ Drop(s)
             \/ (Close(s) /\ ~seat[s])
      PROVE  UNCHANGED <<subscribers, told, swapped>> /\ (pc'[r] # "arriving" => pc[r] # "arriving")
  BY <1>1, <1>9 DEF SinkFails, SubscribeRefused, Asks, Answer, Drop, Close
<1>10. ASSUME NEW g \in Goroutines, NEW socket \in Sockets \union {None}, Sends(g, socket) \/ Sent(g)
       PROVE  UNCHANGED <<subscribers, told, swapped>> /\ (pc'[r] # "arriving" => pc[r] # "arriving")
  BY <1>1, <1>10 DEF Sends, send, Sent
<1>11. ASSUME NEW g \in Goroutines, NEW q \in Sockets, Emit(g, q)
       PROVE  UNCHANGED <<subscribers, told, swapped, pc>>
  BY <1>11 DEF Emit
<1>12. CASE UNCHANGED vars
  BY <1>5, <1>12 DEF vars
<1> QED
  BY <1>1, <1>5, <1>6, <1>7, <1>8, <1>9, <1>10, <1>11, <1>12, StepCases

\* No removal of a person is on its way to a socket of theirs.
LEMMA RemovalsStep == IInv /\ [Next]_vars => RemovalsApart'
<1> SUFFICES ASSUME IInv, [Next]_vars, NEW h \in Goroutines, NEW r \in Sockets,
                    NEW user \in Users, OnlyAs(r, user)
             PROVE  ~Waits(job'[h], Said("member_removed", user), r)
  BY DEF RemovalsApart, Goroutines, Users, OnlyAs
<1> DEFINE f == Said("member_removed", user)
<1>1. ~Waits(job[h], f, r) /\ this \in Channels
  BY DEF IInv, RemovalsApart, TypeOK
<1>2. f.event = "member_removed" /\ f.data = user
  BY DEF Said
<1> HIDE DEF f
<1>3. ASSUME NEW s \in Sockets, Subscribe(s) PROVE ~Waits(job'[h], f, r)
  BY <1>1, <1>2, <1>3, SubscribeJob
<1>4. ASSUME NEW s \in Sockets, Undo(s) \/ Part(s) \/ (Close(s) /\ seat[s])
      PROVE  ~Waits(job'[h], f, r)
  <2>1. job[s] = <<>> /\ Unsubscribe(s)
    BY <1>4, Leaves
  <2>2. \A x : Said("member_removed", x).data = x
    BY DEF Said
  <2>3. \A g \in Goroutines \ {s} : job'[g] = job[g]
    BY <2>1, UnsubscribeJob
  <2>4. Waits(job'[s], f, r) =>
          f = Said("member_removed", subscribers[s]) /\ ~OnlyAs(r, subscribers[s])
    BY <2>1, UnsubscribeJob
  <2>5. ~Waits(job'[s], f, r)
    BY <1>2, <2>2, <2>4
  <2> QED
    BY <1>1, <2>3, <2>5
<1>5. ASSUME NEW g \in Goroutines, NEW socket \in Sockets \union {None}, Sends(g, socket)
      PROVE  ~Waits(job'[h], f, r)
  <2>1. \A k \in Goroutines \ {g} : job'[k] = job[k]
    BY <1>5, SendJob
  <2>2. ~Waits(job'[g], f, r)
    <3>1. Said("event", EventOf(socket)).event = "event"
      BY DEF Said
    <3>2. Waits(job'[g], f, r) => f = Said("event", EventOf(socket))
      BY <1>5, SendWaits
    <3> QED
      BY <1>2, <3>1, <3>2
  <2> QED
    BY <1>1, <2>1, <2>2
<1>6. ASSUME NEW g \in Goroutines, NEW q \in Sockets, Emit(g, q) PROVE ~Waits(job'[h], f, r)
  BY <1>1, <1>6, EmitJob
<1>7. ASSUME NEW s \in Sockets,
             \/ SinkFails(s) \/ SubscribeRefused(s) \/ Confirm(s) \/ Answer(s) \/ Drop(s)
             \/ (Close(s) /\ ~seat[s])
      PROVE  job' = job
  BY <1>7 DEF SinkFails, SubscribeRefused, Confirm, Answer, Drop, Close
<1>8. ASSUME NEW g \in Goroutines, Sent(g) PROVE job' = job
  BY <1>8 DEF Sent
<1>9. CASE UNCHANGED vars
  BY <1>1, <1>9 DEF vars, f
<1> QED
  BY <1>1, <1>3, <1>4, <1>5, <1>6, <1>7, <1>8, <1>9, StepCases DEF f

\* A subscriber stays in its own member list, read or shown.
LEMMA OwnStep == IInv /\ [Next]_vars => \A r \in Sockets : OwnOf(r)'
<1> SUFFICES ASSUME IInv, [Next]_vars, this.presence, NEW r \in Sockets,
                    NEW user \in Users, OnlyAs(r, user)
             PROVE  /\ pc'[r] = "confirming" => user \in list'[r]
                    /\ view'[r].subscribed => user \in view'[r].members
  BY Constant DEF OwnOf, IInv, TypeOK, Users, OnlyAs
<1>1. /\ view \in [Sockets -> Views]
      /\ pc \in [Goroutines -> Stages] /\ r \in Goroutines
      /\ list \in [Sockets -> SUBSET Users]
      /\ subscribers \in [Sockets -> Labels \union {None}]
      /\ this \in Channels
      /\ pc[r] = "confirming" => user \in list[r]
      /\ view[r].subscribed => user \in view[r].members
      /\ StageOf(r)
  BY DEF IInv, TypeOK, Views, Goroutines, OwnOf, StageOf
<1>2. pc'[r] = "confirming" => user \in list'[r]
  <2>1. ASSUME pc'[r] = pc[r] \/ pc'[r] # "confirming", list'[r] = list[r]
        PROVE  pc'[r] = "confirming" => user \in list'[r]
    BY <1>1, <2>1
  <2>2. ASSUME NEW s \in Sockets, Confirm(s)
        PROVE  pc'[r] = "confirming" => user \in list'[r]
    <3>1. s = r => subscribers[r] # None /\ subscribers[r] \in Offers[r] \ {NoMember}
      BY <1>1, <2>2 DEF Confirm, StageOf
    <3>2. s = r => user \in Members
      BY <3>1 DEF OnlyAs, Members, Seated
    <3> QED
      BY <1>1, <2>2, <3>2 DEF Confirm, Data
  <2>3. ASSUME NEW s \in Sockets,
               \/ SinkFails(s) \/ Subscribe(s) \/ SubscribeRefused(s) \/ Undo(s)
               \/ Part(s) \/ Close(s) \/ Drop(s)
        PROVE  list' = list /\ (pc'[r] = pc[r] \/ pc'[r] # "confirming")
    BY <1>1, <2>3 DEF SinkFails, Subscribe, SubscribeRefused, Undo, Part, Close, Drop
  <2>4. ASSUME NEW s \in Sockets, Answer(s)
        PROVE  (s # r => list'[r] = list[r] /\ pc'[r] = pc[r]) /\ (s = r => pc'[r] = "idle")
    BY <1>1, <2>4 DEF Answer
  <2>5. ASSUME NEW g \in Goroutines, NEW socket \in Sockets \union {None}, Sends(g, socket) \/ Sent(g)
        PROVE  list' = list /\ (pc'[r] = pc[r] \/ pc'[r] # "confirming")
    BY <1>1, <2>5 DEF Sends, send, Sent
  <2>6. ASSUME NEW g \in Goroutines, NEW q \in Sockets, Emit(g, q) PROVE UNCHANGED <<list, pc>>
    BY <2>6 DEF Emit
  <2>7. CASE UNCHANGED vars
    BY <1>1, <2>7 DEF vars
  <2> QED
    BY <1>1, <2>1, <2>2, <2>3, <2>4, <2>5, <2>6, <2>7, StepCases
<1>3. ASSUME view'[r].subscribed PROVE user \in view'[r].members
  <2>1. CASE view'[r] = view[r]
    BY <1>1, <1>3, <2>1
  <2>2. CASE view'[r] = Fresh
    BY <1>3, <2>2 DEF Fresh
  <2>3. CASE Answer(r) /\ view'[r] = [view[r] EXCEPT !.subscribed = TRUE, !.members = list[r]]
    <3>1. pc[r] = "confirming"
      BY <2>3 DEF Answer
    <3> QED
      BY <1>1, <2>3, <3>1 DEF Views
  <2>4. ASSUME NEW g \in Goroutines, Emit(g, r), view'[r] = Shown(view[r], Head(job[g]).frame)
        PROVE  user \in view'[r].members
    <3>1. Head(job[g]).frame \in Frames /\ Waits(job[g], Head(job[g]).frame, r)
      BY <2>4, EmitJob
    <3>2. Head(job[g]).frame # Said("member_removed", user)
      BY <3>1 DEF IInv, RemovalsApart
    <3>3. view'[r].subscribed = view[r].subscribed
      BY <1>1, <2>4, <3>1, ShownType
    <3> QED
      BY <1>1, <1>3, <2>4, <3>1, <3>2, <3>3, ShownType
  <2> QED
    BY <2>1, <2>2, <2>3, <2>4, ViewStep
<1> QED
  BY <1>2, <1>3

\* A frame that waits goes on waiting until it is written to its socket.
LEMMA WaitsStep ==
    ASSUME IInv, [Next]_vars, NEW g \in Goroutines, NEW s \in Sockets, NEW f,
           Waits(job[g], f, s)
    PROVE  Waits(job'[g], f, s) \/ (Emit(g, s) /\ f = Head(job[g]).frame)
<1>1. this \in Channels /\ job[g] # <<>>
  BY EmptyWaits DEF IInv, TypeOK
<1>2. ASSUME NEW r \in Sockets, Subscribe(r) PROVE job'[g] = job[g]
  BY <1>1, <1>2, SubscribeJob
<1>3. ASSUME NEW r \in Sockets, Undo(r) \/ Part(r) \/ (Close(r) /\ seat[r]) PROVE job'[g] = job[g]
  BY <1>1, <1>3, Leaves, UnsubscribeJob
<1>4. ASSUME NEW h \in Goroutines, NEW socket \in Sockets \union {None}, Sends(h, socket)
      PROVE  job'[g] = job[g]
  BY <1>1, <1>4, SendJob
<1>5. ASSUME NEW h \in Goroutines, NEW r \in Sockets, Emit(h, r)
      PROVE  Waits(job'[g], f, s) \/ (h = g /\ r = s /\ f = Head(job[g]).frame)
  <2>1. CASE h = g
    <3>1. \A k, x : Waits(job[g], k, x) =>
                      Waits(job'[g], k, x) \/ (k = Head(job[g]).frame /\ x = r)
      BY <1>5, <2>1, EmitJob
    <3> QED
      BY <2>1, <3>1
  <2>2. CASE h # g
    <3>1. job'[g] = job[g]
      BY <1>5, <2>2, EmitJob
    <3> QED
      BY <3>1
  <2> QED
    BY <2>1, <2>2
<1>6. ASSUME NEW r \in Sockets,
             \/ SinkFails(r) \/ SubscribeRefused(r) \/ Confirm(r) \/ Answer(r) \/ Drop(r)
             \/ (Close(r) /\ ~seat[r])
      PROVE  job' = job
  BY <1>6 DEF SinkFails, SubscribeRefused, Confirm, Answer, Drop, Close
<1>7. ASSUME NEW h \in Goroutines, Sent(h) PROVE job' = job
  BY <1>7 DEF Sent
<1>8. CASE UNCHANGED vars
  BY <1>8 DEF vars
<1> QED
  BY <1>1, <1>2, <1>3, <1>4, <1>5, <1>6, <1>7, <1>8, StepCases

\* Only an event changes the state, and a sink that takes frames always did.
LEMMA StateOnly ==
    ASSUME IInv, [Next]_vars
    PROVE  /\ \/ cached' = cached
              \/ \E g \in Goroutines, socket \in Sockets \union {None} : Sends(g, socket)
           /\ \A s \in Sockets : sink'[s] => sink[s]
<1>1. this \in Channels /\ sink \in [Sockets -> BOOLEAN]
  BY DEF IInv, TypeOK
<1>2. ASSUME NEW s \in Sockets,
             \/ SinkFails(s) \/ Subscribe(s) \/ SubscribeRefused(s) \/ Confirm(s) \/ Answer(s)
             \/ Undo(s) \/ Part(s) \/ Close(s) \/ Drop(s)
      PROVE  cached' = cached /\ (sink' = sink \/ sink' = [sink EXCEPT ![s] = FALSE])
  BY <1>2 DEF SinkFails, Subscribe, SubscribeRefused, Confirm, Answer, Undo, Part, Close, Drop
<1>3. ASSUME NEW g \in Goroutines, NEW socket \in Sockets \union {None}, Sends(g, socket)
      PROVE  sink' = sink
  BY <1>3 DEF Sends, send
<1>4. ASSUME NEW g \in Goroutines, Sent(g) PROVE cached' = cached /\ sink' = sink
  BY <1>4 DEF Sent
<1>5. ASSUME NEW g \in Goroutines, NEW r \in Sockets, Emit(g, r) PROVE cached' = cached /\ sink' = sink
  BY <1>5 DEF Emit
<1>6. UNCHANGED vars => cached' = cached /\ sink' = sink
  BY DEF vars
<1> QED
  BY <1>1, <1>2, <1>3, <1>4, <1>5, <1>6, StepCases

\* Whoever is on the channel or comes to it has the state, or has it coming.
LEMMA StateStep == IInv /\ [Next]_vars => StateReachesAll' /\ (cached' # None => this'.cache)
<1> SUFFICES ASSUME IInv, [Next]_vars
             PROVE  StateReachesAll' /\ (cached' # None => this'.cache)
  OBVIOUS
<1>1. /\ view \in [Sockets -> Views]
      /\ subscribers \in [Sockets -> Labels \union {None}]
      /\ cached \in Events \union {None}
      /\ sink \in [Sockets -> BOOLEAN]
      /\ this \in Channels /\ this' = this
      /\ cached # None => this.cache
      /\ Sockets \subseteq Goroutines
  BY Constant DEF IInv, TypeOK, Views, Goroutines
<1>2. ASSUME NEW s \in Sockets, subscribers[s] # None, cached # None, sink[s]
      PROVE  \/ cached \in view[s].seen
             \/ cached.socket = s
             \/ \E g \in Goroutines : Waits(job[g], Said("event", cached), s)
  BY <1>2 DEF IInv, StateReachesAll, Seated, OnItsWay, Waits
<1> DEFINE Reached(s) == \/ cached' \in view'[s].seen
                         \/ cached'.socket = s
                         \/ \E g \in Goroutines : Waits(job'[g], Said("event", cached'), s)
<1>3. ASSUME \A s \in Sockets : subscribers'[s] # None /\ cached' # None /\ sink'[s] => Reached(s)
      PROVE  StateReachesAll'
  BY <1>3 DEF StateReachesAll, Seated, OnItsWay, Waits, Goroutines
<1>4. ASSUME NEW g \in Goroutines, NEW socket \in Sockets \union {None}, Sends(g, socket),
             cached' = EventOf(socket), this.cache
      PROVE  StateReachesAll' /\ (cached' # None => this'.cache)
  <2>1. \A f, r : Waits(job'[g], f, r) <=>
              f = Said("event", EventOf(socket)) /\ r \in Seated /\ r # socket
    BY <1>4, SendWaits
  <2>2. subscribers' = subscribers /\ cached' = EventOf(socket) /\ cached'.socket = socket
    BY <1>4 DEF Sends, send, EventOf
  <2>3. ASSUME NEW s \in Sockets, subscribers'[s] # None PROVE Reached(s)
    <3>1. s = socket \/ Waits(job'[g], Said("event", EventOf(socket)), s)
      BY <2>1, <2>2, <2>3 DEF Seated
    <3> QED
      BY <2>2, <3>1
  <2> QED
    BY <1>1, <1>3, <1>4, <2>3
<1>5. CASE cached' = cached
  <2>1. ASSUME NEW s \in Sockets, subscribers'[s] # None, cached # None, sink'[s] PROVE Reached(s)
    <3>1. sink[s]
      BY <2>1, StateOnly
    <3>2. CASE subscribers[s] = None
      <4>1. Subscribe(s)
        BY <2>1, <3>2, JoinsOnly
      <4>2. Waits(job'[s], Said("event", cached), s)
        BY <2>1, <3>2, <4>1, SubscribeJob
      <4> QED
        BY <1>1, <1>5, <4>2
    <3>3. CASE subscribers[s] # None
      <4>1. ~Part(s) /\ ~Close(s)
        <5>1. pc[s] = "idle" => seat[s]
          BY <3>3 DEF IInv, StageOf
        <5> QED
          BY <1>1, <2>1, <5>1 DEF Part, Close, Unsubscribe
      <4>2. view[s].seen \subseteq view'[s].seen
        <5>1. CASE view'[s] = view[s]
          BY <5>1
        <5>2. CASE view'[s] = [view[s] EXCEPT !.subscribed = TRUE, !.members = list[s]]
          BY <1>1, <5>2 DEF Views
        <5>3. ASSUME NEW g \in Goroutines, Emit(g, s),
                     view'[s] = Shown(view[s], Head(job[g]).frame)
              PROVE  view[s].seen \subseteq view'[s].seen
          BY <1>1, <5>3, EmitJob, ShownType
        <5> QED
          BY <3>3, <4>1, <5>1, <5>2, <5>3, ViewStep
      <4>3. ASSUME NEW g \in Goroutines, Waits(job[g], Said("event", cached), s)
            PROVE  Reached(s)
        <5>1. CASE Waits(job'[g], Said("event", cached), s)
          BY <1>5, <5>1
        <5>2. CASE Emit(g, s) /\ Said("event", cached) = Head(job[g]).frame
          <6>1. view'[s] = Shown(view[s], Said("event", cached))
            BY <1>1, <3>1, <5>2 DEF Emit, Written
          <6>2. Said("event", cached) \in Frames
            BY <5>2, EmitJob
          <6>3. cached \in Shown(view[s], Said("event", cached)).seen
            <7>1. Said("event", cached).event = "event" /\ Said("event", cached).data = cached
              BY DEF Said
            <7> QED
              BY <1>1, <6>2, <7>1, ShownType
          <6> QED
            BY <1>5, <6>1, <6>3
        <5> QED
          BY <4>3, <5>1, <5>2, WaitsStep
      <4> QED
        BY <1>2, <1>5, <2>1, <3>1, <3>3, <4>2, <4>3
    <3> QED
      BY <3>2, <3>3
  <2> QED
    BY <1>1, <1>3, <1>5, <2>1
<1>6. ASSUME NEW g \in Goroutines, NEW socket \in Sockets \union {None}, Sends(g, socket)
      PROVE  cached' = cached \/ (cached' = EventOf(socket) /\ this.cache)
  BY <1>6 DEF Sends, send, Kept, EventOf
<1> QED
  BY <1>4, <1>5, <1>6, StateOnly

-----------------------------------------------------------------------------
(* The theorems                                                            *)

\* The invariant holds on a channel nobody has come to.
LEMMA InitIInv == Init => IInv
<1> SUFFICES ASSUME Init PROVE IInv
  OBVIOUS
<1> USE ChannelAssumption DEF Init
<1>1. this \in ChannelType
  OBVIOUS
<1>2. TypeOK
  <2>1. this.events \in Nat /\ this.joins \in Nat
    BY <1>1 DEF ChannelType
  <2>2. view \in [Sockets -> [subscribed : BOOLEAN, members : SUBSET Users,
                             last : Events \union {None}, seen : SUBSET Events]]
    BY DEF Fresh
  <2>3. \A g \in Goroutines : \A i \in DOMAIN job[g] : FALSE
    OBVIOUS
  <2>4. sent \in 0..this.events /\ joins \in [Sockets -> 0..this.joins]
    BY <2>1
  <2>5. pc \in [Goroutines -> Stages]
    BY DEF Stages
  <2>6. /\ subscribers \in [Sockets -> Labels \union {None}]
        /\ cached \in Events \union {None}
        /\ list \in [Sockets -> SUBSET Users]
        /\ told \in [Sockets -> SUBSET Users]
    OBVIOUS
  <2> QED
    BY <2>2, <2>3, <2>4, <2>5, <2>6 DEF TypeOK
<1>3. JobsOK /\ IdleOK
  BY DEF JobsOK, IdleOK
<1>4. ASSUME NEW s \in Sockets PROVE StageOf(s) /\ OwnOf(s)
  BY DEF StageOf, OwnOf, Fresh, Goroutines
<1>5. RemovalsApart
  BY EmptyWaits DEF RemovalsApart
<1>6. Seated = {} /\ AnnouncementsAddUp /\ StateReachesAll
  BY DEF Seated, AnnouncementsAddUp, StateReachesAll
<1> QED
  BY <1>2, <1>3, <1>4, <1>5, <1>6 DEF IInv

\* The invariant is inductive.
LEMMA Inductive == Spec => []IInv
<1>1. IInv /\ [Next]_vars => IInv'
  BY TypeStep, JobsStep, StageStep, DroppedStep, AddUpStep, RemovalsStep, OwnStep, StateStep
     DEF IInv
<1> QED
  BY InitIInv, <1>1, PTL DEF Spec

\* Types, and the members (channel.Subscribe, channel.Unsubscribe, join, part, Close):
\* the map and the protocol's record agree but for what a refused subscription leaves,
\* everybody is told of every arrival and departure but for a member changed without
\* leaving, and nobody who is one person is taken out of their own list, for any number
\* of tabs.
THEOREM MembersAreTold == Spec => []MembersTold
<1>1. IInv => MembersTold
  <2> SUFFICES ASSUME IInv PROVE MembersTold
    OBVIOUS
  <2>1. SeatIsSubscriber
    BY DEF IInv, SeatIsSubscriber, StageOf
  <2>2. OwnNameListed
    BY DEF IInv, OwnNameListed, OwnOf, Seated
  <2> QED
    BY <2>1, <2>2 DEF IInv, MembersTold
<1> QED
  BY <1>1, Inductive, PTL

\* On a cache channel every subscriber with a working sink has seen the current state,
\* or has it on the way as the replay or as the broadcast (send, Subscribe).
THEOREM StateReaches == Spec => []StateReachesAll
<1>1. IInv => StateReachesAll
  BY DEF IInv
<1> QED
  BY <1>1, Inductive, PTL

=============================================================================
