----------------------------- MODULE RelayProofs -----------------------------
(***************************************************************************)
(* Proofs about Relay, for any fleet, any channels and events and any      *)
(* bounds. An instance that hands an event to its sockets must be sure it  *)
(* has not done so before: the local broadcast, a value the broker has     *)
(* dropped whose goroutine still holds the message, and the instance's own *)
(* message coming back all compete for it. So the invariant follows every  *)
(* copy of an event that waits in an inbox, and says of each value the     *)
(* broker holds that an instance with a copy left has not handed it out.   *)
(***************************************************************************)
EXTENDS Relay, SequenceTheorems, TLAPS

-----------------------------------------------------------------------------
(* The inductive invariant                                                 *)

\* How the relay's entries and goroutines of an instance fit the broker's values.
WiringOf(i) ==
    /\ closed[i] = "open" => joined[i] = channels[i]
    /\ closed[i] # "open" => \A n \in Names : joined[i][n] = None
    /\ \A n \in Names : joined[i][n] # None =>
          /\ listener[i][joined[i][n]] # "none"
          /\ ~cancelled[i][joined[i][n]]
          /\ topic[i][joined[i][n]] = n
    /\ \A o \in Objects : listener[i][o] # "none" /\ ~cancelled[i][o] =>
          \E n \in Names : joined[i][n] = o

\* What the stage of a goroutine says of its subscription.
ListenerOf(i, o) ==
    /\ listener[i][o] = "none" => ~cancelled[i][o] /\ topic[i][o] = None
    /\ listener[i][o] # "none" => topic[i][o] \in Names
    /\ listener[i][o] # "live" => inbox[i][o] = <<>>

\* The stage of a publisher, and who may have broadcast the event by then.
StageOf(e) ==
    /\ stage[e] = "fresh" <=> event[e] = None
    /\ stage[e] = "fresh" => handed[e] = {}
    /\ stage[e] \in {"local", "publishing", "failed"} => handed[e] \subseteq {event[e].origin}

\* A message that is a copy of e as a relay encodes it.
Genuine(m, e) == m.event = e /\ m.origin # None /\ m.channel # None

\* A copy of e that waits at place k was published, says where and for which channel,
\* is the only one there, and its instance, unless it is the one that sent it, has
\* not handed e out as long as the value that listens is the one the broker holds.
CopyOf(i, o, k, e) ==
    Genuine(inbox[i][o][k], e) =>
        /\ stage[e] \in {"sent", "done"}
        /\ inbox[i][o][k].origin = event[e].origin
        /\ inbox[i][o][k].channel = event[e].channel
        /\ topic[i][o] = event[e].channel
        /\ \A l \in DOMAIN inbox[i][o] : Genuine(inbox[i][o][l], e) => l = k
        /\ channels[i][topic[i][o]] = o /\ event[e].origin # i => i \notin handed[e]

\* The inductive invariant.
IInv ==
    /\ TypeOK
    /\ \A i \in Instances : WiringOf(i)
    /\ \A i \in Instances, o \in Objects : ListenerOf(i, o)
    /\ ClosedIsQuiet
    /\ OnlyClosedLeaves
    /\ \A e \in Events : StageOf(e)
    /\ \A i \in Instances, o \in Objects : \A k \in DOMAIN inbox[i][o], e \in Events : CopyOf(i, o, k, e)

-----------------------------------------------------------------------------
(* The steps                                                               *)

\* Everything but who is on what, and what is about to be dropped.
aside == <<inbox, degraded, closed, busVars, eventVars, history>>

\* A subscription to a channel the instance relays already.
EnterHeld(s, n) ==
    /\ channels[Home[s]][n] # None
    /\ on' = [on EXCEPT ![s] = @ \union {n}]
    /\ UNCHANGED <<channels, dropping, joined, listenVars, aside>>

\* A subscription that has the channel o made, and joined.
EnterMade(s, n, o) ==
    LET i == Home[s] IN
    /\ closed[i] = "open"
    /\ channels[i][n] = None
    /\ joined[i][n] = None
    /\ Unused(i, o)
    /\ channels' = [channels EXCEPT ![i][n] = o]
    /\ joined' = [joined EXCEPT ![i][n] = o]
    /\ listener' = [listener EXCEPT ![i][o] = "subscribing"]
    /\ topic' = [topic EXCEPT ![i][o] = n]
    /\ on' = [on EXCEPT ![s] = @ \union {n}]
    /\ UNCHANGED <<dropping, cancelled, aside>>

\* A departure that finds others there.
RemoveKept(i, n) ==
    /\ Seated(i, n) # {}
    /\ dropping' = [dropping EXCEPT ![i] = @ \ {n}]
    /\ UNCHANGED <<channels, on, joined, listenVars, aside>>

\* A departure that drops a channel the relay does not know: it was closed.
RemoveBare(i, n) ==
    /\ joined[i][n] = None
    /\ dropping' = [dropping EXCEPT ![i] = @ \ {n}]
    /\ channels' = [channels EXCEPT ![i][n] = None]
    /\ UNCHANGED <<on, joined, listenVars, aside>>

\* A departure that drops a channel and ends its subscription.
RemoveLeft(i, n, o) ==
    /\ joined[i][n] = o
    /\ dropping' = [dropping EXCEPT ![i] = @ \ {n}]
    /\ channels' = [channels EXCEPT ![i][n] = None]
    /\ joined' = [joined EXCEPT ![i][n] = None]
    /\ cancelled' = [cancelled EXCEPT ![i][o] = TRUE]
    /\ UNCHANGED <<on, listener, topic, aside>>

\* Writing back what is there changes nothing.
LEMMA SameAgain ==
    ASSUME NEW A, NEW B, NEW C, NEW f \in [A -> [B -> C]], NEW x \in A, NEW y \in B
    PROVE  [f EXCEPT ![x][y] = f[x][y]] = f
OBVIOUS

\* Relay.Join finds the topic joined exactly when the broker had the channel.
LEMMA EnterCases ==
    ASSUME IInv, NEW s \in Sockets, NEW n \in Names, Enter(s, n)
    PROVE  EnterHeld(s, n) \/ \E o \in Objects : EnterMade(s, n, o)
<1> DEFINE i == Home[s]
<1>1. i \in Instances /\ closed[i] = "open" /\ joined[i] = channels[i]
  BY RelayAssumption DEF Enter, IInv, WiringOf
<1>2. PICK o \in Objects :
        /\ IF channels[i][n] = None THEN Unused(i, o) ELSE channels[i][n] = o
        /\ channels' = [channels EXCEPT ![i][n] = o]
        /\ Join(i, n, o)
  BY DEF Enter
<1>3. o # None
  BY RelayAssumption
<1>4. CASE channels[i][n] # None
  <2>1. channels' = channels
    BY <1>1, <1>2, <1>4 DEF IInv, TypeOK
  <2>2. UNCHANGED <<joined, listenVars, inbox>>
    BY <1>1, <1>2, <1>4 DEF Join
  <2> QED
    BY <1>4, <2>1, <2>2 DEF Enter, EnterHeld, aside
<1>5. CASE channels[i][n] = None
  <2>1. Unused(i, o) /\ joined[i][n] = None
    BY <1>1, <1>2, <1>5
  <2>2. listener[i][o] = "none" /\ ~cancelled[i][o] /\ inbox[i][o] = <<>>
    BY <1>1, <2>1 DEF Unused, IInv, ListenerOf
  <2>3. cancelled' = cancelled
    <3>1. cancelled \in [Instances -> [Objects -> BOOLEAN]]
      BY DEF IInv, TypeOK
    <3>2. cancelled[i][o] = FALSE
      BY <1>1, <2>2, <3>1
    <3>3. cancelled' = [cancelled EXCEPT ![i][o] = cancelled[i][o]]
      BY <1>2, <2>1, <3>2 DEF Join
    <3> QED
      BY <1>1, <3>1, <3>3, SameAgain
  <2>4. inbox' = inbox
    <3>1. inbox \in [Instances -> [Objects -> Seq(Message)]]
      BY DEF IInv, TypeOK
    <3>2. inbox' = [inbox EXCEPT ![i][o] = inbox[i][o]]
      BY <1>2, <2>1, <2>2 DEF Join
    <3> DEFINE Boxes == Seq(Message)
    <3> HIDE DEF i, Boxes
    <3>3. inbox \in [Instances -> [Objects -> Boxes]]
      BY <3>1 DEF Boxes
    <3> QED
      BY <1>1, <3>2, <3>3, SameAgain
  <2> QED
    BY <1>1, <1>2, <1>5, <2>1, <2>3, <2>4 DEF Enter, EnterMade, Join, aside
<1> QED
  BY <1>4, <1>5

\* relayedBroker.Remove keeps the channel, or drops it with the subscription it has.
LEMMA RemoveCases ==
    ASSUME IInv, NEW i \in Instances, NEW n \in Names, Remove(i, n)
    PROVE  RemoveKept(i, n) \/ RemoveBare(i, n) \/ \E o \in Objects : RemoveLeft(i, n, o)
<1>1. joined \in [Instances -> [Names -> Maybe]] /\ joined[i][n] \in Objects \union {None}
  BY DEF IInv, TypeOK, Maybe
<1>2. CASE Seated(i, n) # {}
  BY <1>2 DEF Remove, RemoveKept, aside, listenVars
<1>3. CASE Seated(i, n) = {} /\ joined[i][n] = None
  <2>1. joined' = [joined EXCEPT ![i][n] = joined[i][n]] /\ cancelled' = cancelled
    BY <1>3 DEF Remove, Leave
  <2>2. joined' = joined
    BY <1>1, <2>1, SameAgain
  <2> QED
    BY <1>3, <2>1, <2>2 DEF Remove, RemoveBare, aside, listenVars
<1>4. CASE Seated(i, n) = {} /\ joined[i][n] # None
  <2>1. joined[i][n] \in Objects
    BY <1>1, <1>4
  <2>2. RemoveLeft(i, n, joined[i][n])
    BY <1>4 DEF Remove, Leave, RemoveLeft, aside
  <2> QED
    BY <2>1, <2>2
<1> QED
  BY <1>2, <1>3, <1>4

\* A step is one of the operations, with its parameters of their types.
LEMMA StepCases ==
    ASSUME IInv, [Next]_vars
    PROVE  \/ \E s \in Sockets, n \in Names :
                \/ EnterHeld(s, n) \/ EnterRefused(s, n) \/ Exit(s, n)
                \/ \E o \in Objects : EnterMade(s, n, o)
           \/ \E i \in Instances, n \in Names :
                \/ RemoveKept(i, n) \/ RemoveBare(i, n)
                \/ \E o \in Objects : RemoveLeft(i, n, o)
           \/ \E i \in Instances, e \in Events : PublishLocal(e, i)
           \/ \E e \in Events :
                \/ Carry(e) \/ BusPublish(e) \/ BusRefuses(e)
                \/ PublishRecovered(e) \/ PublishFails(e)
           \/ \E i \in Instances, o \in Objects :
                \/ Subscribed(i, o) \/ SubscriptionLost(i, o) \/ Retry(i, o)
                \/ Cancelled(i, o) \/ Deliver(i, o)
           \/ \E i \in Instances : Close(i) \/ CloseReturns(i) \/ CloseGivesUp(i)
           \/ BusDown
           \/ BusUp
           \/ \E n \in Names : Stray(n)
           \/ UNCHANGED vars
<1>1. bound.sockets \subseteq Sockets /\ bound.entries \subseteq Instances
  BY RelayAssumption DEF IInv, TypeOK, Bound
<1> QED
  BY <1>1, EnterCases, RemoveCases DEF Next, Publisher, Listener

\* What the bus hands over keeps its type.
LEMMA ToTopicType ==
    ASSUME inbox \in [Instances -> [Objects -> Seq(Message)]], NEW n, NEW m \in Message, ToTopic(n, m)
    PROVE  inbox' \in [Instances -> [Objects -> Seq(Message)]]
<1>1. \A q \in Seq(Message) : Append(q, m) \in Seq(Message)
  OBVIOUS
<1> QED
  BY <1>1 DEF ToTopic

\* What no relay sent is a message all the same, and a copy of nothing.
LEMMA StrayType ==
    ASSUME event \in [Events -> Published \union {None}], NEW n \in Names, NEW m \in StrayMessages(n)
    PROVE  m \in Message /\ \A e \in Events : ~Genuine(m, e)
<1>1. \A e \in Events : event[e] # None => event[e].origin \in Instances
  BY DEF Published
<1>2. None \notin Events
  BY RelayAssumption
<1> QED
  BY <1>1, <1>2 DEF StrayMessages, Message, Genuine

\* What a publisher sends is a copy of its event.
LEMMA CopyType ==
    ASSUME IInv, NEW e \in Events, stage[e] # "fresh"
    PROVE  /\ event[e] \in Published
           /\ event[e].origin \in Instances /\ event[e].origin # None
           /\ event[e].channel \in Names /\ event[e].channel # None
           /\ [event |-> e, origin |-> event[e].origin, channel |-> event[e].channel] \in Message
<1>1. event[e] \in Published
  BY DEF IInv, TypeOK, StageOf
<1> QED
  BY <1>1, RelayAssumption DEF Published, Message

\* Every variable keeps its type.
LEMMA TypeStep == IInv /\ [Next]_vars => TypeOK'
<1> SUFFICES ASSUME IInv, [Next]_vars PROVE TypeOK'
  OBVIOUS
<1>0. TypeOK
  BY DEF IInv
<1> USE RelayAssumption DEF chanVars, listenVars, busVars, eventVars, history, aside, Maybe, Listening, Closings, Stages
<1>1. ASSUME NEW s \in Sockets, NEW n \in Names, EnterHeld(s, n) PROVE TypeOK'
  BY <1>0, <1>1 DEF TypeOK, EnterHeld
<1>2. ASSUME NEW s \in Sockets, NEW n \in Names, EnterRefused(s, n) PROVE TypeOK'
  BY <1>0, <1>2 DEF TypeOK, EnterRefused
<1>3. ASSUME NEW s \in Sockets, NEW n \in Names, Exit(s, n) PROVE TypeOK'
  BY <1>0, <1>3 DEF TypeOK, Exit
<1>4. ASSUME NEW s \in Sockets, NEW n \in Names, NEW o \in Objects, EnterMade(s, n, o) PROVE TypeOK'
  BY <1>0, <1>4 DEF TypeOK, EnterMade
<1>5. ASSUME NEW i \in Instances, NEW n \in Names, RemoveKept(i, n) PROVE TypeOK'
  BY <1>0, <1>5 DEF TypeOK, RemoveKept
<1>6. ASSUME NEW i \in Instances, NEW n \in Names, RemoveBare(i, n) PROVE TypeOK'
  BY <1>0, <1>6 DEF TypeOK, RemoveBare
<1>7. ASSUME NEW i \in Instances, NEW n \in Names, NEW o \in Objects, RemoveLeft(i, n, o) PROVE TypeOK'
  BY <1>0, <1>7 DEF TypeOK, RemoveLeft
<1>8. ASSUME NEW i \in Instances, NEW e \in Events, PublishLocal(e, i) PROVE TypeOK'
  <2>1. event' \in [Events -> Published \union {None}]
    BY <1>0, <1>8 DEF TypeOK, PublishLocal, Published
  <2>2. got' \in [Sockets -> SUBSET Events] /\ handed' \in [Events -> SUBSET Instances]
    BY <1>0, <1>8 DEF TypeOK, PublishLocal
  <2> QED
    BY <1>0, <1>8, <2>1, <2>2 DEF TypeOK, PublishLocal
<1>9. ASSUME NEW e \in Events, Carry(e) PROVE TypeOK'
  BY <1>0, <1>9 DEF TypeOK, Carry
<1>10. ASSUME NEW e \in Events, BusPublish(e) PROVE TypeOK'
  <2>1. inbox' \in [Instances -> [Objects -> Seq(Message)]]
    BY <1>0, <1>10, CopyType, ToTopicType DEF TypeOK, BusPublish
  <2> QED
    BY <1>0, <1>10, <2>1 DEF TypeOK, BusPublish
<1>11. ASSUME NEW e \in Events, BusRefuses(e) PROVE TypeOK'
  BY <1>0, <1>11 DEF TypeOK, BusRefuses
<1>12. ASSUME NEW e \in Events, PublishRecovered(e) PROVE TypeOK'
  BY <1>0, <1>12 DEF TypeOK, PublishRecovered
<1>13. ASSUME NEW e \in Events, PublishFails(e) PROVE TypeOK'
  BY <1>0, <1>13 DEF TypeOK, PublishFails
<1>14. ASSUME NEW i \in Instances, NEW o \in Objects, Subscribed(i, o) PROVE TypeOK'
  BY <1>0, <1>14 DEF TypeOK, Subscribed
<1>15. ASSUME NEW i \in Instances, NEW o \in Objects, SubscriptionLost(i, o) PROVE TypeOK'
  BY <1>0, <1>15 DEF TypeOK, SubscriptionLost
<1>16. ASSUME NEW i \in Instances, NEW o \in Objects, Retry(i, o) PROVE TypeOK'
  BY <1>0, <1>16 DEF TypeOK, Retry
<1>17. ASSUME NEW i \in Instances, NEW o \in Objects, Cancelled(i, o) PROVE TypeOK'
  BY <1>0, <1>17 DEF TypeOK, Cancelled, Ends
<1>18. ASSUME NEW i \in Instances, NEW o \in Objects, Deliver(i, o) PROVE TypeOK'
  <2> DEFINE m == Head(inbox[i][o])
  <2>1. inbox[i][o] \in Seq(Message) /\ inbox[i][o] # <<>>
    BY <1>0, <1>18 DEF TypeOK, Deliver
  <2>2. m \in Message /\ Tail(inbox[i][o]) \in Seq(Message)
    BY <2>1
  <2>3. inbox' \in [Instances -> [Objects -> Seq(Message)]]
    BY <1>0, <1>18, <2>2 DEF TypeOK, Deliver
  <2>4. CASE UNCHANGED history
    BY <1>0, <1>18, <2>3, <2>4 DEF TypeOK, Deliver
  <2>5. CASE Accepts(i, o, m) /\ Broadcast(i, topic[i][o], o, m.event, event[m.event].socket)
    <3>1. m.event \in Events
      BY <2>2, <2>5 DEF Accepts, Message
    <3> HIDE DEF m
    <3>2. /\ handed \in [Events -> SUBSET Instances]
          /\ got \in [Sockets -> SUBSET Events]
      BY <1>0 DEF TypeOK
    <3>3. handed' \in [Events -> SUBSET Instances]
      BY <2>5, <3>1, <3>2 DEF Broadcast
    <3>4. got' \in [Sockets -> SUBSET Events]
      BY <2>5, <3>1, <3>2 DEF Broadcast
    <3> QED
      BY <1>0, <1>18, <2>3, <3>3, <3>4 DEF TypeOK, Deliver
  <2> QED
    BY <1>18, <2>4, <2>5 DEF Deliver
<1>19. ASSUME NEW i \in Instances, Close(i) PROVE TypeOK'
  BY <1>0, <1>19 DEF TypeOK, Close
<1>20. ASSUME NEW i \in Instances, CloseReturns(i) PROVE TypeOK'
  BY <1>0, <1>20 DEF TypeOK, CloseReturns
<1>21. ASSUME NEW i \in Instances, CloseGivesUp(i) PROVE TypeOK'
  BY <1>0, <1>21 DEF TypeOK, CloseGivesUp
<1>22. CASE BusDown
  <2>1. outages' \in 0..bound.outages
    BY <1>0, <1>22 DEF TypeOK, BusDown, Bound
  <2> QED
    BY <1>0, <1>22, <2>1 DEF TypeOK, BusDown
<1>23. CASE BusUp
  BY <1>0, <1>23 DEF TypeOK, BusUp
<1>24. ASSUME NEW n \in Names, Stray(n) PROVE TypeOK'
  <2>1. inbox' \in [Instances -> [Objects -> Seq(Message)]]
    BY <1>0, <1>24, StrayType, ToTopicType DEF TypeOK, Stray
  <2>2. strays' \in 0..bound.strays
    BY <1>0, <1>24 DEF TypeOK, Stray, Bound
  <2> QED
    BY <1>0, <1>24, <2>1, <2>2 DEF TypeOK, Stray
<1>25. CASE UNCHANGED vars
  BY <1>0, <1>25 DEF TypeOK, vars
<1> HIDE DEF TypeOK
<1> QED
  BY <1>1, <1>2, <1>3, <1>4, <1>5, <1>6, <1>7, <1>8, <1>9, <1>10, <1>11, <1>12, <1>13,
     <1>14, <1>15, <1>16, <1>17, <1>18, <1>19, <1>20, <1>21, <1>22, <1>23, <1>24, <1>25,
     StepCases

\* The entries and goroutines of every instance go on fitting the broker's values.
LEMMA WiringStep == IInv /\ [Next]_vars => \A j \in Instances : WiringOf(j)'
<1> SUFFICES ASSUME IInv, [Next]_vars, NEW j \in Instances PROVE WiringOf(j)'
  OBVIOUS
<1>0. TypeOK /\ WiringOf(j) /\ \A o \in Objects : ListenerOf(j, o)
  BY DEF IInv
<1> USE RelayAssumption DEF chanVars, listenVars, busVars, eventVars, history, aside
<1>1. ASSUME NEW s \in Sockets, NEW n \in Names, EnterHeld(s, n) PROVE WiringOf(j)'
  BY <1>0, <1>1 DEF EnterHeld, WiringOf, TypeOK, Maybe
<1>2. ASSUME NEW s \in Sockets, NEW n \in Names, EnterRefused(s, n) PROVE WiringOf(j)'
  BY <1>0, <1>2 DEF EnterRefused, WiringOf, TypeOK, Maybe
<1>3. ASSUME NEW s \in Sockets, NEW n \in Names, Exit(s, n) PROVE WiringOf(j)'
  BY <1>0, <1>3 DEF Exit, WiringOf, TypeOK, Maybe
<1>4. ASSUME NEW s \in Sockets, NEW n \in Names, NEW o \in Objects, EnterMade(s, n, o)
      PROVE  WiringOf(j)'
  <2> DEFINE i == Home[s]
  <2>0. i \in Instances /\ o # None
    OBVIOUS
  <2>1. CASE j # i
    BY <1>0, <1>4, <2>0, <2>1 DEF EnterMade, WiringOf, TypeOK
  <2>2. CASE j = i
    <3>1. /\ closed'[j] = "open"
          /\ \A m \in Names : joined'[j][m] = IF m = n THEN o ELSE joined[j][m]
          /\ \A p \in Objects : listener'[j][p] = IF p = o THEN "subscribing" ELSE listener[j][p]
          /\ \A p \in Objects : topic'[j][p] = IF p = o THEN n ELSE topic[j][p]
          /\ cancelled' = cancelled
      BY <1>0, <1>4, <2>0, <2>2 DEF EnterMade, TypeOK
    <3>2. listener[j][o] = "none" /\ ~cancelled[j][o] /\ \A m \in Names : joined[j][m] # o
      BY <1>0, <1>4, <2>2 DEF EnterMade, Unused, ListenerOf
    <3>3. joined'[j] = channels'[j]
      BY <1>0, <1>4, <2>0, <2>2 DEF EnterMade, TypeOK, WiringOf
    <3>4. \A m \in Names : joined'[j][m] # None =>
             /\ listener'[j][joined'[j][m]] # "none"
             /\ ~cancelled'[j][joined'[j][m]]
             /\ topic'[j][joined'[j][m]] = m
      <4> SUFFICES ASSUME NEW m \in Names, joined'[j][m] # None
                   PROVE  /\ listener'[j][joined'[j][m]] # "none"
                          /\ ~cancelled'[j][joined'[j][m]]
                          /\ topic'[j][joined'[j][m]] = m
        OBVIOUS
      <4>1. CASE m = n
        BY <3>1, <3>2, <4>1
      <4>2. CASE m # n
        <5>1. joined'[j][m] = joined[j][m] /\ joined[j][m] \in Objects \ {o}
          BY <1>0, <3>1, <3>2, <4>2 DEF TypeOK, Maybe
        <5> QED
          BY <1>0, <3>1, <5>1 DEF WiringOf
      <4> QED
        BY <4>1, <4>2
    <3>5. \A p \in Objects : listener'[j][p] # "none" /\ ~cancelled'[j][p] =>
             \E m \in Names : joined'[j][m] = p
      <4> SUFFICES ASSUME NEW p \in Objects, listener'[j][p] # "none", ~cancelled'[j][p]
                   PROVE  \E m \in Names : joined'[j][m] = p
        OBVIOUS
      <4>1. CASE p = o
        BY <3>1, <4>1
      <4>2. CASE p # o
        <5>1. PICK m \in Names : joined[j][m] = p
          BY <1>0, <3>1, <4>2 DEF WiringOf
        <5>2. m # n
          BY <1>0, <1>4, <2>2, <5>1 DEF EnterMade
        <5> QED
          BY <3>1, <5>1, <5>2
      <4> QED
        BY <4>1, <4>2
    <3> QED
      BY <3>1, <3>3, <3>4, <3>5 DEF WiringOf
  <2> QED
    BY <2>1, <2>2
<1>5. ASSUME NEW i \in Instances, NEW n \in Names, RemoveKept(i, n) PROVE WiringOf(j)'
  BY <1>0, <1>5 DEF RemoveKept, WiringOf, TypeOK, Maybe
<1>6. ASSUME NEW i \in Instances, NEW n \in Names, RemoveBare(i, n) PROVE WiringOf(j)'
  BY <1>0, <1>6 DEF RemoveBare, WiringOf, TypeOK, Maybe
<1>7. ASSUME NEW i \in Instances, NEW n \in Names, NEW o \in Objects, RemoveLeft(i, n, o)
      PROVE  WiringOf(j)'
  <2>0. o # None
    OBVIOUS
  <2>1. CASE j # i
    BY <1>0, <1>7, <2>1 DEF RemoveLeft, WiringOf, TypeOK
  <2>2. CASE j = i
    <3>1. /\ closed' = closed
          /\ \A m \in Names : joined'[j][m] = IF m = n THEN None ELSE joined[j][m]
          /\ \A p \in Objects : cancelled'[j][p] = IF p = o THEN TRUE ELSE cancelled[j][p]
          /\ listener' = listener /\ topic' = topic
      <4>1. /\ joined' = [joined EXCEPT ![j][n] = None] /\ cancelled' = [cancelled EXCEPT ![j][o] = TRUE]
            /\ UNCHANGED <<closed, listener, topic>>
        BY <1>7, <2>2 DEF RemoveLeft
      <4>2. \A m \in Names : joined'[j][m] = IF m = n THEN None ELSE joined[j][m]
        BY <1>0, <4>1 DEF TypeOK
      <4>3. \A p \in Objects : cancelled'[j][p] = IF p = o THEN TRUE ELSE cancelled[j][p]
        <5>1. cancelled \in [Instances -> [Objects -> BOOLEAN]]
          BY <1>0 DEF TypeOK
        <5> QED
          BY ONLY <4>1, <5>1, j \in Instances, o \in Objects
      <4> QED
        BY <4>1, <4>2, <4>3
    <3>2. closed[j] = "open" => joined'[j] = channels'[j]
      BY <1>0, <1>7, <2>2 DEF RemoveLeft, TypeOK, WiringOf
    <3>3. joined[j][n] = o /\ \A m \in Names \ {n} : joined[j][m] # o
      BY <1>0, <1>7, <2>0, <2>2 DEF RemoveLeft, WiringOf
    <3>4. ASSUME NEW m \in Names, joined'[j][m] # None
          PROVE  /\ listener'[j][joined'[j][m]] # "none"
                 /\ ~cancelled'[j][joined'[j][m]]
                 /\ topic'[j][joined'[j][m]] = m
      <4>1. m # n /\ joined'[j][m] = joined[j][m] /\ joined[j][m] \in Objects \ {o}
        BY <1>0, <3>1, <3>3, <3>4 DEF TypeOK, Maybe
      <4> QED
        BY <1>0, <3>1, <3>4, <4>1 DEF WiringOf
    <3>5. ASSUME NEW p \in Objects, listener'[j][p] # "none", ~cancelled'[j][p]
          PROVE  \E m \in Names : joined'[j][m] = p
      <4>1. p # o /\ listener[j][p] # "none" /\ ~cancelled[j][p]
        BY <3>1, <3>5
      <4>2. PICK m \in Names : joined[j][m] = p
        BY <1>0, <4>1 DEF WiringOf
      <4> QED
        BY <3>1, <3>3, <4>1, <4>2
    <3> QED
      BY <1>0, <3>1, <3>2, <3>4, <3>5 DEF WiringOf
  <2> QED
    BY <2>1, <2>2
<1>8. ASSUME NEW i \in Instances, NEW e \in Events, PublishLocal(e, i) PROVE WiringOf(j)'
  BY <1>0, <1>8 DEF PublishLocal, WiringOf, TypeOK, Maybe
<1>9. ASSUME NEW e \in Events, Carry(e) PROVE WiringOf(j)'
  BY <1>0, <1>9 DEF Carry, WiringOf, TypeOK, Maybe
<1>10. ASSUME NEW e \in Events, BusPublish(e) PROVE WiringOf(j)'
  BY <1>0, <1>10 DEF BusPublish, WiringOf, TypeOK, Maybe
<1>11. ASSUME NEW e \in Events, BusRefuses(e) PROVE WiringOf(j)'
  BY <1>0, <1>11 DEF BusRefuses, WiringOf, TypeOK, Maybe
<1>12. ASSUME NEW e \in Events, PublishRecovered(e) PROVE WiringOf(j)'
  BY <1>0, <1>12 DEF PublishRecovered, WiringOf, TypeOK, Maybe
<1>13. ASSUME NEW e \in Events, PublishFails(e) PROVE WiringOf(j)'
  BY <1>0, <1>13 DEF PublishFails, WiringOf, TypeOK, Maybe
<1>14. ASSUME NEW i \in Instances, NEW o \in Objects, Subscribed(i, o) PROVE WiringOf(j)'
  BY <1>0, <1>14 DEF Subscribed, WiringOf, TypeOK, Maybe
<1>15. ASSUME NEW i \in Instances, NEW o \in Objects, SubscriptionLost(i, o) PROVE WiringOf(j)'
  BY <1>0, <1>15 DEF SubscriptionLost, WiringOf, TypeOK, Maybe
<1>16. ASSUME NEW i \in Instances, NEW o \in Objects, Retry(i, o) PROVE WiringOf(j)'
  BY <1>0, <1>16 DEF Retry, WiringOf, TypeOK, Maybe
<1>17. ASSUME NEW i \in Instances, NEW o \in Objects, Cancelled(i, o) PROVE WiringOf(j)'
  <2>1. CASE j # i
    BY <1>0, <1>17, <2>1 DEF Cancelled, Ends, WiringOf, TypeOK
  <2>2. CASE j = i
    <3>1. /\ UNCHANGED <<closed, joined, channels>>
          /\ \A p \in Objects \ {o} : /\ listener'[j][p] = listener[j][p]
                                      /\ cancelled'[j][p] = cancelled[j][p]
                                      /\ topic'[j][p] = topic[j][p]
          /\ listener'[j][o] = "none"
      BY <1>0, <1>17, <2>2 DEF Cancelled, Ends, TypeOK
    <3>2. \A m \in Names : joined[j][m] \in Objects \union {None} /\ joined[j][m] # o
      BY <1>0, <1>17, <2>2 DEF Cancelled, TypeOK, Maybe, WiringOf
    <3>3. \A m \in Names : joined'[j][m] # None =>
             /\ listener'[j][joined'[j][m]] # "none"
             /\ ~cancelled'[j][joined'[j][m]]
             /\ topic'[j][joined'[j][m]] = m
      BY <1>0, <3>1, <3>2 DEF WiringOf
    <3> QED
      BY <1>0, <3>1, <3>3 DEF WiringOf
  <2> QED
    BY <2>1, <2>2
<1>18. ASSUME NEW i \in Instances, NEW o \in Objects, Deliver(i, o) PROVE WiringOf(j)'
  BY <1>0, <1>18 DEF Deliver, WiringOf, TypeOK, Maybe
<1>19. ASSUME NEW i \in Instances, Close(i) PROVE WiringOf(j)'
  <2>1. CASE j # i
    BY <1>0, <1>19, <2>1 DEF Close, WiringOf, TypeOK, Maybe
  <2>2. CASE j = i
    <3>1. /\ closed'[j] = "closing" /\ \A n \in Names : joined'[j][n] = None
          /\ \A o \in Objects : cancelled'[j][o] = (listener[j][o] # "none")
          /\ listener' = listener
      BY <1>0, <1>19, <2>2 DEF Close, TypeOK
    <3> QED
      BY <3>1 DEF WiringOf
  <2> QED
    BY <2>1, <2>2
<1>20. ASSUME NEW i \in Instances, CloseReturns(i) PROVE WiringOf(j)'
  BY <1>0, <1>20 DEF CloseReturns, WiringOf, TypeOK, Maybe
<1>21. ASSUME NEW i \in Instances, CloseGivesUp(i) PROVE WiringOf(j)'
  BY <1>0, <1>21 DEF CloseGivesUp, WiringOf, TypeOK, Maybe
<1>22. CASE BusDown
  BY <1>0, <1>22 DEF BusDown, WiringOf, TypeOK, Maybe
<1>23. CASE BusUp
  BY <1>0, <1>23 DEF BusUp, WiringOf, TypeOK, Maybe
<1>24. ASSUME NEW n \in Names, Stray(n) PROVE WiringOf(j)'
  BY <1>0, <1>24 DEF Stray, WiringOf, TypeOK, Maybe
<1>25. CASE UNCHANGED vars
  BY <1>0, <1>25 DEF vars, WiringOf, TypeOK, Maybe
<1> HIDE DEF WiringOf, ListenerOf, TypeOK
<1> QED
  BY <1>1, <1>2, <1>3, <1>4, <1>5, <1>6, <1>7, <1>8, <1>9, <1>10, <1>11, <1>12, <1>13,
     <1>14, <1>15, <1>16, <1>17, <1>18, <1>19, <1>20, <1>21, <1>22, <1>23, <1>24, <1>25,
     StepCases

\* A goroutine's subscription goes on being what its stage says.
LEMMA ListenerStep ==
    IInv /\ [Next]_vars => \A j \in Instances, p \in Objects : ListenerOf(j, p)'
<1> SUFFICES ASSUME IInv, [Next]_vars, NEW j \in Instances, NEW p \in Objects PROVE ListenerOf(j, p)'
  OBVIOUS
<1>0. TypeOK /\ ListenerOf(j, p)
  BY DEF IInv
<1> USE RelayAssumption DEF chanVars, listenVars, busVars, eventVars, history, aside
<1>1. ASSUME NEW s \in Sockets, NEW n \in Names, EnterHeld(s, n) PROVE ListenerOf(j, p)'
  BY <1>0, <1>1 DEF EnterHeld, ListenerOf, TypeOK
<1>2. ASSUME NEW s \in Sockets, NEW n \in Names, EnterRefused(s, n) PROVE ListenerOf(j, p)'
  BY <1>0, <1>2 DEF EnterRefused, ListenerOf, TypeOK
<1>3. ASSUME NEW s \in Sockets, NEW n \in Names, Exit(s, n) PROVE ListenerOf(j, p)'
  BY <1>0, <1>3 DEF Exit, ListenerOf, TypeOK
<1>4. ASSUME NEW s \in Sockets, NEW n \in Names, NEW o \in Objects, EnterMade(s, n, o)
      PROVE  ListenerOf(j, p)'
  BY <1>0, <1>4 DEF EnterMade, Unused, ListenerOf, TypeOK
<1>5. ASSUME NEW i \in Instances, NEW n \in Names, RemoveKept(i, n) PROVE ListenerOf(j, p)'
  BY <1>0, <1>5 DEF RemoveKept, ListenerOf, TypeOK
<1>6. ASSUME NEW i \in Instances, NEW n \in Names, RemoveBare(i, n) PROVE ListenerOf(j, p)'
  BY <1>0, <1>6 DEF RemoveBare, ListenerOf, TypeOK
<1>7. ASSUME NEW i \in Instances, NEW n \in Names, NEW o \in Objects, RemoveLeft(i, n, o)
      PROVE  ListenerOf(j, p)'
  <2>1. listener[i][o] # "none"
    BY <1>7 DEF RemoveLeft, IInv, WiringOf
  <2>2. /\ j # i => cancelled'[j] = cancelled[j]
        /\ \A q \in Objects : cancelled'[i][q] = IF q = o THEN TRUE ELSE cancelled[i][q]
    <3>1. cancelled' = [cancelled EXCEPT ![i][o] = TRUE] /\ cancelled \in [Instances -> [Objects -> BOOLEAN]]
      BY <1>0, <1>7 DEF RemoveLeft, TypeOK
    <3> QED
      BY <3>1
  <2> QED
    BY <1>0, <1>7, <2>1, <2>2 DEF RemoveLeft, ListenerOf
<1>8. ASSUME NEW i \in Instances, NEW e \in Events, PublishLocal(e, i) PROVE ListenerOf(j, p)'
  BY <1>0, <1>8 DEF PublishLocal, ListenerOf, TypeOK
<1>9. ASSUME NEW e \in Events, Carry(e) PROVE ListenerOf(j, p)'
  BY <1>0, <1>9 DEF Carry, ListenerOf, TypeOK
<1>10. ASSUME NEW e \in Events, BusPublish(e) PROVE ListenerOf(j, p)'
  <2>1. listener[j][p] # "live" => inbox'[j][p] = inbox[j][p]
    BY <1>10 DEF BusPublish, ToTopic
  <2> QED
    BY <1>0, <1>10, <2>1 DEF BusPublish, ListenerOf
<1>11. ASSUME NEW e \in Events, BusRefuses(e) PROVE ListenerOf(j, p)'
  BY <1>0, <1>11 DEF BusRefuses, ListenerOf, TypeOK
<1>12. ASSUME NEW e \in Events, PublishRecovered(e) PROVE ListenerOf(j, p)'
  BY <1>0, <1>12 DEF PublishRecovered, ListenerOf, TypeOK
<1>13. ASSUME NEW e \in Events, PublishFails(e) PROVE ListenerOf(j, p)'
  BY <1>0, <1>13 DEF PublishFails, ListenerOf, TypeOK
<1>14. ASSUME NEW i \in Instances, NEW o \in Objects, Subscribed(i, o) PROVE ListenerOf(j, p)'
  BY <1>0, <1>14 DEF Subscribed, ListenerOf, TypeOK
<1>15. ASSUME NEW i \in Instances, NEW o \in Objects, SubscriptionLost(i, o)
       PROVE  ListenerOf(j, p)'
  BY <1>0, <1>15 DEF SubscriptionLost, ListenerOf, TypeOK
<1>16. ASSUME NEW i \in Instances, NEW o \in Objects, Retry(i, o) PROVE ListenerOf(j, p)'
  BY <1>0, <1>16 DEF Retry, ListenerOf, TypeOK
<1>17. ASSUME NEW i \in Instances, NEW o \in Objects, Cancelled(i, o) PROVE ListenerOf(j, p)'
  BY <1>0, <1>17 DEF Cancelled, Ends, ListenerOf, TypeOK
<1>18. ASSUME NEW i \in Instances, NEW o \in Objects, Deliver(i, o) PROVE ListenerOf(j, p)'
  <2>1. (j = i /\ p = o) \/ inbox'[j][p] = inbox[j][p]
    BY <1>0, <1>18 DEF Deliver, TypeOK
  <2> QED
    BY <1>0, <1>18, <2>1 DEF Deliver, ListenerOf
<1>19. ASSUME NEW i \in Instances, Close(i) PROVE ListenerOf(j, p)'
  BY <1>0, <1>19 DEF Close, ListenerOf, TypeOK
<1>20. ASSUME NEW i \in Instances, CloseReturns(i) PROVE ListenerOf(j, p)'
  BY <1>0, <1>20 DEF CloseReturns, ListenerOf, TypeOK
<1>21. ASSUME NEW i \in Instances, CloseGivesUp(i) PROVE ListenerOf(j, p)'
  BY <1>0, <1>21 DEF CloseGivesUp, ListenerOf, TypeOK
<1>22. CASE BusDown
  BY <1>0, <1>22 DEF BusDown, ListenerOf, TypeOK
<1>23. CASE BusUp
  BY <1>0, <1>23 DEF BusUp, ListenerOf, TypeOK
<1>24. ASSUME NEW n \in Names, Stray(n) PROVE ListenerOf(j, p)'
  <2>1. listener[j][p] # "live" => inbox'[j][p] = inbox[j][p]
    BY <1>24 DEF Stray, ToTopic
  <2> QED
    BY <1>0, <1>24, <2>1 DEF Stray, ListenerOf
<1>25. CASE UNCHANGED vars
  BY <1>0, <1>25 DEF vars, ListenerOf, TypeOK
<1> HIDE DEF ListenerOf, TypeOK
<1> QED
  BY <1>1, <1>2, <1>3, <1>4, <1>5, <1>6, <1>7, <1>8, <1>9, <1>10, <1>11, <1>12, <1>13,
     <1>14, <1>15, <1>16, <1>17, <1>18, <1>19, <1>20, <1>21, <1>22, <1>23, <1>24, <1>25,
     StepCases

\* A closed relay stays quiet: nothing but a join starts a goroutine, and a closed
\* relay refuses it.
LEMMA QuietStep == IInv /\ [Next]_vars => ClosedIsQuiet'
<1> SUFFICES ASSUME IInv, [Next]_vars, NEW j \in Instances, closed'[j] = "closed", NEW p \in Objects
             PROVE  listener'[j][p] = "none"
  BY DEF ClosedIsQuiet
<1>0. TypeOK /\ (closed[j] = "closed" => listener[j][p] = "none")
  BY DEF IInv, ClosedIsQuiet
<1> USE RelayAssumption DEF chanVars, listenVars, busVars, eventVars, history, aside
<1>1. ASSUME NEW s \in Sockets, NEW n \in Names, EnterHeld(s, n) PROVE listener'[j][p] = "none"
  BY <1>0, <1>1 DEF EnterHeld, TypeOK
<1>2. ASSUME NEW s \in Sockets, NEW n \in Names, EnterRefused(s, n) PROVE listener'[j][p] = "none"
  BY <1>0, <1>2 DEF EnterRefused, TypeOK
<1>3. ASSUME NEW s \in Sockets, NEW n \in Names, Exit(s, n) PROVE listener'[j][p] = "none"
  BY <1>0, <1>3 DEF Exit, TypeOK
<1>4. ASSUME NEW s \in Sockets, NEW n \in Names, NEW o \in Objects, EnterMade(s, n, o)
      PROVE  listener'[j][p] = "none"
  BY <1>0, <1>4 DEF EnterMade, TypeOK
<1>5. ASSUME NEW i \in Instances, NEW n \in Names, RemoveKept(i, n) PROVE listener'[j][p] = "none"
  BY <1>0, <1>5 DEF RemoveKept, TypeOK
<1>6. ASSUME NEW i \in Instances, NEW n \in Names, RemoveBare(i, n) PROVE listener'[j][p] = "none"
  BY <1>0, <1>6 DEF RemoveBare, TypeOK
<1>7. ASSUME NEW i \in Instances, NEW n \in Names, NEW o \in Objects, RemoveLeft(i, n, o)
      PROVE  listener'[j][p] = "none"
  BY <1>0, <1>7 DEF RemoveLeft, TypeOK
<1>8. ASSUME NEW i \in Instances, NEW e \in Events, PublishLocal(e, i)
      PROVE  listener'[j][p] = "none"
  BY <1>0, <1>8 DEF PublishLocal, TypeOK
<1>9. ASSUME NEW e \in Events, Carry(e) PROVE listener'[j][p] = "none"
  BY <1>0, <1>9 DEF Carry, TypeOK
<1>10. ASSUME NEW e \in Events, BusPublish(e) PROVE listener'[j][p] = "none"
  BY <1>0, <1>10 DEF BusPublish, TypeOK
<1>11. ASSUME NEW e \in Events, BusRefuses(e) PROVE listener'[j][p] = "none"
  BY <1>0, <1>11 DEF BusRefuses, TypeOK
<1>12. ASSUME NEW e \in Events, PublishRecovered(e) PROVE listener'[j][p] = "none"
  BY <1>0, <1>12 DEF PublishRecovered, TypeOK
<1>13. ASSUME NEW e \in Events, PublishFails(e) PROVE listener'[j][p] = "none"
  BY <1>0, <1>13 DEF PublishFails, TypeOK
<1>14. ASSUME NEW i \in Instances, NEW o \in Objects, Subscribed(i, o)
       PROVE  listener'[j][p] = "none"
  BY <1>0, <1>14 DEF Subscribed, TypeOK
<1>15. ASSUME NEW i \in Instances, NEW o \in Objects, SubscriptionLost(i, o)
       PROVE  listener'[j][p] = "none"
  BY <1>0, <1>15 DEF SubscriptionLost, TypeOK
<1>16. ASSUME NEW i \in Instances, NEW o \in Objects, Retry(i, o) PROVE listener'[j][p] = "none"
  BY <1>0, <1>16 DEF Retry, TypeOK
<1>17. ASSUME NEW i \in Instances, NEW o \in Objects, Cancelled(i, o)
       PROVE  listener'[j][p] = "none"
  BY <1>0, <1>17 DEF Cancelled, Ends, TypeOK
<1>18. ASSUME NEW i \in Instances, NEW o \in Objects, Deliver(i, o) PROVE listener'[j][p] = "none"
  BY <1>0, <1>18 DEF Deliver, TypeOK
<1>19. ASSUME NEW i \in Instances, Close(i) PROVE listener'[j][p] = "none"
  BY <1>0, <1>19 DEF Close, TypeOK
<1>20. ASSUME NEW i \in Instances, CloseReturns(i) PROVE listener'[j][p] = "none"
  BY <1>0, <1>20 DEF CloseReturns, TypeOK
<1>21. ASSUME NEW i \in Instances, CloseGivesUp(i) PROVE listener'[j][p] = "none"
  BY <1>0, <1>21 DEF CloseGivesUp, TypeOK
<1>22. CASE BusDown
  BY <1>0, <1>22 DEF BusDown, TypeOK
<1>23. CASE BusUp
  BY <1>0, <1>23 DEF BusUp, TypeOK
<1>24. ASSUME NEW n \in Names, Stray(n) PROVE listener'[j][p] = "none"
  BY <1>0, <1>24 DEF Stray, TypeOK
<1>25. CASE UNCHANGED vars
  BY <1>0, <1>25 DEF vars, TypeOK
<1> HIDE DEF TypeOK
<1> QED
  BY <1>1, <1>2, <1>3, <1>4, <1>5, <1>6, <1>7, <1>8, <1>9, <1>10, <1>11, <1>12, <1>13,
     <1>14, <1>15, <1>16, <1>17, <1>18, <1>19, <1>20, <1>21, <1>22, <1>23, <1>24, <1>25,
     StepCases

\* The sockets on a channel change only where one comes or goes.
LEMMA SeatedStep ==
    ASSUME UNCHANGED on, NEW j, NEW m PROVE Seated(j, m)' = Seated(j, m)
BY DEF Seated

\* An open relay goes on leaving no channel behind: the last socket to go is the
\* one that drops it.
LEMMA LeavesStep == IInv /\ [Next]_vars => OnlyClosedLeaves'
<1> SUFFICES ASSUME IInv, [Next]_vars, NEW j \in Instances, NEW m \in Names,
                    channels'[j][m] # None, Seated(j, m)' = {}, m \notin dropping'[j]
             PROVE  closed'[j] # "open"
  BY DEF OnlyClosedLeaves
<1>0. /\ TypeOK
      /\ channels[j][m] # None /\ Seated(j, m) = {} /\ m \notin dropping[j] => closed[j] # "open"
  BY DEF IInv, OnlyClosedLeaves
<1> USE RelayAssumption DEF chanVars, listenVars, busVars, eventVars, history, aside
<1>1. ASSUME NEW s \in Sockets, NEW n \in Names, EnterHeld(s, n) PROVE closed'[j] # "open"
  BY <1>0, <1>1 DEF EnterHeld, Seated, TypeOK
<1>2. ASSUME NEW s \in Sockets, NEW n \in Names, EnterRefused(s, n) PROVE closed'[j] # "open"
  BY <1>0, SeatedStep, <1>2 DEF EnterRefused, TypeOK
<1>3. ASSUME NEW s \in Sockets, NEW n \in Names, Exit(s, n) PROVE closed'[j] # "open"
  BY <1>0, <1>3 DEF Exit, Seated, TypeOK
<1>4. ASSUME NEW s \in Sockets, NEW n \in Names, NEW o \in Objects, EnterMade(s, n, o)
      PROVE  closed'[j] # "open"
  BY <1>0, <1>4 DEF EnterMade, Seated, TypeOK
<1>5. ASSUME NEW i \in Instances, NEW n \in Names, RemoveKept(i, n) PROVE closed'[j] # "open"
  BY <1>0, SeatedStep, <1>5 DEF RemoveKept, TypeOK
<1>6. ASSUME NEW i \in Instances, NEW n \in Names, RemoveBare(i, n) PROVE closed'[j] # "open"
  BY <1>0, SeatedStep, <1>6 DEF RemoveBare, TypeOK
<1>7. ASSUME NEW i \in Instances, NEW n \in Names, NEW o \in Objects, RemoveLeft(i, n, o)
      PROVE  closed'[j] # "open"
  BY <1>0, SeatedStep, <1>7 DEF RemoveLeft, TypeOK
<1>8. ASSUME NEW i \in Instances, NEW e \in Events, PublishLocal(e, i) PROVE closed'[j] # "open"
  BY <1>0, SeatedStep, <1>8 DEF PublishLocal, TypeOK
<1>9. ASSUME NEW e \in Events, Carry(e) PROVE closed'[j] # "open"
  BY <1>0, SeatedStep, <1>9 DEF Carry, TypeOK
<1>10. ASSUME NEW e \in Events, BusPublish(e) PROVE closed'[j] # "open"
  BY <1>0, SeatedStep, <1>10 DEF BusPublish, TypeOK
<1>11. ASSUME NEW e \in Events, BusRefuses(e) PROVE closed'[j] # "open"
  BY <1>0, SeatedStep, <1>11 DEF BusRefuses, TypeOK
<1>12. ASSUME NEW e \in Events, PublishRecovered(e) PROVE closed'[j] # "open"
  BY <1>0, SeatedStep, <1>12 DEF PublishRecovered, TypeOK
<1>13. ASSUME NEW e \in Events, PublishFails(e) PROVE closed'[j] # "open"
  BY <1>0, SeatedStep, <1>13 DEF PublishFails, TypeOK
<1>14. ASSUME NEW i \in Instances, NEW o \in Objects, Subscribed(i, o) PROVE closed'[j] # "open"
  BY <1>0, SeatedStep, <1>14 DEF Subscribed, TypeOK
<1>15. ASSUME NEW i \in Instances, NEW o \in Objects, SubscriptionLost(i, o)
       PROVE  closed'[j] # "open"
  BY <1>0, SeatedStep, <1>15 DEF SubscriptionLost, TypeOK
<1>16. ASSUME NEW i \in Instances, NEW o \in Objects, Retry(i, o) PROVE closed'[j] # "open"
  BY <1>0, SeatedStep, <1>16 DEF Retry, TypeOK
<1>17. ASSUME NEW i \in Instances, NEW o \in Objects, Cancelled(i, o) PROVE closed'[j] # "open"
  BY <1>0, SeatedStep, <1>17 DEF Cancelled, TypeOK
<1>18. ASSUME NEW i \in Instances, NEW o \in Objects, Deliver(i, o) PROVE closed'[j] # "open"
  BY <1>0, SeatedStep, <1>18 DEF Deliver, TypeOK
<1>19. ASSUME NEW i \in Instances, Close(i) PROVE closed'[j] # "open"
  BY <1>0, SeatedStep, <1>19 DEF Close, TypeOK
<1>20. ASSUME NEW i \in Instances, CloseReturns(i) PROVE closed'[j] # "open"
  BY <1>0, SeatedStep, <1>20 DEF CloseReturns, TypeOK
<1>21. ASSUME NEW i \in Instances, CloseGivesUp(i) PROVE closed'[j] # "open"
  BY <1>0, SeatedStep, <1>21 DEF CloseGivesUp, TypeOK
<1>22. CASE BusDown
  BY <1>0, SeatedStep, <1>22 DEF BusDown, TypeOK
<1>23. CASE BusUp
  BY <1>0, SeatedStep, <1>23 DEF BusUp, TypeOK
<1>24. ASSUME NEW n \in Names, Stray(n) PROVE closed'[j] # "open"
  BY <1>0, SeatedStep, <1>24 DEF Stray, TypeOK
<1>25. CASE UNCHANGED vars
  BY <1>0, SeatedStep, <1>25 DEF vars, TypeOK
<1> HIDE DEF TypeOK
<1> QED
  BY <1>1, <1>2, <1>3, <1>4, <1>5, <1>6, <1>7, <1>8, <1>9, <1>10, <1>11, <1>12, <1>13,
     <1>14, <1>15, <1>16, <1>17, <1>18, <1>19, <1>20, <1>21, <1>22, <1>23, <1>24, <1>25,
     StepCases

\* A broadcast of e for a message from the bus: the copy at the head of the inbox is
\* of another instance, for the channel the broker holds the value under, and this
\* instance has not handed e out.
Handing(i, o, e) ==
    /\ Genuine(inbox[i][o][1], e)
    /\ event[e] \in Published
    /\ event[e].origin # i
    /\ stage[e] \in {"sent", "done"}
    /\ topic[i][o] = event[e].channel
    /\ channels[i][event[e].channel] = o
    /\ i \notin handed[e]
    /\ handed' = [handed EXCEPT ![e] = @ \union {i}]
    /\ got' = [s \in Sockets |->
            IF s \in Seated(i, event[e].channel) \ {event[e].socket} THEN got[s] \union {e} ELSE got[s]]

\* deliver hands out an event the instance has not handed out, or nothing.
LEMMA DeliverCases ==
    ASSUME IInv, NEW i \in Instances, NEW o \in Objects, Deliver(i, o)
    PROVE  UNCHANGED history \/ \E e \in Events : Handing(i, o, e)
<1> DEFINE m == Head(inbox[i][o])
<1>1. inbox[i][o] \in Seq(Message) /\ inbox[i][o] # <<>>
  BY DEF Deliver, IInv, TypeOK
<1>2. m \in Message /\ m = inbox[i][o][1] /\ 1 \in DOMAIN inbox[i][o]
  BY <1>1
<1> HIDE DEF m
<1>3. SUFFICES ASSUME ~UNCHANGED history
               PROVE  \E e \in Events : Handing(i, o, e)
  OBVIOUS
<1>4. Accepts(i, o, m) /\ Broadcast(i, topic[i][o], o, m.event, event[m.event].socket)
  BY <1>3 DEF Deliver, m
<1>5. topic[i][o] \in Names /\ topic[i][o] # None
  BY RelayAssumption DEF Deliver, IInv, ListenerOf
<1>6. m.event \in Events /\ Genuine(m, m.event)
  BY <1>2, <1>4, <1>5 DEF Accepts, Message, Genuine
<1>7. /\ channels[i][topic[i][o]] = o
      /\ handed' = [handed EXCEPT ![m.event] = @ \union {i}]
      /\ got' = [s \in Sockets |->
            IF s \in Seated(i, topic[i][o]) \ {event[m.event].socket}
            THEN got[s] \union {m.event} ELSE got[s]]
  BY <1>3, <1>4 DEF Broadcast
<1>8. CopyOf(i, o, 1, m.event)
  BY <1>2, <1>6 DEF IInv
<1>9. /\ stage[m.event] \in {"sent", "done"}
      /\ event[m.event].origin = m.origin /\ event[m.event].channel = m.channel
      /\ event[m.event].origin # i => i \notin handed[m.event]
  BY <1>2, <1>6, <1>7, <1>8 DEF CopyOf
<1>10. event[m.event] \in Published
  BY <1>6, <1>9, CopyType
<1>11. Handing(i, o, m.event)
  BY <1>2, <1>4, <1>6, <1>7, <1>9, <1>10 DEF Handing, Accepts
<1> QED
  BY <1>6, <1>11

\* Who has broadcast an event goes on fitting the stage of its publisher.
LEMMA StageStep == IInv /\ [Next]_vars => \A f \in Events : StageOf(f)'
<1> SUFFICES ASSUME IInv, [Next]_vars, NEW f \in Events PROVE StageOf(f)'
  OBVIOUS
<1>0. TypeOK /\ StageOf(f)
  BY DEF IInv
<1> USE RelayAssumption DEF chanVars, listenVars, busVars, eventVars, history, aside
<1>1. ASSUME NEW s \in Sockets, NEW n \in Names, EnterHeld(s, n) PROVE StageOf(f)'
  BY <1>0, <1>1 DEF EnterHeld, StageOf, TypeOK
<1>2. ASSUME NEW s \in Sockets, NEW n \in Names, EnterRefused(s, n) PROVE StageOf(f)'
  BY <1>0, <1>2 DEF EnterRefused, StageOf, TypeOK
<1>3. ASSUME NEW s \in Sockets, NEW n \in Names, Exit(s, n) PROVE StageOf(f)'
  BY <1>0, <1>3 DEF Exit, StageOf, TypeOK
<1>4. ASSUME NEW s \in Sockets, NEW n \in Names, NEW o \in Objects, EnterMade(s, n, o)
      PROVE  StageOf(f)'
  BY <1>0, <1>4 DEF EnterMade, StageOf, TypeOK
<1>5. ASSUME NEW i \in Instances, NEW n \in Names, RemoveKept(i, n) PROVE StageOf(f)'
  BY <1>0, <1>5 DEF RemoveKept, StageOf, TypeOK
<1>6. ASSUME NEW i \in Instances, NEW n \in Names, RemoveBare(i, n) PROVE StageOf(f)'
  BY <1>0, <1>6 DEF RemoveBare, StageOf, TypeOK
<1>7. ASSUME NEW i \in Instances, NEW n \in Names, NEW o \in Objects, RemoveLeft(i, n, o)
      PROVE  StageOf(f)'
  BY <1>0, <1>7 DEF RemoveLeft, StageOf, TypeOK
<1>8. ASSUME NEW i \in Instances, NEW e \in Events, PublishLocal(e, i) PROVE StageOf(f)'
  <2>1. stage[e] = "fresh" /\ stage'[e] = "local"
    BY <1>0, <1>8 DEF PublishLocal, TypeOK
  <2>4. event'[e] \in Published
    BY <1>0, <1>8 DEF PublishLocal, TypeOK, Published
  <2>2. handed'[e] = handed[e] \union {i} /\ event'[e].origin = i
    BY <1>0, <1>8 DEF PublishLocal, TypeOK
  <2>3. f # e => UNCHANGED <<stage[f], event[f], handed[f]>>
    BY <1>0, <1>8 DEF PublishLocal, TypeOK
  <2> QED
    BY <1>0, <2>1, <2>2, <2>3, <2>4 DEF StageOf
<1>9. ASSUME NEW e \in Events, Carry(e) PROVE StageOf(f)'
  BY <1>0, <1>9 DEF Carry, StageOf, TypeOK
<1>10. ASSUME NEW e \in Events, BusPublish(e) PROVE StageOf(f)'
  BY <1>0, <1>10 DEF BusPublish, StageOf, TypeOK
<1>11. ASSUME NEW e \in Events, BusRefuses(e) PROVE StageOf(f)'
  BY <1>0, <1>11 DEF BusRefuses, StageOf, TypeOK
<1>12. ASSUME NEW e \in Events, PublishRecovered(e) PROVE StageOf(f)'
  BY <1>0, <1>12 DEF PublishRecovered, StageOf, TypeOK
<1>13. ASSUME NEW e \in Events, PublishFails(e) PROVE StageOf(f)'
  BY <1>0, <1>13 DEF PublishFails, StageOf, TypeOK
<1>14. ASSUME NEW i \in Instances, NEW o \in Objects, Subscribed(i, o) PROVE StageOf(f)'
  BY <1>0, <1>14 DEF Subscribed, StageOf, TypeOK
<1>15. ASSUME NEW i \in Instances, NEW o \in Objects, SubscriptionLost(i, o) PROVE StageOf(f)'
  BY <1>0, <1>15 DEF SubscriptionLost, StageOf, TypeOK
<1>16. ASSUME NEW i \in Instances, NEW o \in Objects, Retry(i, o) PROVE StageOf(f)'
  BY <1>0, <1>16 DEF Retry, StageOf, TypeOK
<1>17. ASSUME NEW i \in Instances, NEW o \in Objects, Cancelled(i, o) PROVE StageOf(f)'
  BY <1>0, <1>17 DEF Cancelled, StageOf, TypeOK
<1>18. ASSUME NEW i \in Instances, NEW o \in Objects, Deliver(i, o) PROVE StageOf(f)'
  <2>1. CASE UNCHANGED history
    BY <1>0, <1>18, <2>1 DEF Deliver, StageOf
  <2>2. ASSUME NEW e \in Events, Handing(i, o, e) PROVE StageOf(f)'
    <3>1. f # e => handed'[f] = handed[f]
      BY <1>0, <2>2 DEF Handing, TypeOK
    <3>2. f = e => stage[f] \in {"sent", "done"}
      BY <2>2 DEF Handing
    <3> QED
      BY <1>0, <1>18, <3>1, <3>2 DEF Deliver, StageOf
  <2> QED
    BY <1>18, <2>1, <2>2, DeliverCases
<1>19. ASSUME NEW i \in Instances, Close(i) PROVE StageOf(f)'
  BY <1>0, <1>19 DEF Close, StageOf, TypeOK
<1>20. ASSUME NEW i \in Instances, CloseReturns(i) PROVE StageOf(f)'
  BY <1>0, <1>20 DEF CloseReturns, StageOf, TypeOK
<1>21. ASSUME NEW i \in Instances, CloseGivesUp(i) PROVE StageOf(f)'
  BY <1>0, <1>21 DEF CloseGivesUp, StageOf, TypeOK
<1>22. CASE BusDown
  BY <1>0, <1>22 DEF BusDown, StageOf, TypeOK
<1>23. CASE BusUp
  BY <1>0, <1>23 DEF BusUp, StageOf, TypeOK
<1>24. ASSUME NEW n \in Names, Stray(n) PROVE StageOf(f)'
  BY <1>0, <1>24 DEF Stray, StageOf, TypeOK
<1>25. CASE UNCHANGED vars
  BY <1>0, <1>25 DEF vars, StageOf, TypeOK
<1> HIDE DEF StageOf, TypeOK
<1> QED
  BY <1>1, <1>2, <1>3, <1>4, <1>5, <1>6, <1>7, <1>8, <1>9, <1>10, <1>11, <1>12, <1>13,
     <1>14, <1>15, <1>16, <1>17, <1>18, <1>19, <1>20, <1>21, <1>22, <1>23, <1>24, <1>25,
     StepCases

\* Where the copies and what they are compared with stay, so does what is said of them.
LEMMA CopySame ==
    ASSUME NEW j, NEW p, NEW k, NEW f, CopyOf(j, p, k, f),
           inbox'[j][p] = inbox[j][p],
           stage[f] \in {"sent", "done"} => stage'[f] \in {"sent", "done"} /\ event'[f] = event[f],
           topic'[j][p] = topic[j][p],
           channels'[j][topic[j][p]] = p => channels[j][topic[j][p]] = p,
           j \in handed'[f] => j \in handed[f]
    PROVE  CopyOf(j, p, k, f)'
BY DEF CopyOf, Genuine

\* The places of a list with a message more.
LEMMA AppendPlaces ==
    ASSUME NEW q \in Seq(Message), NEW m \in Message
    PROVE  /\ \A l \in DOMAIN Append(q, m) :
                \/ l \in DOMAIN q /\ Append(q, m)[l] = q[l]
                \/ l = Len(q) + 1 /\ Append(q, m)[l] = m
           /\ Len(q) + 1 \notin DOMAIN q
<1>1. DOMAIN q = 1..Len(q) /\ Len(q) \in Nat /\ DOMAIN Append(q, m) = 1..(Len(q) + 1)
  OBVIOUS
<1>2. \A l \in 1..(Len(q) + 1) : Append(q, m)[l] = IF l = Len(q) + 1 THEN m ELSE q[l]
  BY <1>1
<1> QED
  BY <1>1, <1>2

\* The places of a list without its first message.
LEMMA TailPlaces ==
    ASSUME NEW q \in Seq(Message), q # <<>>
    PROVE  /\ 1 \in DOMAIN q
           /\ \A l \in DOMAIN Tail(q) : l \in Nat /\ l # 0 /\ l + 1 \in DOMAIN q /\ Tail(q)[l] = q[l + 1]
<1>1. DOMAIN q = 1..Len(q) /\ Len(q) \in Nat /\ Len(q) > 0 /\ DOMAIN Tail(q) = 1..(Len(q) - 1)
  OBVIOUS
<1>2. \A l \in 1..(Len(q) - 1) : Tail(q)[l] = q[l + 1]
  BY <1>1
<1> QED
  BY <1>1, <1>2

\* A message that is no copy of f changes nothing for the copies of f.
LEMMA CopyAppend ==
    ASSUME NEW j, NEW p, NEW f, inbox[j][p] \in Seq(Message), NEW m \in Message, ~Genuine(m, f),
           inbox'[j][p] = Append(inbox[j][p], m),
           NEW k \in DOMAIN inbox'[j][p],
           \A l \in DOMAIN inbox[j][p] : CopyOf(j, p, l, f),
           UNCHANGED <<topic, channels, handed>>,
           stage'[f] = stage[f] /\ event'[f] = event[f]
    PROVE  CopyOf(j, p, k, f)'
<1> DEFINE q == inbox[j][p]
<1>1. \A l \in DOMAIN inbox'[j][p] :
        \/ l \in DOMAIN q /\ inbox'[j][p][l] = q[l]
        \/ ~Genuine(inbox'[j][p][l], f)
  BY AppendPlaces
<1>2. CASE ~Genuine(inbox'[j][p][k], f)
  BY <1>2 DEF CopyOf, Genuine
<1>3. CASE Genuine(inbox'[j][p][k], f)
  <2>1. k \in DOMAIN q /\ inbox'[j][p][k] = q[k] /\ CopyOf(j, p, k, f)
    BY <1>1, <1>3
  <2>2. \A l \in DOMAIN inbox'[j][p] : Genuine(inbox'[j][p][l], f) => l = k
    BY <1>1, <1>3, <2>1 DEF CopyOf
  <2> QED
    BY <1>3, <2>1, <2>2 DEF CopyOf, Genuine
<1> QED
  BY <1>2, <1>3

\* Every copy that waits goes on being the only one, and unspent.
LEMMA CopyStep ==
    IInv /\ [Next]_vars =>
        (\A j \in Instances, p \in Objects : \A k \in DOMAIN inbox[j][p], f \in Events : CopyOf(j, p, k, f))'
<1> SUFFICES ASSUME IInv, [Next]_vars, NEW j \in Instances, NEW p \in Objects,
                    NEW k \in DOMAIN inbox'[j][p], NEW f \in Events
             PROVE  CopyOf(j, p, k, f)'
  OBVIOUS
<1>0. /\ TypeOK /\ ListenerOf(j, p) /\ StageOf(f)
      /\ inbox'[j][p] = inbox[j][p] => CopyOf(j, p, k, f)
  BY DEF IInv
<1>a. inbox[j][p] \in Seq(Message) /\ \A l \in DOMAIN inbox[j][p] : CopyOf(j, p, l, f)
  BY DEF IInv, TypeOK
<1> USE RelayAssumption DEF chanVars, listenVars, busVars, eventVars, history, aside
<1>1. ASSUME NEW s \in Sockets, NEW n \in Names, EnterHeld(s, n) PROVE CopyOf(j, p, k, f)'
  BY <1>0, CopySame, <1>1 DEF EnterHeld, TypeOK
<1>2. ASSUME NEW s \in Sockets, NEW n \in Names, EnterRefused(s, n) PROVE CopyOf(j, p, k, f)'
  <2>1. PICK o \in Objects : Unused(Home[s], o) /\ channels' = [channels EXCEPT ![Home[s]][n] = o]
    BY <1>2 DEF EnterRefused
  <2>2. inbox[Home[s]][o] = <<>>
    BY <2>1 DEF Unused, IInv, ListenerOf
  <2>3. ~(j = Home[s] /\ p = o)
    BY <1>2, <2>2 DEF EnterRefused
  <2>4. channels'[j][topic[j][p]] = p => channels[j][topic[j][p]] = p
    BY <1>0, <2>1, <2>3 DEF TypeOK
  <2> QED
    BY <1>0, <1>2, <2>4, CopySame DEF EnterRefused
<1>3. ASSUME NEW s \in Sockets, NEW n \in Names, Exit(s, n) PROVE CopyOf(j, p, k, f)'
  BY <1>0, CopySame, <1>3 DEF Exit, TypeOK
<1>4. ASSUME NEW s \in Sockets, NEW n \in Names, NEW o \in Objects, EnterMade(s, n, o)
      PROVE  CopyOf(j, p, k, f)'
  <2>1. listener[Home[s]][o] = "none" /\ inbox[Home[s]][o] = <<>>
    BY <1>4 DEF EnterMade, Unused, IInv, ListenerOf
  <2>2. ~(j = Home[s] /\ p = o)
    BY <1>4, <2>1 DEF EnterMade, aside
  <2>3. channels'[j][topic[j][p]] = p => channels[j][topic[j][p]] = p
    BY <1>0, <1>4, <2>2 DEF EnterMade, TypeOK
  <2>4. topic'[j][p] = topic[j][p]
    BY <1>0, <1>4, <2>2 DEF EnterMade, TypeOK
  <2> QED
    BY <1>0, <1>4, <2>3, <2>4, CopySame DEF EnterMade
<1>5. ASSUME NEW i \in Instances, NEW n \in Names, RemoveKept(i, n) PROVE CopyOf(j, p, k, f)'
  BY <1>0, CopySame, <1>5 DEF RemoveKept, TypeOK
<1>6. ASSUME NEW i \in Instances, NEW n \in Names, RemoveBare(i, n) PROVE CopyOf(j, p, k, f)'
  <2>1. channels'[j][topic[j][p]] = p => channels[j][topic[j][p]] = p
    BY <1>0, <1>6 DEF RemoveBare, TypeOK
  <2> QED
    BY <1>0, <1>6, <2>1, CopySame DEF RemoveBare
<1>7. ASSUME NEW i \in Instances, NEW n \in Names, NEW o \in Objects, RemoveLeft(i, n, o)
      PROVE  CopyOf(j, p, k, f)'
  <2>1. channels'[j][topic[j][p]] = p => channels[j][topic[j][p]] = p
    BY <1>0, <1>7 DEF RemoveLeft, TypeOK
  <2> QED
    BY <1>0, <1>7, <2>1, CopySame DEF RemoveLeft
<1>8. ASSUME NEW i \in Instances, NEW e \in Events, PublishLocal(e, i) PROVE CopyOf(j, p, k, f)'
  <2>1. CASE f = e
    BY <1>0, <1>8, <2>1 DEF PublishLocal, CopyOf, Genuine
  <2>2. CASE f # e
    BY <1>0, <1>8, <2>2, CopySame DEF PublishLocal, TypeOK
  <2> QED
    BY <2>1, <2>2
<1>9. ASSUME NEW e \in Events, Carry(e) PROVE CopyOf(j, p, k, f)'
  BY <1>0, CopySame, <1>9 DEF Carry, TypeOK
<1>10. ASSUME NEW e \in Events, BusPublish(e) PROVE CopyOf(j, p, k, f)'
  <2> DEFINE m == [event |-> e, origin |-> event[e].origin, channel |-> event[e].channel]
  <2>0. UNCHANGED <<topic, channels, handed, event>>
    BY <1>10 DEF BusPublish
  <2>1. m \in Message /\ stage[e] = "publishing" /\ stage'[e] = "sent" /\ ToTopic(event[e].channel, m)
    BY <1>0, <1>10, CopyType DEF BusPublish, TypeOK
  <2>2. m.event = e /\ m.origin = event[e].origin /\ m.channel = event[e].channel
    OBVIOUS
  <2> HIDE DEF m
  <2>3. CASE inbox'[j][p] = inbox[j][p]
    BY <1>0, <1>10, <2>0, <2>1, <2>3, CopySame DEF BusPublish, TypeOK
  <2>4. CASE topic[j][p] = event[e].channel /\ inbox'[j][p] = Append(inbox[j][p], m)
    <3>1. CASE f # e
      <4>1. ~Genuine(m, f) /\ stage'[f] = stage[f]
        BY <1>0, <1>10, <2>2, <3>1 DEF BusPublish, TypeOK, Genuine
      <4> QED
        BY <1>a, <2>0, <2>1, <2>4, <4>1, CopyAppend
    <3>2. CASE f = e
      <4>1. \A l \in DOMAIN inbox[j][p] : ~Genuine(inbox[j][p][l], f)
        BY <1>a, <2>1, <3>2 DEF CopyOf
      <4>2. \A l \in DOMAIN inbox'[j][p] :
              Genuine(inbox'[j][p][l], f) => l = Len(inbox[j][p]) + 1 /\ inbox'[j][p][l] = m
        BY <1>a, <2>1, <2>4, <4>1, AppendPlaces
      <4>3. handed[f] \subseteq {event[f].origin}
        BY <1>0, <2>1, <3>2 DEF StageOf
      <4>4. CASE ~Genuine(inbox'[j][p][k], f)
        BY <4>4 DEF CopyOf, Genuine
      <4>5. CASE Genuine(inbox'[j][p][k], f)
        <5>1. /\ stage'[f] = "sent"
              /\ inbox'[j][p][k].origin = event'[f].origin
              /\ inbox'[j][p][k].channel = event'[f].channel
              /\ topic'[j][p] = event'[f].channel
              /\ event'[f].origin # j => j \notin handed'[f]
          BY <2>0, <2>1, <2>2, <2>4, <3>2, <4>2, <4>3, <4>5
        <5>2. \A l \in DOMAIN inbox'[j][p] : Genuine(inbox'[j][p][l], f) => l = k
          BY <4>2, <4>5
        <5> QED
          BY <5>1, <5>2 DEF CopyOf, Genuine
      <4> QED
        BY <4>4, <4>5
    <3> QED
      BY <3>1, <3>2
  <2> QED
    BY <2>1, <2>3, <2>4 DEF ToTopic
<1>11. ASSUME NEW e \in Events, BusRefuses(e) PROVE CopyOf(j, p, k, f)'
  BY <1>0, CopySame, <1>11 DEF BusRefuses, TypeOK
<1>12. ASSUME NEW e \in Events, PublishRecovered(e) PROVE CopyOf(j, p, k, f)'
  BY <1>0, CopySame, <1>12 DEF PublishRecovered, TypeOK
<1>13. ASSUME NEW e \in Events, PublishFails(e) PROVE CopyOf(j, p, k, f)'
  BY <1>0, CopySame, <1>13 DEF PublishFails, TypeOK
<1>14. ASSUME NEW i \in Instances, NEW o \in Objects, Subscribed(i, o) PROVE CopyOf(j, p, k, f)'
  BY <1>0, CopySame, <1>14 DEF Subscribed, TypeOK
<1>15. ASSUME NEW i \in Instances, NEW o \in Objects, SubscriptionLost(i, o)
       PROVE  CopyOf(j, p, k, f)'
  BY <1>0, CopySame, <1>15 DEF SubscriptionLost, TypeOK
<1>16. ASSUME NEW i \in Instances, NEW o \in Objects, Retry(i, o) PROVE CopyOf(j, p, k, f)'
  BY <1>0, CopySame, <1>16 DEF Retry, TypeOK
<1>17. ASSUME NEW i \in Instances, NEW o \in Objects, Cancelled(i, o) PROVE CopyOf(j, p, k, f)'
  <2>1. CASE j = i /\ p = o
    BY <1>0, <1>17, <2>1 DEF Cancelled, Ends, TypeOK
  <2>2. CASE ~(j = i /\ p = o)
    <3>1. inbox'[j][p] = inbox[j][p] /\ topic'[j][p] = topic[j][p]
      BY <1>0, <1>17, <2>2 DEF Cancelled, Ends, TypeOK
    <3> QED
      BY <1>0, <1>17, <3>1, CopySame DEF Cancelled
  <2> QED
    BY <2>1, <2>2
<1>18. ASSUME NEW i \in Instances, NEW o \in Objects, Deliver(i, o) PROVE CopyOf(j, p, k, f)'
  <2>0. UNCHANGED <<channels, topic, stage, event>>
    BY <1>18 DEF Deliver
  <2>1. CASE j = i /\ p = o
    <3>1. inbox'[j][p] = Tail(inbox[j][p]) /\ inbox[j][p] # <<>>
      BY <1>0, <1>18, <2>1 DEF Deliver, TypeOK
    <3>2. \A l \in DOMAIN inbox'[j][p] :
            /\ l \in Nat /\ l # 0 /\ l + 1 \in DOMAIN inbox[j][p]
            /\ inbox'[j][p][l] = inbox[j][p][l + 1]
      BY <1>a, <3>1, TailPlaces
    <3>3. CopyOf(j, p, k + 1, f) /\ inbox'[j][p][k] = inbox[j][p][k + 1]
      BY <1>a, <3>2
    <3>4. SUFFICES ASSUME Genuine(inbox'[j][p][k], f) PROVE CopyOf(j, p, k, f)'
      BY DEF CopyOf, Genuine
    <3>5. /\ stage[f] \in {"sent", "done"}
          /\ inbox'[j][p][k].origin = event[f].origin
          /\ inbox'[j][p][k].channel = event[f].channel
          /\ topic[j][p] = event[f].channel
          /\ \A l \in DOMAIN inbox[j][p] : Genuine(inbox[j][p][l], f) => l = k + 1
          /\ channels[j][topic[j][p]] = p /\ event[f].origin # j => j \notin handed[f]
      BY <3>3, <3>4 DEF CopyOf
    <3>6. \A l \in DOMAIN inbox'[j][p] : Genuine(inbox'[j][p][l], f) => l = k
      BY <3>2, <3>5
    <3>7. handed'[f] = handed[f]
      <4>1. ASSUME NEW e \in Events, Handing(i, o, e) PROVE handed'[f] = handed[f]
        <5>1. f # e
          BY <2>1, <3>1, <3>2, <3>5, <1>a, <4>1, TailPlaces DEF Handing
        <5> QED
          BY <1>0, <4>1, <5>1 DEF Handing, TypeOK
      <4> QED
        BY <1>18, <4>1, DeliverCases
    <3> QED
      BY <2>0, <3>5, <3>6, <3>7 DEF CopyOf, Genuine
  <2>2. CASE ~(j = i /\ p = o)
    <3>1. inbox'[j][p] = inbox[j][p]
      BY <1>0, <1>18, <2>2 DEF Deliver, TypeOK
    <3>2. CASE UNCHANGED history
      BY <1>0, <2>0, <3>1, <3>2, CopySame
    <3>3. ASSUME NEW e \in Events, Handing(i, o, e) PROVE CopyOf(j, p, k, f)'
      <4>1. CASE j \in handed'[f] => j \in handed[f]
        BY <1>0, <2>0, <3>1, <4>1, CopySame
      <4>2. CASE f = e /\ j = i
        <5>1. p # o /\ channels[j][event[f].channel] # p
          BY <2>2, <3>3, <4>2 DEF Handing
        <5> QED
          BY <1>0, <2>0, <3>1, <5>1 DEF CopyOf, Genuine
      <4> QED
        BY <1>0, <3>3, <4>1, <4>2 DEF Handing, TypeOK
    <3> QED
      BY <1>18, <3>2, <3>3, DeliverCases
  <2> QED
    BY <2>1, <2>2
<1>19. ASSUME NEW i \in Instances, Close(i) PROVE CopyOf(j, p, k, f)'
  BY <1>0, CopySame, <1>19 DEF Close, TypeOK
<1>20. ASSUME NEW i \in Instances, CloseReturns(i) PROVE CopyOf(j, p, k, f)'
  BY <1>0, CopySame, <1>20 DEF CloseReturns, TypeOK
<1>21. ASSUME NEW i \in Instances, CloseGivesUp(i) PROVE CopyOf(j, p, k, f)'
  BY <1>0, CopySame, <1>21 DEF CloseGivesUp, TypeOK
<1>22. CASE BusDown
  BY <1>0, CopySame, <1>22 DEF BusDown, TypeOK
<1>23. CASE BusUp
  BY <1>0, CopySame, <1>23 DEF BusUp, TypeOK
<1>24. ASSUME NEW n \in Names, Stray(n) PROVE CopyOf(j, p, k, f)'
  <2>1. PICK m \in StrayMessages(n) : ToTopic(n, m)
    BY <1>24 DEF Stray
  <2>2. m \in Message /\ ~Genuine(m, f)
    BY <1>0, StrayType DEF TypeOK
  <2>3. UNCHANGED <<topic, channels, handed, event, stage>>
    BY <1>24 DEF Stray
  <2>4. CASE inbox'[j][p] = inbox[j][p]
    BY <1>0, <2>3, <2>4, CopySame
  <2>5. CASE inbox'[j][p] = Append(inbox[j][p], m)
    BY <1>a, <2>2, <2>3, <2>5, CopyAppend
  <2> QED
    BY <2>1, <2>4, <2>5 DEF ToTopic
<1>25. CASE UNCHANGED vars
  BY <1>0, CopySame, <1>25 DEF vars, TypeOK
<1> HIDE DEF TypeOK, CopyOf, ListenerOf, StageOf
<1> QED
  BY <1>1, <1>2, <1>3, <1>4, <1>5, <1>6, <1>7, <1>8, <1>9, <1>10, <1>11, <1>12, <1>13,
     <1>14, <1>15, <1>16, <1>17, <1>18, <1>19, <1>20, <1>21, <1>22, <1>23, <1>24, <1>25,
     StepCases

-----------------------------------------------------------------------------
(* The theorems                                                            *)

\* The invariant holds before any socket is there.
LEMMA InitIInv == Init => IInv
<1> SUFFICES ASSUME Init PROVE IInv
  OBVIOUS
<1> USE RelayAssumption DEF Init
<1>1. TypeOK
  <2>1. inbox \in [Instances -> [Objects -> Seq(Message)]]
    OBVIOUS
  <2>2. outages \in 0..bound.outages /\ strays \in 0..bound.strays
    BY DEF Bound
  <2> QED
    BY <2>1, <2>2 DEF TypeOK, Maybe, Listening, Closings, Stages
<1>2. ASSUME NEW i \in Instances PROVE WiringOf(i)
  BY DEF WiringOf
<1>3. ASSUME NEW i \in Instances, NEW o \in Objects
      PROVE  ListenerOf(i, o) /\ \A k \in DOMAIN inbox[i][o], e \in Events : CopyOf(i, o, k, e)
  BY DEF ListenerOf
<1>4. ClosedIsQuiet /\ OnlyClosedLeaves
  BY DEF ClosedIsQuiet, OnlyClosedLeaves
<1>5. ASSUME NEW e \in Events PROVE StageOf(e)
  BY DEF StageOf
<1> QED
  BY <1>1, <1>2, <1>3, <1>4, <1>5 DEF IInv

\* The invariant holds in every state of every behaviour.
LEMMA Inductive == Spec => []IInv
<1>1. IInv /\ [Next]_vars => IInv'
  BY TypeStep, WiringStep, ListenerStep, QuietStep, LeavesStep, StageStep, CopyStep DEF IInv
<1> QED
  BY <1>1, InitIInv, PTL DEF Spec

\* What the broker holds is what the relay listens for, through every subscription,
\* departure, cancelled goroutine and close, and no channel is left behind but by a
\* relay that was closed (Relay.Join, Relay.Leave, relayedBroker.Remove).
THEOREM TopicsAlwaysMatch == Spec => []TopicsMatch
<1>1. IInv => TopicsMatch
  <2> SUFFICES ASSUME IInv PROVE RelaysWhatItHolds
    BY DEF IInv, TopicsMatch
  <2> SUFFICES ASSUME NEW i \in Instances, closed[i] = "open"
               PROVE  /\ joined[i] = channels[i]
                      /\ \A o \in Objects :
                          (\E n \in Names : joined[i][n] = o) <=> (listener[i][o] # "none" /\ ~cancelled[i][o])
    BY DEF RelaysWhatItHolds
  <2>1. WiringOf(i)
    BY DEF IInv
  <2>2. None \notin Objects
    BY RelayAssumption
  <2> QED
    BY <2>1, <2>2 DEF WiringOf
<1> QED
  BY <1>1, Inductive, PTL

\* Once Relay.Close came back clean, no goroutine of that relay runs again.
THEOREM ClosedStaysQuiet == Spec => []ClosedIsQuiet
<1>1. IInv => ClosedIsQuiet
  BY DEF IInv
<1> QED
  BY <1>1, Inductive, PTL

-----------------------------------------------------------------------------
(* The refinement                                                          *)

\* What a publisher asked for, as Fanout sees it.
Asked == [e \in Events |->
    IF event[e] = None THEN None ELSE [channel |-> event[e].channel, socket |-> event[e].socket]]

\* A step that is not a subscription, a departure or a broadcast is no step of
\* Fanout; each of those three is one.
LEMMA FanoutStep ==
    ASSUME IInv, [Next]_vars
    PROVE  \/ FanoutOf!Next
           \/ UNCHANGED <<on, Asked, handed, got>>
<1>0. TypeOK
  BY DEF IInv
<1> DEFINE Goal == FanoutOf!Next \/ UNCHANGED <<on, Asked, handed, got>>
<1> USE RelayAssumption DEF chanVars, listenVars, busVars, eventVars, history, aside
<1> SUFFICES Goal
  OBVIOUS
<1>1. ASSUME NEW s \in Sockets, NEW n \in Names, EnterHeld(s, n) PROVE Goal
  BY <1>0, <1>1 DEF EnterHeld, Asked, FanoutOf!Next, FanoutOf!Enter, FanoutOf!Exit
<1>2. ASSUME NEW s \in Sockets, NEW n \in Names, EnterRefused(s, n) PROVE Goal
  BY <1>2 DEF EnterRefused, Asked
<1>3. ASSUME NEW s \in Sockets, NEW n \in Names, Exit(s, n) PROVE Goal
  BY <1>0, <1>3 DEF Exit, Asked, FanoutOf!Next, FanoutOf!Enter, FanoutOf!Exit
<1>4. ASSUME NEW s \in Sockets, NEW n \in Names, NEW o \in Objects, EnterMade(s, n, o) PROVE Goal
  BY <1>0, <1>4 DEF EnterMade, Asked, FanoutOf!Next, FanoutOf!Enter, FanoutOf!Exit
<1>5. ASSUME NEW i \in Instances, NEW n \in Names, RemoveKept(i, n) PROVE Goal
  BY <1>5 DEF RemoveKept, Asked
<1>6. ASSUME NEW i \in Instances, NEW n \in Names, RemoveBare(i, n) PROVE Goal
  BY <1>6 DEF RemoveBare, Asked
<1>7. ASSUME NEW i \in Instances, NEW n \in Names, NEW o \in Objects, RemoveLeft(i, n, o)
      PROVE  Goal
  BY <1>7 DEF RemoveLeft, Asked
<1>8. ASSUME NEW i \in Instances, NEW e \in Events, PublishLocal(e, i) PROVE Goal
  <2>1. PICK n \in Names, x \in Sockets \union {None} :
          /\ event' = [event EXCEPT ![e] = [channel |-> n, socket |-> x, origin |-> i]]
          /\ handed' = [handed EXCEPT ![e] = handed[e] \union {i}]
          /\ got' = [s \in Sockets |->
                IF s \in Seated(i, n) \ {x} THEN got[s] \union {e} ELSE got[s]]
    BY <1>8 DEF PublishLocal
  <2> DEFINE what == [channel |-> n, socket |-> x]
  <2>2. stage[e] = "fresh" /\ event[e] = None /\ handed[e] = {} /\ on' = on
    BY <1>8 DEF PublishLocal, IInv, StageOf
  <2>3. event'[e] \in Published /\ event'[e].channel = n /\ event'[e].socket = x
    BY <1>0, <2>1 DEF TypeOK, Published
  <2>4. Asked[e] = None /\ Asked' = [Asked EXCEPT ![e] = what]
    BY <1>0, <2>1, <2>2, <2>3 DEF Asked, TypeOK
  <2>5. FanoutOf!Recipients(what, i) = Seated(i, n) \ {x}
    BY DEF FanoutOf!Recipients, Seated
  <2>6. FanoutOf!Hand(e, what, i)
    <3> HIDE DEF what
    <3>1. got' = [s \in Sockets |->
            IF s \in FanoutOf!Recipients(what, i) THEN got[s] \union {e} ELSE got[s]]
      BY <2>1, <2>5
    <3> QED
      BY <2>1, <2>2, <3>1 DEF FanoutOf!Hand
  <2>7. FanoutOf!Publish(e, i)
    BY <2>2, <2>4, <2>6 DEF FanoutOf!Publish, Asked
  <2> QED
    BY <2>7 DEF FanoutOf!Next
<1>9. ASSUME NEW e \in Events, Carry(e) PROVE Goal
  BY <1>9 DEF Carry, Asked
<1>10. ASSUME NEW e \in Events, BusPublish(e) PROVE Goal
  BY <1>10 DEF BusPublish, Asked
<1>11. ASSUME NEW e \in Events, BusRefuses(e) PROVE Goal
  BY <1>11 DEF BusRefuses, Asked
<1>12. ASSUME NEW e \in Events, PublishRecovered(e) PROVE Goal
  BY <1>12 DEF PublishRecovered, Asked
<1>13. ASSUME NEW e \in Events, PublishFails(e) PROVE Goal
  BY <1>13 DEF PublishFails, Asked
<1>14. ASSUME NEW i \in Instances, NEW o \in Objects, Subscribed(i, o) PROVE Goal
  BY <1>14 DEF Subscribed, Asked
<1>15. ASSUME NEW i \in Instances, NEW o \in Objects, SubscriptionLost(i, o) PROVE Goal
  BY <1>15 DEF SubscriptionLost, Asked
<1>16. ASSUME NEW i \in Instances, NEW o \in Objects, Retry(i, o) PROVE Goal
  BY <1>16 DEF Retry, Asked
<1>17. ASSUME NEW i \in Instances, NEW o \in Objects, Cancelled(i, o) PROVE Goal
  BY <1>17 DEF Cancelled, Asked
<1>18. ASSUME NEW i \in Instances, NEW o \in Objects, Deliver(i, o) PROVE Goal
  <2>0. UNCHANGED <<on, event>>
    BY <1>18 DEF Deliver
  <2>1. CASE UNCHANGED history
    BY <2>0, <2>1 DEF Asked
  <2>2. ASSUME NEW e \in Events, Handing(i, o, e) PROVE Goal
    <3>1. event[e] \in Published /\ event[e] # None
      BY <2>2 DEF Handing
    <3>2. Asked[e] = [channel |-> event[e].channel, socket |-> event[e].socket]
      BY <3>1 DEF Asked
    <3>3. Asked[e] \in Wanted /\ Asked[e] # None
      BY <3>1, <3>2 DEF Published, Wanted
    <3>4. FanoutOf!Recipients(Asked[e], i) = Seated(i, event[e].channel) \ {event[e].socket}
      BY <3>2 DEF FanoutOf!Recipients, Seated
    <3>5. FanoutOf!Hand(e, Asked[e], i)
      BY <2>2, <3>4 DEF FanoutOf!Hand, Handing
    <3>6. FanoutOf!Relayed(e, i)
      BY <2>0, <3>3, <3>5 DEF FanoutOf!Relayed, Asked
    <3> QED
      BY <3>6 DEF FanoutOf!Next
  <2> QED
    BY <1>18, <2>1, <2>2, DeliverCases
<1>19. ASSUME NEW i \in Instances, Close(i) PROVE Goal
  BY <1>19 DEF Close, Asked
<1>20. ASSUME NEW i \in Instances, CloseReturns(i) PROVE Goal
  BY <1>20 DEF CloseReturns, Asked
<1>21. ASSUME NEW i \in Instances, CloseGivesUp(i) PROVE Goal
  BY <1>21 DEF CloseGivesUp, Asked
<1>22. CASE BusDown
  BY <1>22 DEF BusDown, Asked
<1>23. CASE BusUp
  BY <1>23 DEF BusUp, Asked
<1>24. ASSUME NEW n \in Names, Stray(n) PROVE Goal
  BY <1>24 DEF Stray, Asked
<1>25. CASE UNCHANGED vars
  BY <1>25 DEF vars, Asked
<1> HIDE DEF Goal
<1> QED
  BY <1>1, <1>2, <1>3, <1>4, <1>5, <1>6, <1>7, <1>8, <1>9, <1>10, <1>11, <1>12, <1>13,
     <1>14, <1>15, <1>16, <1>17, <1>18, <1>19, <1>20, <1>21, <1>22, <1>23, <1>24, <1>25,
     StepCases

\* The fleet implements Fanout: whatever the bus loses, repeats, hands back to its
\* sender or carries that no relay sent, an event reaches an instance's sockets at
\* most once and never the socket its publisher left out (Relay.deliver, carry).
THEOREM Refinement == Spec => ImplementsFanout
<1>1. Init => FanoutOf!Init
  BY DEF Init, FanoutOf!Init
<1>2. IInv /\ [Next]_vars => [FanoutOf!Next]_<<on, Asked, handed, got>>
  BY FanoutStep
<1> QED
  BY <1>1, <1>2, Inductive, PTL DEF Spec, ImplementsFanout, FanoutOf!Spec, Asked
=============================================================================
