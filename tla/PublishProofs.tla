---------------------------- MODULE PublishProofs ----------------------------
(***************************************************************************)
(* Proofs about Publish, for any requests, bodies, channels and tenants.   *)
(* A publish goes through its elements and their channels one broadcast at *)
(* a time while sockets leave and sinks fail, so the invariant says how    *)
(* far it has got: what is behind it was delivered, and the subscribers of *)
(* the present channel who were there all along are written to already or  *)
(* still to be. What was allowed when a broadcast began is remembered for  *)
(* as long as it runs.                                                     *)
(***************************************************************************)
EXTENDS Publish, TLAPS

-----------------------------------------------------------------------------
(* The inductive invariant                                                 *)

\* The channel a publish is at, and the socket element i is kept from.
Present(r) == NewChannelName(r, Channels(r)[at[r][2]])
SparedBy(r, i) == IF input[r].door = "socket" THEN input[r].by ELSE input[r].body[i].socket

\* Channel c of element i has been dealt with, as Delivered says of all of them.
DeliveredAt(r, i, c) ==
    LET n == NewChannelName(r, input[r].body[i].channels[c]) IN
    /\ [request |-> r, element |-> i, name |-> n] \in carried
    /\ \A s \in Sockets : <<s, n>> \in loyal[r] /\ s # SparedBy(r, i) =>
          [socket |-> s, request |-> r, element |-> i, name |-> n] \in got

\* What was asked before the present broadcast began, and holds of it still.
AllowedOf(r) ==
    /\ stage[r] \in {"channel", "delivering"} => Entered(input[r]) = 200
    /\ stage[r] = "delivering" =>
          /\ Owed(r) /\ ~Ill(r)
          /\ input[r].door = "route" => Present(r)[2] \in Readable[input[r].by]
          /\ input[r].door = "socket" =>
                ClientEvents /\ Kind[Present(r)[2]] \in Guarded /\ Present(r) \in seats[input[r].by]
          /\ \A s \in to[r] : Owner[s] = Tenant(r) /\ s # Spared(r)

\* How far a publish has got.
ProgressOf(r) ==
    /\ status[r] # None => stage[r] = "answered"
    /\ stage[r] = "new" => at[r] = <<1, 1>>
    /\ stage[r] \in {"channel", "delivering"} =>
          /\ \A i \in DOMAIN input[r].body : i < at[r][1] => Delivered(r, i)
          /\ at[r][1] \in DOMAIN input[r].body =>
                \A c \in DOMAIN Channels(r) : c < at[r][2] => DeliveredAt(r, at[r][1], c)
    /\ stage[r] = "delivering" =>
          \A s \in Sockets : <<s, Present(r)>> \in loyal[r] /\ s # Spared(r) =>
              s \in to[r] \/ Copy(r, s) \in got
    /\ status[r] = 200 => \A i \in DOMAIN input[r].body : Delivered(r, i)

\* Whoever was there all along is there, and a socket is on channels of its tenant.
AudienceOK ==
    /\ \A r \in Requests, s \in Sockets, n \in Names :
          <<s, n>> \in loyal[r] => sink[s] /\ n \in seats[s]
    /\ \A s \in Sockets : \A n \in seats[s] : n[1] = Owner[s]

\* The inductive invariant.
IInv ==
    /\ TypeOK
    /\ loyal \in [Requests -> SUBSET (Sockets \X Names)]
    /\ AudienceOK
    /\ \A r \in Requests : AllowedOf(r) /\ ProgressOf(r)
    /\ TenantKept
    /\ SpokenByRight

-----------------------------------------------------------------------------
(* What the definitions come to                                            *)

\* A step of the specification, action by action.
LEMMA StepCases ==
    ASSUME [Next]_vars
    PROVE  \/ \E r \in Requests : Enter(r)
           \/ \E r \in Requests : Advance(r)
           \/ \E r \in Requests : RefuseElement(r)
           \/ \E r \in Requests : RefuseChannel(r)
           \/ \E r \in Requests : Broadcast(r)
           \/ \E r \in Requests : Carry(r)
           \/ \E r \in Requests : GiveUp(r)
           \/ \E r \in Requests : \E s \in Sockets : Deliver(r, s)
           \/ \E s \in Sockets : \E n \in Names : Leave(s, n)
           \/ \E s \in Sockets : SinkFails(s)
           \/ UNCHANGED vars
    BY Zenon DEF Next, Step

\* Answering a request that is under way.
LEMMA Answered ==
    ASSUME TypeOK, NEW r \in Requests, NEW code, Answer(r, code)
    PROVE  /\ stage'[r] = "answered" /\ status'[r] = code
           /\ stage' = [stage EXCEPT ![r] = "answered"]
           /\ status' = [status EXCEPT ![r] = code]
    BY DEF Answer, TypeOK

\* An element is delivered when each of its channels is.
LEMMA DeliveredIs ==
    ASSUME NEW r \in Requests, NEW i
    PROVE  Delivered(r, i) <=> \A c \in DOMAIN input[r].body[i].channels : DeliveredAt(r, i, c)
    BY DEF Delivered, DeliveredAt, SparedBy

\* What is delivered stays delivered while copies are added and the loyal get fewer.
LEMMA DeliveredMore ==
    ASSUME NEW r \in Requests, NEW i, NEW c, input' = input,
           got \subseteq got', carried \subseteq carried', loyal'[r] \subseteq loyal[r],
           DeliveredAt(r, i, c)
    PROVE  DeliveredAt(r, i, c)'
    BY DEF DeliveredAt, SparedBy, NewChannelName, Tenant

LEMMA DeliveredKept ==
    ASSUME NEW r \in Requests, NEW i, input' = input,
           got \subseteq got', carried \subseteq carried', loyal'[r] \subseteq loyal[r],
           Delivered(r, i)
    PROVE  Delivered(r, i)'
    BY DeliveredMore DEF Delivered, NewChannelName, Tenant

\* Who may get past the door has a tenant of the process.
LEMMA EnteredHasTenant ==
    ASSUME TypeOK, NEW r \in Requests, Entered(input[r]) = 200
    PROVE  /\ Tenant(r) \in Tenants
           /\ input[r].door \in {"route", "broadcaster", "socket"}
           /\ input[r].door = "route" => input[r].by \in Operators /\ input[r].by \in Subjects
           /\ input[r].door = "broadcaster" => input[r].by \in Subjects
           /\ input[r].door = "socket" => input[r].by \in Sockets
<1>1. InputType(input[r])
    BY PublishAssumption DEF TypeOK
<1>2. input[r].door = "route" => input[r].by # None /\ input[r].by \in Operators
    BY DEF Entered
<1>3. input[r].by \in Sockets \union Subjects
    BY <1>1, <1>2 DEF InputType
<1> QED
    BY <1>1, <1>2, <1>3, PublishAssumption DEF InputType, Tenant

\* A channel of a body is one that can be asked for.
LEMMA ChannelsNamed ==
    ASSUME TypeOK, NEW r \in Requests, NEW i \in Nat \ {0}, i <= Len(input[r].body)
    PROVE  /\ input[r].body[i] \in ElementType
           /\ i \in DOMAIN input[r].body
           /\ DOMAIN input[r].body[i].channels = 1..Len(input[r].body[i].channels)
           /\ Len(input[r].body[i].channels) \in Nat
           /\ \A c \in DOMAIN input[r].body[i].channels : input[r].body[i].channels[c] \in Requested
<1>1. input[r].body \in Seq(ElementType)
    BY PublishAssumption DEF TypeOK, InputType
<1>2. input[r].body[i] \in ElementType /\ i \in DOMAIN input[r].body
    BY <1>1
<1>3. input[r].body[i].channels \in Seq(Requested)
    BY <1>2 DEF ElementType
<1> QED
    BY <1>2, <1>3

\* The same of the channel a publish is at.
LEMMA PresentNamed ==
    ASSUME TypeOK, NEW r \in Requests, Entered(input[r]) = 200, Owed(r)
    PROVE  /\ Present(r) \in Names
           /\ Present(r) = <<Tenant(r), Channels(r)[at[r][2]]>>
           /\ Element(r) \in ElementType
           /\ at[r][1] \in DOMAIN input[r].body
           /\ at[r][2] \in DOMAIN Channels(r)
<1>1. at[r][1] \in Nat \ {0} /\ at[r][2] \in Nat \ {0}
    BY DEF TypeOK
<1>2. at[r][1] <= Len(input[r].body) /\ at[r][2] <= Len(Channels(r))
    BY DEF Owed
<1>3. /\ Element(r) \in ElementType
      /\ at[r][1] \in DOMAIN input[r].body
      /\ DOMAIN Channels(r) = 1..Len(Channels(r)) /\ Len(Channels(r)) \in Nat
      /\ \A c \in DOMAIN Channels(r) : Channels(r)[c] \in Requested
    BY ONLY <1>1, <1>2, ChannelsNamed, TypeOK, r \in Requests DEF Element, Channels
<1>4. at[r][2] \in DOMAIN Channels(r)
    BY <1>1, <1>2, <1>3
<1>5. Tenant(r) \in Tenants
    BY EnteredHasTenant
<1> QED
    BY <1>3, <1>4, <1>5 DEF Present, NewChannelName, Names

-----------------------------------------------------------------------------
(* The requests a step leaves alone                                        *)

\* What is known of a publish survives a step that leaves its own state alone,
\* adds copies, and takes no sender off its channel.
LEMMA OtherKept ==
    ASSUME TypeOK, NEW p \in Requests, AllowedOf(p), ProgressOf(p), input' = input,
           stage'[p] = stage[p], at'[p] = at[p], to'[p] = to[p], status'[p] = status[p],
           got \subseteq got', carried \subseteq carried', loyal'[p] \subseteq loyal[p],
           stage[p] = "delivering" /\ input[p].door = "socket" /\ Present(p) \in seats[input[p].by]
               => Present(p) \in seats'[input[p].by]
    PROVE  AllowedOf(p)' /\ ProgressOf(p)'
<1>1. /\ Present(p)' = Present(p) /\ Element(p)' = Element(p) /\ Channels(p)' = Channels(p)
      /\ (Owed(p)' <=> Owed(p)) /\ (Ill(p)' <=> Ill(p)) /\ Spared(p)' = Spared(p)
      /\ Tenant(p)' = Tenant(p)
      /\ \A s : Copy(p, s)' = Copy(p, s)
    BY DEF Present, Element, Channels, Owed, Ill, Spared, Tenant, NewChannelName, Copy
<1>2. AllowedOf(p)'
    BY <1>1 DEF AllowedOf
<1>3. \A i : Delivered(p, i) => Delivered(p, i)'
    BY DeliveredKept
<1>4. \A i, c : DeliveredAt(p, i, c) => DeliveredAt(p, i, c)'
    BY DeliveredMore
<1>5. ProgressOf(p)'
  <2>1. stage'[p] = "delivering" =>
          \A s \in Sockets : <<s, Present(p)'>> \in loyal'[p] /\ s # Spared(p)' =>
              s \in to'[p] \/ Copy(p, s)' \in got'
    BY <1>1 DEF ProgressOf
  <2>2. stage'[p] \in {"channel", "delivering"} =>
          /\ \A i \in DOMAIN input'[p].body : i < at'[p][1] => Delivered(p, i)'
          /\ at'[p][1] \in DOMAIN input'[p].body =>
                \A c \in DOMAIN Channels(p)' : c < at'[p][2] => DeliveredAt(p, at[p][1], c)'
    BY <1>1, <1>3, <1>4 DEF ProgressOf
  <2>3. status'[p] = 200 => \A i \in DOMAIN input'[p].body : Delivered(p, i)'
    BY <1>3 DEF ProgressOf
  <2> QED
    BY <2>1, <2>2, <2>3 DEF ProgressOf
<1> QED
    BY <1>2, <1>5

-----------------------------------------------------------------------------
(* The request that takes the step                                         *)

LEMMA EnterOwn ==
    ASSUME IInv, NEW r \in Requests, Enter(r)
    PROVE  AllowedOf(r)' /\ ProgressOf(r)'
<1> USE DEF IInv
<1>1. at'[r] = <<1, 1>> /\ input' = input /\ status[r] = None /\ stage[r] = "new"
    BY DEF Enter, ProgressOf
<1>2. DOMAIN input[r].body = 1..Len(input[r].body) /\ Len(input[r].body) \in Nat
    BY PublishAssumption DEF TypeOK, InputType
<1>3. CASE Entered(input[r]) # 200
  <2>1. stage'[r] = "answered" /\ status'[r] # 200
    BY <1>3, Answered DEF Enter
  <2> QED
    BY <2>1 DEF AllowedOf, ProgressOf
<1>4. CASE Entered(input[r]) = 200
  <2>1. stage'[r] = "channel" /\ status'[r] = None
    BY <1>1, <1>4 DEF Enter, TypeOK
  <2>2. AllowedOf(r)'
    BY <1>1, <1>4, <2>1 DEF AllowedOf
  <2>3. \A i \in DOMAIN input'[r].body : ~(i < at'[r][1])
    BY <1>1, <1>2
  <2>4. at'[r][1] \in DOMAIN input'[r].body => DOMAIN Channels(r)' \subseteq Nat \ {0}
    <3>1. SUFFICES ASSUME 1 \in DOMAIN input[r].body
                   PROVE  DOMAIN input[r].body[1].channels \subseteq Nat \ {0}
        BY <1>1 DEF Channels, Element
    <3> QED
        BY <3>1, <1>2, ChannelsNamed
  <2>5. None # 200
    BY PublishAssumption DEF Answers
  <2>6. at'[r][1] \in DOMAIN input'[r].body => \A c \in DOMAIN Channels(r)' : ~(c < at'[r][2])
    BY <1>1, <2>4
  <2>7. ProgressOf(r)'
    BY <2>1, <2>3, <2>5, <2>6 DEF ProgressOf
  <2> QED
    BY <2>2, <2>7
<1> QED
    BY <1>3, <1>4

\* The present element, all of its channels being behind, is delivered.
LEMMA ElementDone ==
    ASSUME IInv, NEW r \in Requests, stage[r] = "channel", ~Owed(r),
           at[r][1] \in DOMAIN input[r].body
    PROVE  Delivered(r, at[r][1])
<1> USE DEF IInv
<1>1. at[r][1] \in Nat \ {0} /\ at[r][2] \in Nat \ {0}
    BY DEF TypeOK
<1>2. at[r][1] <= Len(input[r].body)
    BY <1>1, PublishAssumption DEF TypeOK, InputType
<1>3. DOMAIN Channels(r) = 1..Len(Channels(r)) /\ Len(Channels(r)) \in Nat
    BY <1>1, <1>2, ChannelsNamed DEF Channels, Element
<1>4. \A c \in DOMAIN Channels(r) : c < at[r][2]
    BY <1>1, <1>2, <1>3 DEF Owed
<1>5. \A c \in DOMAIN Channels(r) : DeliveredAt(r, at[r][1], c)
    BY <1>4 DEF ProgressOf
<1> QED
    BY <1>5, DeliveredIs DEF Channels, Element

LEMMA AdvanceOwn ==
    ASSUME IInv, NEW r \in Requests, Advance(r)
    PROVE  AllowedOf(r)' /\ ProgressOf(r)'
<1> USE DEF IInv
<1>1. /\ input' = input /\ got' = got /\ carried' = carried /\ loyal' = loyal
      /\ stage[r] = "channel" /\ ~Owed(r)
      /\ at[r][1] \in Nat \ {0} /\ at[r][2] \in Nat \ {0}
    BY DEF Advance, TypeOK
<1>2. DOMAIN input[r].body = 1..Len(input[r].body) /\ Len(input[r].body) \in Nat
    BY PublishAssumption DEF TypeOK, InputType
<1>3. \A i \in DOMAIN input[r].body : i < at[r][1] + 1 => Delivered(r, i)
  <2>1. SUFFICES ASSUME NEW i \in DOMAIN input[r].body, i < at[r][1] + 1
                 PROVE  Delivered(r, i)
    OBVIOUS
  <2>2. i = at[r][1] \/ i < at[r][1]
    BY <1>1, <1>2, <2>1
  <2> QED
    BY <1>1, <2>1, <2>2, ElementDone DEF ProgressOf
<1>4. \A i \in DOMAIN input[r].body : i < at[r][1] + 1 => Delivered(r, i)'
    BY <1>1, <1>3, DeliveredKept
<1>5. CASE at[r][1] >= Len(input[r].body)
  <2>1. stage'[r] = "answered"
    BY <1>5, Answered DEF Advance
  <2>2. \A i \in DOMAIN input'[r].body : Delivered(r, i)'
    BY <1>1, <1>2, <1>4, <1>5
  <2> QED
    BY <2>1, <2>2 DEF AllowedOf, ProgressOf
<1>6. CASE ~(at[r][1] >= Len(input[r].body))
  <2>1. /\ stage'[r] = "channel" /\ at'[r] = <<at[r][1] + 1, 1>> /\ status'[r] = status[r]
    BY <1>1, <1>6 DEF Advance, TypeOK
  <2>2. status'[r] # 200 /\ status'[r] = None
    BY <1>1, <2>1, PublishAssumption DEF ProgressOf, Answers
  <2>3. at[r][1] + 1 \in Nat \ {0} /\ at[r][1] + 1 <= Len(input[r].body)
    BY <1>1, <1>2, <1>6
  <2>4. DOMAIN Channels(r)' \subseteq Nat \ {0}
    <3>1. PICK j \in Nat \ {0} : j = at[r][1] + 1
        BY <2>3
    <3>2. /\ DOMAIN input[r].body[j].channels = 1..Len(input[r].body[j].channels)
          /\ Len(input[r].body[j].channels) \in Nat
        BY <2>3, <3>1, ChannelsNamed
    <3>3. Channels(r)' = input[r].body[j].channels
        BY <1>1, <2>1, <3>1 DEF Channels, Element
    <3> QED
        BY <3>2, <3>3
  <2>5. \A c \in DOMAIN Channels(r)' : ~(c < at'[r][2])
    BY <2>1, <2>4
  <2>6. \A i \in DOMAIN input'[r].body : i < at'[r][1] => Delivered(r, i)'
    BY <1>1, <1>4, <2>1
  <2>7. ProgressOf(r)'
    BY <2>1, <2>2, <2>5, <2>6 DEF ProgressOf
  <2>8. AllowedOf(r)'
    BY <1>1, <2>1 DEF AllowedOf
  <2> QED
    BY <2>7, <2>8
<1> QED
    BY <1>5, <1>6

\* A refusal or a failure is not answered as a success.
LEMMA Failing ==
    ASSUME IInv, NEW r \in Requests, RefuseElement(r) \/ RefuseChannel(r) \/ GiveUp(r)
    PROVE  AllowedOf(r)' /\ ProgressOf(r)'
<1> USE DEF IInv
<1>1. Malformed(r) # 200
    BY DEF Malformed
<1>2. stage'[r] = "answered" /\ status'[r] # 200
    BY <1>1, Answered DEF RefuseElement, RefuseChannel, GiveUp
<1> QED
    BY <1>2 DEF AllowedOf, ProgressOf

\* What a broadcast was asked, once it is on its way.
LEMMA ReachedMeans ==
    ASSUME TypeOK, NEW r \in Requests, NEW n, Reached(r, n) = 200
    PROVE  /\ Valid(n[2])
           /\ input[r].door = "route" => n[2] \in Readable[input[r].by]
           /\ input[r].door = "socket" =>
                 ClientEvents /\ Kind[n[2]] \in Guarded /\ n \in seats[input[r].by]
<1>1. Valid(n[2])
  <2>1. ~Valid(n[2]) => Reached(r, n) = IF input[r].door = "socket" THEN 4200 ELSE 400
    BY DEF Reached
  <2> QED
    BY <2>1
<1>2. input[r].door = "route" => n[2] \in Readable[input[r].by]
    BY <1>1 DEF Reached
<1>3. input[r].door = "socket" => Accept(r, n) = 200
    BY <1>1 DEF Reached
<1>4. Accept(r, n) = 200 => ClientEvents /\ Kind[n[2]] \in Guarded /\ n \in seats[input[r].by]
    BY DEF Accept
<1> QED
    BY <1>1, <1>2, <1>3, <1>4

LEMMA BroadcastOwn ==
    ASSUME IInv, NEW r \in Requests, Broadcast(r)
    PROVE  AllowedOf(r)' /\ ProgressOf(r)'
<1> USE DEF IInv
<1>1. /\ input' = input /\ got' = got /\ carried' = carried /\ loyal' = loyal /\ seats' = seats
      /\ at' = at /\ status' = status /\ stage[r] = "channel" /\ stage'[r] = "delivering"
      /\ Owed(r) /\ ~Ill(r) /\ Reached(r, Present(r)) = 200 /\ to'[r] = Audience(r, Present(r))
    BY DEF Broadcast, Pending, Present, TypeOK
<1>2. Entered(input[r]) = 200
    BY <1>1 DEF AllowedOf
<1>3. /\ Present(r)' = Present(r) /\ Element(r)' = Element(r) /\ Channels(r)' = Channels(r)
      /\ (Owed(r)' <=> Owed(r)) /\ (Ill(r)' <=> Ill(r)) /\ Spared(r)' = Spared(r)
      /\ Tenant(r)' = Tenant(r)
      /\ \A s : Copy(r, s)' = Copy(r, s)
    BY <1>1 DEF Present, Element, Channels, Owed, Ill, Spared, Tenant, NewChannelName, Copy
<1>4. Present(r) \in Names /\ Present(r)[1] = Tenant(r)
    BY <1>1, <1>2, PresentNamed
<1>5. \A s \in Audience(r, Present(r)) : Owner[s] = Tenant(r) /\ s # Spared(r)
    BY <1>4 DEF Audience, AudienceOK
<1>6. AllowedOf(r)'
  <2>1. /\ input[r].door = "route" => Present(r)[2] \in Readable[input[r].by]
        /\ input[r].door = "socket" =>
              ClientEvents /\ Kind[Present(r)[2]] \in Guarded /\ Present(r) \in seats[input[r].by]
    BY <1>1, ReachedMeans
  <2> QED
    BY <1>1, <1>2, <1>3, <1>5, <2>1 DEF AllowedOf
<1>7. \A s \in Sockets : <<s, Present(r)>> \in loyal[r] /\ s # Spared(r) => s \in to'[r]
    BY <1>1, <1>4 DEF AudienceOK, Audience
<1>8. ProgressOf(r)'
  <2>1. \A i : Delivered(r, i) => Delivered(r, i)'
    BY <1>1, DeliveredKept
  <2>2. \A i, c : DeliveredAt(r, i, c) => DeliveredAt(r, i, c)'
    BY <1>1, DeliveredMore
  <2>3. /\ \A i \in DOMAIN input'[r].body : i < at'[r][1] => Delivered(r, i)'
        /\ at'[r][1] \in DOMAIN input'[r].body =>
              \A c \in DOMAIN Channels(r)' : c < at'[r][2] => DeliveredAt(r, at[r][1], c)'
    BY <1>1, <1>3, <2>1, <2>2 DEF ProgressOf
  <2>4. status'[r] = None /\ None # 200
    BY <1>1, PublishAssumption DEF ProgressOf, Answers
  <2> QED
    BY <1>1, <1>3, <1>7, <2>3, <2>4 DEF ProgressOf
<1> QED
    BY <1>6, <1>8

LEMMA DeliverOwn ==
    ASSUME IInv, NEW r \in Requests, NEW s \in Sockets, Deliver(r, s)
    PROVE  AllowedOf(r)' /\ ProgressOf(r)'
<1> USE DEF IInv
<1>1. /\ input' = input /\ carried' = carried /\ loyal' = loyal /\ seats' = seats
      /\ at' = at /\ status' = status /\ stage[r] = "delivering" /\ stage'[r] = "delivering"
      /\ to'[r] = to[r] \ {s} /\ got \subseteq got' /\ (sink[s] => Copy(r, s) \in got')
    BY DEF Deliver, TypeOK
<1>2. Entered(input[r]) = 200 /\ Owed(r)
    BY <1>1 DEF AllowedOf
<1>3. /\ Present(r)' = Present(r) /\ Element(r)' = Element(r) /\ Channels(r)' = Channels(r)
      /\ (Owed(r)' <=> Owed(r)) /\ (Ill(r)' <=> Ill(r)) /\ Spared(r)' = Spared(r)
      /\ Tenant(r)' = Tenant(r)
      /\ \A t : Copy(r, t)' = Copy(r, t)
    BY <1>1 DEF Present, Element, Channels, Owed, Ill, Spared, Tenant, NewChannelName, Copy
<1>4. AllowedOf(r)'
    BY <1>1, <1>3 DEF AllowedOf
<1>5. Present(r) \in Names
    BY <1>2, PresentNamed
<1>6. \A t \in Sockets : <<t, Present(r)>> \in loyal[r] /\ t # Spared(r) =>
          t \in to'[r] \/ Copy(r, t) \in got'
  <2>1. SUFFICES ASSUME NEW t \in Sockets, <<t, Present(r)>> \in loyal[r], t # Spared(r)
                 PROVE  t \in to'[r] \/ Copy(r, t) \in got'
    OBVIOUS
  <2>2. t \in to[r] \/ Copy(r, t) \in got
    BY <1>1, <2>1 DEF ProgressOf
  <2>3. sink[t]
    BY <1>5, <2>1 DEF AudienceOK
  <2> QED
    BY <1>1, <2>2, <2>3
<1>7. ProgressOf(r)'
  <2>1. \A i : Delivered(r, i) => Delivered(r, i)'
    BY <1>1, DeliveredKept
  <2>2. \A i, c : DeliveredAt(r, i, c) => DeliveredAt(r, i, c)'
    BY <1>1, DeliveredMore
  <2>3. /\ \A i \in DOMAIN input'[r].body : i < at'[r][1] => Delivered(r, i)'
        /\ at'[r][1] \in DOMAIN input'[r].body =>
              \A c \in DOMAIN Channels(r)' : c < at'[r][2] => DeliveredAt(r, at[r][1], c)'
    BY <1>1, <1>3, <2>1, <2>2 DEF ProgressOf
  <2>4. status'[r] = None /\ None # 200
    BY <1>1, PublishAssumption DEF ProgressOf, Answers
  <2> QED
    BY <1>1, <1>3, <1>6, <2>3, <2>4 DEF ProgressOf
<1> QED
    BY <1>4, <1>7

LEMMA CarryOwn ==
    ASSUME IInv, NEW r \in Requests, Carry(r)
    PROVE  AllowedOf(r)' /\ ProgressOf(r)'
<1> USE DEF IInv
<1>1. /\ input' = input /\ got' = got /\ loyal' = loyal /\ status' = status
      /\ stage[r] = "delivering" /\ stage'[r] = "channel" /\ to[r] = {}
      /\ at'[r] = <<at[r][1], at[r][2] + 1>> /\ carried \subseteq carried'
      /\ [request |-> r, element |-> at[r][1], name |-> Present(r)] \in carried'
    BY DEF Carry, TypeOK, Present
<1>2. Entered(input[r]) = 200 /\ Owed(r)
    BY <1>1 DEF AllowedOf
<1>3. AllowedOf(r)'
    BY <1>1, <1>2 DEF AllowedOf
<1>4. /\ at[r][1] \in Nat \ {0} /\ at[r][2] \in Nat \ {0}
      /\ at[r][1] \in DOMAIN input[r].body /\ at[r][2] \in DOMAIN Channels(r)
      /\ DOMAIN Channels(r) \subseteq Nat
  <2>1. at[r][1] \in Nat \ {0} /\ at[r][2] \in Nat \ {0} /\ at[r][1] <= Len(input[r].body)
    BY <1>2 DEF TypeOK, Owed
  <2>2. DOMAIN Channels(r) \subseteq Nat
    <3>1. PICK i \in Nat \ {0} : i = at[r][1]
        BY <2>1
    <3>2. i <= Len(input[r].body) /\ Channels(r) = input[r].body[i].channels
        BY <2>1, <3>1 DEF Channels, Element
    <3>3. /\ DOMAIN input[r].body[i].channels = 1..Len(input[r].body[i].channels)
          /\ Len(input[r].body[i].channels) \in Nat
        BY <3>2, ChannelsNamed
    <3> QED
        BY ONLY <3>2, <3>3
  <2> QED
    BY <1>2, <2>1, <2>2, PresentNamed
<1>5. PICK i \in Nat \ {0}, c \in Nat \ {0} : i = at[r][1] /\ c = at[r][2]
    BY <1>4
<1>6. DeliveredAt(r, i, c)'
  <2>1. Present(r) = NewChannelName(r, input[r].body[i].channels[c])
    BY <1>5 DEF Present, Channels, Element
  <2>2. Spared(r) = SparedBy(r, i)
    BY <1>5 DEF Spared, SparedBy, Element
  <2>3. \A s : Copy(r, s) = [socket |-> s, request |-> r, element |-> i, name |-> Present(r)]
    BY <1>5 DEF Copy, Present
  <2>4. \A s \in Sockets : <<s, Present(r)>> \in loyal[r] /\ s # SparedBy(r, i) =>
            [socket |-> s, request |-> r, element |-> i, name |-> Present(r)] \in got
    BY <1>1, <2>2, <2>3 DEF ProgressOf
  <2> QED
    BY <1>1, <1>5, <2>1, <2>4 DEF DeliveredAt, SparedBy, NewChannelName, Tenant
<1>7. \A j \in DOMAIN input[r].body : j < i => Delivered(r, j)'
    BY <1>1, <1>5, DeliveredKept DEF ProgressOf
<1>8. \A d \in DOMAIN Channels(r) : d < c + 1 => DeliveredAt(r, i, d)'
  <2>1. \A d \in DOMAIN Channels(r) : d < c => DeliveredAt(r, i, d)'
    BY <1>1, <1>4, <1>5, DeliveredMore DEF ProgressOf
  <2>2. \A d \in DOMAIN Channels(r) : d < c + 1 => d < c \/ d = c
    BY <1>4
  <2> QED
    BY <1>6, <2>1, <2>2
<1>9. ProgressOf(r)'
  <2>1. Channels(r)' = Channels(r)
    BY <1>1 DEF Channels, Element
  <2>2. status'[r] = None /\ None # 200
    BY <1>1, PublishAssumption DEF ProgressOf, Answers
  <2>3. \A d : DeliveredAt(r, at[r][1], d)' <=> DeliveredAt(r, i, d)'
    BY <1>1, <1>5
  <2> QED
    BY <1>1, <1>5, <1>7, <1>8, <2>1, <2>2, <2>3 DEF ProgressOf
<1> QED
    BY <1>3, <1>9

-----------------------------------------------------------------------------
(* The parts of the invariant                                              *)

LEMMA TypeStep ==
    ASSUME IInv, [Next]_vars
    PROVE  TypeOK' /\ loyal' \in [Requests -> SUBSET (Sockets \X Names)]
<1> USE DEF IInv
<1>1. ASSUME NEW r \in Requests, Enter(r)
      PROVE  TypeOK' /\ loyal' \in [Requests -> SUBSET (Sockets \X Names)]
  <2>1. Entered(input[r]) \in Answers
    BY DEF Entered, Answers
  <2>2. stage' \in [Requests -> Stages] /\ status' \in [Requests -> Answers \union {None}]
    <3>1. stage \in [Requests -> Stages] /\ status \in [Requests -> Answers \union {None}]
        BY DEF TypeOK
    <3>2. CASE Answer(r, Entered(input[r]))
        BY <2>1, <3>1, <3>2 DEF Answer, Stages
    <3>3. CASE stage' = [stage EXCEPT ![r] = "channel"] /\ status' = status
        BY <3>1, <3>3 DEF Stages
    <3> QED
        BY <1>1, <3>2, <3>3 DEF Enter
  <2> QED
    BY <1>1, <2>2 DEF Enter, TypeOK
<1>2. ASSUME NEW r \in Requests, Advance(r)
      PROVE  TypeOK' /\ loyal' \in [Requests -> SUBSET (Sockets \X Names)]
  <2>1. stage' \in [Requests -> Stages] /\ status' \in [Requests -> Answers \union {None}]
    <3>1. stage \in [Requests -> Stages] /\ status \in [Requests -> Answers \union {None}]
        BY DEF TypeOK
    <3>2. CASE Answer(r, 200)
        BY <3>1, <3>2 DEF Answer, Stages, Answers
    <3>3. CASE UNCHANGED <<stage, status>>
        BY <3>1, <3>3
    <3> QED
        BY <1>2, <3>2, <3>3 DEF Advance
  <2>2. at' \in [Requests -> (Nat \ {0}) \X (Nat \ {0})]
    <3>1. at \in [Requests -> (Nat \ {0}) \X (Nat \ {0})]
        BY DEF TypeOK
    <3>2. CASE at' = [at EXCEPT ![r] = <<@[1] + 1, 1>>]
        BY <3>1, <3>2
    <3> QED
        BY <1>2, <3>1, <3>2 DEF Advance
  <2>3. ASSUME NEW p \in Requests, input'[p].body # <<>>
        PROVE  at'[p][1] \in DOMAIN input'[p].body
    <3>1. DOMAIN input[p].body = 1..Len(input[p].body) /\ Len(input[p].body) \in Nat
        BY PublishAssumption DEF TypeOK, InputType
    <3>2. at[p][1] \in DOMAIN input[p].body /\ at[p][1] \in Nat \ {0}
        BY <1>2, <2>3 DEF Advance, TypeOK
    <3>3. at'[p] = at[p] \/ (at'[p][1] = at[p][1] + 1 /\ ~(at[p][1] >= Len(input[p].body)))
        BY <1>2 DEF Advance, TypeOK
    <3> QED
        BY <1>2, <3>1, <3>2, <3>3 DEF Advance
  <2> QED
    BY <1>2, <2>1, <2>2, <2>3 DEF Advance, TypeOK
<1>3. ASSUME NEW r \in Requests, RefuseElement(r)
      PROVE  TypeOK' /\ loyal' \in [Requests -> SUBSET (Sockets \X Names)]
  <2>1. stage' \in [Requests -> Stages] /\ status' \in [Requests -> Answers \union {None}]
    <3>1. PICK a \in Answers : a = Malformed(r)
        BY DEF Malformed, Answers
    <3>2. /\ stage' = [stage EXCEPT ![r] = "answered"]
          /\ status' = [status EXCEPT ![r] = a]
        BY <1>3, <3>1 DEF RefuseElement, Answer
    <3>3. stage \in [Requests -> Stages] /\ status \in [Requests -> Answers \union {None}]
        BY DEF TypeOK
    <3> QED
        BY ONLY <3>1, <3>2, <3>3, r \in Requests DEF Stages
  <2> QED
    BY <1>3, <2>1 DEF RefuseElement, TypeOK
<1>4. ASSUME NEW r \in Requests, RefuseChannel(r)
      PROVE  TypeOK' /\ loyal' \in [Requests -> SUBSET (Sockets \X Names)]
  <2>1. Reached(r, Present(r)) \in Answers
    BY DEF Reached, Accept, Answers
  <2>2. stage' \in [Requests -> Stages] /\ status' \in [Requests -> Answers \union {None}]
    BY <1>4, <2>1 DEF RefuseChannel, Answer, TypeOK, Stages, Present
  <2> QED
    BY <1>4, <2>2 DEF RefuseChannel, TypeOK
<1>5. ASSUME NEW r \in Requests, Broadcast(r)
      PROVE  TypeOK' /\ loyal' \in [Requests -> SUBSET (Sockets \X Names)]
  <2>1. /\ stage' \in [Requests -> Stages] /\ to' \in [Requests -> SUBSET Sockets]
        /\ failed' \in [Requests -> BOOLEAN]
    BY <1>5 DEF Broadcast, Audience, TypeOK, Stages
  <2> QED
    BY <1>5, <2>1 DEF Broadcast, TypeOK
<1>6. ASSUME NEW r \in Requests, Carry(r)
      PROVE  TypeOK' /\ loyal' \in [Requests -> SUBSET (Sockets \X Names)]
  <2>1. stage[r] = "delivering" /\ Entered(input[r]) = 200 /\ Owed(r)
    BY <1>6 DEF Carry, AllowedOf
  <2>2. Present(r) \in Names
    BY <2>1, PresentNamed
  <2>3. \A c \in carried' : c.request \in Requests /\ c.name \in Names
    BY <1>6, <2>2 DEF Carry, TypeOK, Present
  <2>4. /\ stage' \in [Requests -> Stages] /\ at' \in [Requests -> (Nat \ {0}) \X (Nat \ {0})]
        /\ \A p \in Requests : at'[p][1] = at[p][1]
    BY <1>6 DEF Carry, TypeOK, Stages
  <2> QED
    BY <1>6, <2>3, <2>4 DEF Carry, TypeOK
<1>7. ASSUME NEW r \in Requests, GiveUp(r)
      PROVE  TypeOK' /\ loyal' \in [Requests -> SUBSET (Sockets \X Names)]
  <2>1. stage' \in [Requests -> Stages] /\ status' \in [Requests -> Answers \union {None}]
    <3>1. PICK a \in Answers : Answer(r, a)
        BY <1>7 DEF GiveUp, Malformed, Answers
    <3>2. stage \in [Requests -> Stages] /\ status \in [Requests -> Answers \union {None}]
        BY DEF TypeOK
    <3> QED
        BY ONLY <3>1, <3>2, r \in Requests DEF Answer, Stages
  <2> QED
    BY <1>7, <2>1 DEF GiveUp, TypeOK
<1>8. ASSUME NEW r \in Requests, NEW s \in Sockets, Deliver(r, s)
      PROVE  TypeOK' /\ loyal' \in [Requests -> SUBSET (Sockets \X Names)]
  <2>1. stage[r] = "delivering" /\ Entered(input[r]) = 200 /\ Owed(r)
    BY <1>8 DEF Deliver, AllowedOf
  <2>2. Present(r) \in Names
    BY <2>1, PresentNamed
  <2>3. \A g \in got' : g.socket \in Sockets /\ g.request \in Requests /\ g.name \in Names
    BY <1>8, <2>2 DEF Deliver, TypeOK, Copy, Present
  <2>4. to' \in [Requests -> SUBSET Sockets] /\ failed' \in [Requests -> BOOLEAN]
    BY <1>8 DEF Deliver, TypeOK
  <2> QED
    BY <1>8, <2>3, <2>4 DEF Deliver, TypeOK
<1>9. ASSUME NEW s \in Sockets, NEW n \in Names, Leave(s, n)
      PROVE  TypeOK' /\ loyal' \in [Requests -> SUBSET (Sockets \X Names)]
    BY <1>9, PublishAssumption DEF Leave, TypeOK
<1>10. ASSUME NEW s \in Sockets, SinkFails(s)
      PROVE  TypeOK' /\ loyal' \in [Requests -> SUBSET (Sockets \X Names)]
    BY <1>10, PublishAssumption DEF SinkFails, TypeOK
<1>11. CASE UNCHANGED vars
    BY <1>11 DEF vars, TypeOK
<1> HIDE DEF IInv
<1> QED
    BY <1>1, <1>2, <1>3, <1>4, <1>5, <1>6, <1>7, <1>8, <1>9, <1>10, <1>11, StepCases

LEMMA AudienceStep ==
    ASSUME IInv, [Next]_vars
    PROVE  AudienceOK'
<1> USE DEF IInv
<1>1. ASSUME NEW r \in Requests, Enter(r)
      PROVE  AudienceOK'
    BY <1>1 DEF Enter, AudienceOK, TypeOK
<1>2. ASSUME NEW s \in Sockets, NEW n \in Names, Leave(s, n)
      PROVE  AudienceOK'
  <2>1. \A t \in Sockets : \A m : m \in seats'[t] <=> m \in seats[t] /\ ~(t = s /\ m = n)
    BY <1>2 DEF Leave, TypeOK
  <2>2. \A p \in Requests : loyal'[p] = loyal[p] \ {<<s, n>>}
    BY <1>2 DEF Leave
  <2> QED
    BY <1>2, <2>1, <2>2 DEF Leave, AudienceOK
<1>3. ASSUME NEW s \in Sockets, SinkFails(s)
      PROVE  AudienceOK'
  <2>1. \A t \in Sockets : sink'[t] = IF t = s THEN FALSE ELSE sink[t]
    BY <1>3 DEF SinkFails, TypeOK
  <2>2. \A p \in Requests : loyal'[p] = {q \in loyal[p] : q[1] # s}
    BY <1>3 DEF SinkFails
  <2> QED
    BY <1>3, <2>1, <2>2 DEF SinkFails, AudienceOK
<1>4. ASSUME UNCHANGED <<loyal, sink, seats>>
      PROVE  AudienceOK'
    BY <1>4 DEF AudienceOK
<1>5. ASSUME \/ \E r \in Requests : Advance(r) \/ RefuseElement(r) \/ RefuseChannel(r)
                                     \/ Broadcast(r) \/ Carry(r) \/ GiveUp(r)
             \/ \E r \in Requests : \E s \in Sockets : Deliver(r, s)
             \/ UNCHANGED vars
      PROVE  UNCHANGED <<loyal, sink, seats>>
    BY <1>5 DEF Advance, RefuseElement, RefuseChannel, Broadcast, Carry, GiveUp, Deliver, vars
<1> HIDE DEF IInv
<1> QED
    BY <1>1, <1>2, <1>3, <1>4, <1>5, StepCases

LEMMA RequestStep ==
    ASSUME IInv, [Next]_vars, NEW p \in Requests
    PROVE  AllowedOf(p)' /\ ProgressOf(p)'
<1> USE DEF IInv
<1>1. ASSUME NEW r \in Requests, r # p,
             Enter(r) \/ Advance(r) \/ RefuseElement(r) \/ RefuseChannel(r)
                 \/ Broadcast(r) \/ Carry(r) \/ GiveUp(r) \/ \E s \in Sockets : Deliver(r, s)
      PROVE  AllowedOf(p)' /\ ProgressOf(p)'
  <2>1. input' = input /\ seats' = seats
    BY <1>1 DEF Enter, Advance, RefuseElement, RefuseChannel, Broadcast, Carry, GiveUp, Deliver
  <2>2. stage'[p] = stage[p] /\ at'[p] = at[p] /\ to'[p] = to[p] /\ status'[p] = status[p]
    BY <1>1 DEF Enter, Advance, RefuseElement, RefuseChannel, Broadcast, Carry, GiveUp, Deliver,
                Answer, TypeOK
  <2>3. got \subseteq got' /\ carried \subseteq carried' /\ loyal'[p] = loyal[p]
    BY <1>1 DEF Enter, Advance, RefuseElement, RefuseChannel, Broadcast, Carry, GiveUp, Deliver
  <2> QED
    BY <2>1, <2>2, <2>3, OtherKept
<1>2. ASSUME NEW s \in Sockets, NEW n \in Names, Leave(s, n)
      PROVE  AllowedOf(p)' /\ ProgressOf(p)'
  <2>1. /\ input' = input /\ stage' = stage /\ at' = at /\ to' = to /\ status' = status
        /\ got' = got /\ carried' = carried /\ loyal'[p] \subseteq loyal[p]
    BY <1>2 DEF Leave
  <2>2. stage[p] = "delivering" /\ input[p].door = "socket" => input[p].by # s
    BY <1>2 DEF Leave, Whispering
  <2>3. \A t : t # s => seats'[t] = seats[t]
    BY <1>2 DEF Leave, TypeOK
  <2> QED
    BY <2>1, <2>2, <2>3, OtherKept
<1>3. ASSUME NEW s \in Sockets, SinkFails(s)
      PROVE  AllowedOf(p)' /\ ProgressOf(p)'
  <2>1. /\ input' = input /\ stage' = stage /\ at' = at /\ to' = to /\ status' = status
        /\ got' = got /\ carried' = carried /\ loyal'[p] \subseteq loyal[p] /\ seats' = seats
    BY <1>3 DEF SinkFails
  <2> QED
    BY <2>1, OtherKept
<1>4. CASE UNCHANGED vars
  <2>1. /\ input' = input /\ stage' = stage /\ at' = at /\ to' = to /\ status' = status
        /\ got' = got /\ carried' = carried /\ loyal' = loyal /\ seats' = seats
    BY <1>4 DEF vars
  <2> QED
    BY <2>1, OtherKept
<1> HIDE DEF IInv
<1>5. ASSUME NEW r \in Requests,
             Enter(r) \/ Advance(r) \/ RefuseElement(r) \/ RefuseChannel(r)
                 \/ Broadcast(r) \/ Carry(r) \/ GiveUp(r) \/ \E s \in Sockets : Deliver(r, s)
      PROVE  AllowedOf(r)' /\ ProgressOf(r)'
    BY <1>5, EnterOwn, AdvanceOwn, Failing, BroadcastOwn, CarryOwn, DeliverOwn
<1> QED
    BY <1>1, <1>2, <1>3, <1>4, <1>5, StepCases

LEMMA TenantStep ==
    ASSUME IInv, [Next]_vars
    PROVE  TenantKept'
<1> USE DEF IInv
<1>1. ASSUME NEW r \in Requests, Carry(r)
      PROVE  TenantKept'
  <2>1. \A c \in carried' : c \in carried
            \/ (c.request = r /\ c.name = <<Tenant(r), Channels(r)[at[r][2]]>>)
    BY <1>1 DEF Carry, NewChannelName
  <2>2. input' = input /\ got' = got
    BY <1>1 DEF Carry
  <2> QED
    BY <2>1, <2>2 DEF TenantKept, Tenant
<1>2. ASSUME NEW r \in Requests, NEW s \in Sockets, Deliver(r, s)
      PROVE  TenantKept'
  <2>1. \A g \in got' : g \in got
            \/ (g.socket = s /\ g.request = r /\ g.name = <<Tenant(r), Channels(r)[at[r][2]]>>)
    BY <1>2 DEF Deliver, Copy, NewChannelName
  <2>2. input' = input /\ carried' = carried
    BY <1>2 DEF Deliver
  <2>3. Owner[s] = Tenant(r)
    BY <1>2 DEF Deliver, AllowedOf
  <2> QED
    BY <2>1, <2>2, <2>3 DEF TenantKept, Tenant
<1>3. ASSUME UNCHANGED <<input, got, carried>>
      PROVE  TenantKept'
    BY <1>3 DEF TenantKept, Tenant
<1>4. ASSUME \/ \E r \in Requests : Enter(r) \/ Advance(r) \/ RefuseElement(r)
                                     \/ RefuseChannel(r) \/ Broadcast(r) \/ GiveUp(r)
             \/ \E s \in Sockets : \E n \in Names : Leave(s, n)
             \/ \E s \in Sockets : SinkFails(s)
             \/ UNCHANGED vars
      PROVE  UNCHANGED <<input, got, carried>>
    BY <1>4 DEF Enter, Advance, RefuseElement, RefuseChannel, Broadcast, GiveUp, Leave,
                SinkFails, vars
<1> HIDE DEF IInv
<1> QED
    BY <1>1, <1>2, <1>3, <1>4, StepCases

\* The one step that writes to a socket, and what was asked before it.
LEMMA SpokenStep ==
    ASSUME IInv, [Next]_vars
    PROVE  SpokenByRight'
<1> USE DEF IInv
<1>1. ASSUME NEW r \in Requests, NEW s \in Sockets, Deliver(r, s)
      PROVE  SpokenByRight'
  <2>1. \A g \in got' : g \in got
            \/ /\ g.socket = s /\ g.request = r /\ g.element = at[r][1]
               /\ g.name = Present(r)
    BY <1>1 DEF Deliver, Copy, Present
  <2>2. input' = input /\ s \in to[r] /\ stage[r] = "delivering"
    BY <1>1 DEF Deliver
  <2>3. Entered(input[r]) = 200 /\ Owed(r) /\ ~Ill(r) /\ s # Spared(r)
    BY <2>2 DEF AllowedOf
  <2>4. /\ WellFormed(input[r], Element(r))
        /\ at[r][2] \in DOMAIN Channels(r)
        /\ Element(r) \in ElementType
    BY <2>3, PresentNamed DEF Ill, Owed
  <2>5. Element(r).channels # <<>>
    BY <2>4 DEF Channels
  <2>6. /\ Element(r).name \notin {"reserved", "none"}
        /\ input[r].door = "socket" => Element(r).name = "client"
    BY <2>4, <2>5 DEF WellFormed, ClientMaySend
  <2>7. input[r].door = "route" => input[r].by \in Operators
    BY <2>3, EnteredHasTenant
  <2>8. input[r].door = "socket" => s # input[r].by
    BY <2>3 DEF Spared
  <2>9. /\ input[r].door = "route" => Present(r)[2] \in Readable[input[r].by]
        /\ input[r].door = "socket" => ClientEvents /\ Kind[Present(r)[2]] \in Guarded
    BY <2>2 DEF AllowedOf
  <2> SUFFICES ASSUME NEW g \in got'
               PROVE  LET p == input[g.request]
                          e == p.body[g.element]
                      IN /\ e.name \notin {"reserved", "none"}
                         /\ p.door = "route" => p.by \in Operators /\ g.name[2] \in Readable[p.by]
                         /\ p.door = "socket" =>
                              /\ ClientEvents
                              /\ e.name = "client"
                              /\ Kind[g.name[2]] \in Guarded
                              /\ g.socket # p.by
    BY <2>2 DEF SpokenByRight
  <2>10. CASE g \in got
    BY <2>10 DEF SpokenByRight
  <2>11. CASE /\ g.socket = s /\ g.request = r /\ g.element = at[r][1]
              /\ g.name = Present(r)
    BY <2>11, <2>6, <2>7, <2>8, <2>9 DEF Element
  <2> QED
    BY <2>1, <2>10, <2>11
<1>2. ASSUME UNCHANGED <<input, got>>
      PROVE  SpokenByRight'
    BY <1>2 DEF SpokenByRight
<1>3. ASSUME \/ \E r \in Requests : Enter(r) \/ Advance(r) \/ RefuseElement(r)
                                     \/ RefuseChannel(r) \/ Broadcast(r) \/ Carry(r) \/ GiveUp(r)
             \/ \E s \in Sockets : \E n \in Names : Leave(s, n)
             \/ \E s \in Sockets : SinkFails(s)
             \/ UNCHANGED vars
      PROVE  UNCHANGED <<input, got>>
    BY <1>3 DEF Enter, Advance, RefuseElement, RefuseChannel, Broadcast, Carry, GiveUp, Leave,
                SinkFails, vars
<1> HIDE DEF IInv
<1> QED
    BY <1>1, <1>2, <1>3, StepCases

LEMMA InitHolds == Init => IInv
<1> SUFFICES ASSUME Init
             PROVE  IInv
    OBVIOUS
<1> USE DEF Init
<1>1. None # 200
    BY PublishAssumption DEF Answers
<1>2. \A r \in Requests : at[r] = <<1, 1>> /\ stage[r] = "new" /\ status[r] = None
    OBVIOUS
<1>3. \A r \in Requests : input[r].body # <<>> => at[r][1] \in DOMAIN input[r].body
  <2>1. SUFFICES ASSUME NEW r \in Requests, input[r].body # <<>>
                 PROVE  1 \in DOMAIN input[r].body
    BY <1>2
  <2>2. input[r].body \in Seq(ElementType)
    BY PublishAssumption DEF InputType
  <2> QED
    BY <2>1, <2>2
<1>4. TypeOK
    BY <1>3, PublishAssumption DEF TypeOK, Stages
<1>5. AudienceOK
    BY DEF AudienceOK
<1>6. \A r \in Requests : AllowedOf(r) /\ ProgressOf(r)
    BY <1>1, <1>2 DEF AllowedOf, ProgressOf
<1>7. loyal \in [Requests -> SUBSET (Sockets \X Names)]
    OBVIOUS
<1> QED
    BY <1>4, <1>5, <1>6, <1>7 DEF IInv, TenantKept, SpokenByRight

\* IInv is an invariant of every publish.
LEMMA Inductive == Spec => []IInv
<1>1. IInv /\ [Next]_vars => IInv'
    BY TypeStep, AudienceStep, RequestStep, TenantStep, SpokenStep, Zenon DEF IInv
<1> QED
    BY InitHolds, <1>1, PTL DEF Spec

-----------------------------------------------------------------------------
(* The theorems                                                            *)

\* For any requests, bodies and audience: an event is heard only by sockets of the
\* publisher's tenant, and only what an operator who may read the channel, or a
\* browser on it, was allowed to say. The checks are made once, before a broadcast
\* begins, and what they found holds until the last copy is written.
THEOREM HeardOnlyByRight == Spec => []HeardByRight
<1>1. IInv => HeardByRight
  <2>1. ASSUME IInv
        PROVE  WhispersFromInside
    BY <2>1 DEF IInv, AllowedOf, WhispersFromInside, Present
  <2> QED
    BY <2>1 DEF IInv, HeardByRight
<1> QED
    BY Inductive, <1>1, PTL

\* A publish answered 200 reached the fleet and every subscriber who was there from
\* start to end, on every channel of every element, whatever left or failed while
\* its loop ran.
THEOREM SuccessIsDelivery == Spec => []SuccessReachesAll
<1>1. IInv => SuccessReachesAll
    BY DEF IInv, ProgressOf, SuccessReachesAll
<1> QED
    BY Inductive, <1>1, PTL

=============================================================================
