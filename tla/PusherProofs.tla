---------------------------- MODULE PusherProofs ----------------------------
(***************************************************************************)
(* Proofs about Pusher, for any number of sockets, names and channel       *)
(* values. The invariants of Pusher that matter are not inductive one by   *)
(* one: that nobody sits on an orphaned channel needs every reservation to *)
(* be counted exactly, and every reference to a channel value to agree on  *)
(* the name it was made under. IInv is their conjunction.                  *)
(***************************************************************************)
EXTENDS Pusher, FiniteSetTheorems, TLAPS

-----------------------------------------------------------------------------
(* The inductive invariant                                                 *)

\* What a goroutine's stage says about the variables of its operation.
StageOf(s) ==
    /\ (pc[s] = "asking" \/ Joining(s) \/ pc[s] = "dropping") => cur[s] \in Names
    /\ (Joining(s) \/ pc[s] = "dropping") <=> held[s] \in Objects
    /\ (pc[s] \in {"absent", "idle", "asking"} \/ Joining(s)) => leaving[s] = {}
    /\ (pc[s] = "absent" \/ (Unseating(s) /\ closing[s])) => \A n \in Names : seats[s][n] = None
    /\ (pc[s] = "idle" \/ pc[s] = "asking" \/ Joining(s)) => ~closing[s]

StageOK == \A s \in Sockets : StageOf(s)

\* A goroutine past channel.Subscribe's critical section is on the channel.
Seated == \A s \in Sockets : pc[s] \in {"emitting", "taking"} => s \in subscribers[held[s]]

\* Something in the process knows object o as the channel of name n.
Refers(n, o) ==
    \/ channels[n] = o
    \/ \E s \in Sockets :
        \/ seats[s][n] = o
        \/ <<n, o>> \in leaving[s]
        \/ cur[s] = n /\ held[s] = o

\* A channel value has one name.
OneName ==
    \A o \in Objects : \A m, n \in Names : Refers(m, o) /\ Refers(n, o) => m = n

\* A goroutine between reach and take holds the channel the broker hands out.
Reserved == \A s \in Sockets : Joining(s) => channels[cur[s]] = held[s]

Typed == TypeOK /\ StageOK

IInv ==
    /\ Typed
    /\ JoiningExact
    /\ OneName
    /\ Reserved
    /\ Seated
    /\ NoOrphan
    /\ AccountedFor
    /\ NoLeak

Joiners(n) == {s \in Sockets : Joining(s) /\ cur[s] = n}

-----------------------------------------------------------------------------
(* Typing                                                                  *)

\* In every state of Init the invariant holds.
LEMMA InitIInv == Init => IInv
<1> SUFFICES ASSUME Init PROVE IInv
  OBVIOUS
<1> USE PusherAssumption DEF Init
<1>1. TypeOK
  BY DEF TypeOK, Maybe, Stages
<1>2. StageOK
  BY DEF StageOK, StageOf, Joining, Unseating
<1>3. JoiningExact
  <2> SUFFICES ASSUME NEW n \in Names
               PROVE  0 = Cardinality({s \in Sockets : Joining(s) /\ cur[s] = n})
    BY DEF JoiningExact
  <2>1. {s \in Sockets : Joining(s) /\ cur[s] = n} = {}
    BY DEF Joining
  <2> QED
    BY <2>1, FS_EmptySet
<1>4. OneName /\ Reserved /\ Seated /\ NoOrphan /\ AccountedFor /\ NoLeak
  BY DEF OneName, Refers, Reserved, Seated, NoOrphan, AccountedFor, NoLeak, Joining
<1> QED
  BY <1>1, <1>2, <1>3, <1>4 DEF IInv, Typed

\* Every variable keeps its type.
LEMMA TypeStep == Typed /\ [Next]_vars => TypeOK'
<1> SUFFICES ASSUME Typed, [Next]_vars PROVE TypeOK'
  OBVIOUS
<1> USE PusherAssumption DEF Typed, TypeOK, StageOK, Maybe, Stages, Goto, opVars
<1>1. CASE Next
  <2>1. ASSUME NEW s \in Sockets, Open(s) PROVE TypeOK'
    BY <2>1 DEF Open
  <2>2. ASSUME NEW s \in Sockets, SinkFails(s) PROVE TypeOK'
    BY <2>2 DEF SinkFails
  <2>3. ASSUME NEW s \in Sockets, NEW n \in Names, AskPolicy(s, n) PROVE TypeOK'
    BY <2>3 DEF AskPolicy
  <2>4. ASSUME NEW s \in Sockets, Deny(s) PROVE TypeOK'
    BY <2>4 DEF Deny
  <2>5. ASSUME NEW s \in Sockets, Reach(s) PROVE TypeOK'
    <3>1. cur[s] \in Names
      BY <2>5 DEF Reach, StageOf
    <3>2. PICK o \in Objects : FindOrCreate(cur[s], o) /\ held' = [held EXCEPT ![s] = o]
      BY <2>5 DEF Reach
    <3>3. channels' \in [Names -> Maybe]
      BY <3>1, <3>2 DEF FindOrCreate
    <3>4. subscribers' = subscribers \/ subscribers' = [subscribers EXCEPT ![o] = {}]
      BY <3>2 DEF FindOrCreate
    <3>5. subscribers' \in [Objects -> SUBSET Sockets]
      BY <3>4
    <3>6. joining' \in [Names -> Nat]
      BY <2>5, <3>1 DEF Reach
    <3> QED
      BY <2>5, <3>2, <3>3, <3>5, <3>6 DEF Reach
  <2>6. ASSUME NEW s \in Sockets, ChannelCreated(s) PROVE TypeOK'
    BY <2>6 DEF ChannelCreated
  <2>7. ASSUME NEW s \in Sockets, SubscribeRefused(s) PROVE TypeOK'
    BY <2>7 DEF SubscribeRefused
  <2>8. ASSUME NEW s \in Sockets, SubscribeSeats(s) PROVE TypeOK'
    <3>0. subscribers' = [subscribers EXCEPT ![held[s]] = @ \union {s}]
      BY <2>8 DEF SubscribeSeats
    <3>1. subscribers' \in [Objects -> SUBSET Sockets]
      <4>1. subscribers \in [Objects -> SUBSET Sockets]
        OBVIOUS
      <4> HIDE DEF Typed, TypeOK
      <4> QED
        BY <3>0, <4>1
    <3>2. audience' \in [Sockets -> SUBSET Sockets]
      <4>1. held[s] \in Objects
        BY <2>8 DEF SubscribeSeats, StageOf, Joining
      <4>2. \A announce \in BOOLEAN :
              SubscribeAudience(s, cur[s], held[s], announce) \in SUBSET Sockets
        BY <4>1 DEF SubscribeAudience
      <4> QED
        BY <2>8, <4>2 DEF SubscribeSeats
    <3>3. pc' \in [Sockets -> Stages]
      BY <2>8 DEF SubscribeSeats
    <3> QED
      BY <2>8, <3>1, <3>2, <3>3 DEF SubscribeSeats
  <2>9. ASSUME NEW s \in Sockets, Emit(s) PROVE TypeOK'
    BY <2>9 DEF Emit
  <2>10. ASSUME NEW s \in Sockets, Take(s) PROVE TypeOK'
    <3>1. joining' \in [Names -> Nat]
      <4>1. joining[cur[s]] \in Nat
        BY <2>10 DEF Take, StageOf, Joining
      <4>2. (IF joining[cur[s]] <= 1 THEN 0 ELSE joining[cur[s]] - 1) \in Nat
        BY <4>1
      <4> QED
        BY <2>10, <4>2 DEF Take, Released
    <3>2. seats' \in [Sockets -> [Names -> Maybe]]
      BY <2>10 DEF Take
    <3> QED
      BY <2>10, <3>1, <3>2 DEF Take
  <2>11. ASSUME NEW s \in Sockets, FinishJoining(s) PROVE TypeOK'
    <3>1. <<cur[s], held[s]>> \in Names \X Objects
      BY <2>11 DEF FinishJoining, StageOf, Joining
    <3>2. leaving' \in [Sockets -> SUBSET (Names \X Objects)]
      BY <2>11, <3>1 DEF FinishJoining
    <3>3. joining' \in [Names -> Nat]
      <4>1. joining[cur[s]] \in Nat
        BY <2>11 DEF FinishJoining, StageOf, Joining
      <4>2. (IF joining[cur[s]] <= 1 THEN 0 ELSE joining[cur[s]] - 1) \in Nat
        BY <4>1
      <4> QED
        BY <2>11, <4>2 DEF FinishJoining, Released
    <3> QED
      BY <2>11, <3>2, <3>3 DEF FinishJoining
  <2>12. ASSUME NEW s \in Sockets, NEW n \in Names, Part(s, n) PROVE TypeOK'
    <3>1. <<n, seats[s][n]>> \in Names \X Objects
      BY <2>12 DEF Part
    <3>2. leaving' \in [Sockets -> SUBSET (Names \X Objects)]
      BY <2>12, <3>1 DEF Part
    <3> QED
      BY <2>12, <3>2 DEF Part
  <2>13. ASSUME NEW s \in Sockets, Close(s) PROVE TypeOK'
    <3>1. {<<n, seats[s][n]>> : n \in SeatedNames(s)} \in SUBSET (Names \X Objects)
      BY DEF SeatedNames
    <3>2. leaving' \in [Sockets -> SUBSET (Names \X Objects)]
      BY <2>13, <3>1 DEF Close
    <3>3. sink' \in [Sockets -> BOOLEAN]
      BY <2>13 DEF Close, Ended
    <3> QED
      BY <2>13, <3>2, <3>3 DEF Close
  <2>14. ASSUME NEW s \in Sockets, Unsubscribe(s) PROVE TypeOK'
    <3>1. PICK seat \in leaving[s] :
            /\ cur' = [cur EXCEPT ![s] = seat[1]]
            /\ held' = [held EXCEPT ![s] = seat[2]]
            /\ subscribers' = [subscribers EXCEPT ![seat[2]] = @ \ {s}]
            /\ leaving' = [leaving EXCEPT ![s] = @ \ {seat}]
      BY <2>14 DEF Unsubscribe
    <3>2. seat[1] \in Names /\ seat[2] \in Objects
      OBVIOUS
    <3> QED
      BY <2>14, <3>1, <3>2 DEF Unsubscribe
  <2>15. ASSUME NEW s \in Sockets, Drop(s) PROVE TypeOK'
    <3>1. AfterUnseat(s) \in Stages
      BY DEF AfterUnseat
    <3>2. channels' \in [Names -> Maybe]
      BY <2>15 DEF Drop, Remove
    <3>3. sink' \in [Sockets -> BOOLEAN]
      BY <2>15 DEF Drop, Ended
    <3> QED
      BY <2>15, <3>1, <3>2, <3>3 DEF Drop
  <2>16. ASSUME NEW s \in Sockets, ChannelRemoved(s) PROVE TypeOK'
    <3>1. AfterUnseat(s) \in Stages
      BY DEF AfterUnseat
    <3>2. counted' \in Nat
      BY <2>16 DEF ChannelRemoved
    <3>3. sink' \in [Sockets -> BOOLEAN]
      BY <2>16 DEF ChannelRemoved, Ended
    <3> QED
      BY <2>16, <3>1, <3>2, <3>3 DEF ChannelRemoved
  <2> QED
    BY <1>1, <2>1, <2>2, <2>3, <2>4, <2>5, <2>6, <2>7, <2>8, <2>9, <2>10, <2>11, <2>12,
       <2>13, <2>14, <2>15, <2>16 DEF Next, Goroutine, Environment
<1>2. CASE UNCHANGED vars
  BY <1>2 DEF vars
<1> QED
  BY <1>1, <1>2

\* A goroutine's stage and the variables of its operation stay in step, and no
\* other goroutine touches them.
LEMMA StageStep == Typed /\ [Next]_vars => StageOK'
<1> SUFFICES ASSUME Typed, [Next]_vars, NEW t \in Sockets PROVE StageOf(t)'
  BY DEF StageOK
<1>0. StageOf(t) /\ TypeOK
  BY DEF Typed, StageOK
<1> USE <1>0, PusherAssumption DEF TypeOK, StageOf, Maybe, Joining, Unseating, Goto, opVars
<1>1. CASE Next
  <2>1. ASSUME NEW s \in Sockets, Open(s) PROVE StageOf(t)'
    BY <2>1 DEF Open
  <2>2. ASSUME NEW s \in Sockets, SinkFails(s) PROVE StageOf(t)'
    BY <2>2 DEF SinkFails
  <2>3. ASSUME NEW s \in Sockets, NEW n \in Names, AskPolicy(s, n) PROVE StageOf(t)'
    BY <2>3 DEF AskPolicy
  <2>4. ASSUME NEW s \in Sockets, Deny(s) PROVE StageOf(t)'
    BY <2>4 DEF Deny
  <2>5. ASSUME NEW s \in Sockets, Reach(s) PROVE StageOf(t)'
    <3>1. PICK o \in Objects : held' = [held EXCEPT ![s] = o]
      BY <2>5 DEF Reach
    <3> QED
      BY <2>5, <3>1 DEF Reach
  <2>6. ASSUME NEW s \in Sockets, ChannelCreated(s) PROVE StageOf(t)'
    BY <2>6 DEF ChannelCreated
  <2>7. ASSUME NEW s \in Sockets, SubscribeRefused(s) PROVE StageOf(t)'
    BY <2>7 DEF SubscribeRefused
  <2>8. ASSUME NEW s \in Sockets, SubscribeSeats(s) PROVE StageOf(t)'
    BY <2>8 DEF SubscribeSeats
  <2>9. ASSUME NEW s \in Sockets, Emit(s) PROVE StageOf(t)'
    BY <2>9 DEF Emit
  <2>10. ASSUME NEW s \in Sockets, Take(s) PROVE StageOf(t)'
    BY <2>10 DEF Take
  <2>11. ASSUME NEW s \in Sockets, FinishJoining(s) PROVE StageOf(t)'
    BY <2>11 DEF FinishJoining
  <2>12. ASSUME NEW s \in Sockets, NEW n \in Names, Part(s, n) PROVE StageOf(t)'
    BY <2>12 DEF Part
  <2>13. ASSUME NEW s \in Sockets, Close(s) PROVE StageOf(t)'
    <3>1. SeatedNames(s) = {} => {<<n, seats[s][n]>> : n \in SeatedNames(s)} = {}
      OBVIOUS
    <3> QED
      BY <2>13, <3>1 DEF Close
  <2>14. ASSUME NEW s \in Sockets, Unsubscribe(s) PROVE StageOf(t)'
    <3>1. PICK seat \in leaving[s] :
            /\ cur' = [cur EXCEPT ![s] = seat[1]]
            /\ held' = [held EXCEPT ![s] = seat[2]]
            /\ leaving' = [leaving EXCEPT ![s] = @ \ {seat}]
      BY <2>14 DEF Unsubscribe
    <3>2. seat[1] \in Names /\ seat[2] \in Objects
      OBVIOUS
    <3> QED
      BY <2>14, <3>1, <3>2 DEF Unsubscribe
  <2>15. ASSUME NEW s \in Sockets, Drop(s) PROVE StageOf(t)'
    <3>1. AfterUnseat(s) \in {"unseat", "absent", "idle"}
      BY DEF AfterUnseat
    <3>2. AfterUnseat(s) \in {"absent", "idle"} => leaving[s] = {}
      BY DEF AfterUnseat
    <3>3. /\ AfterUnseat(s) = "absent" => closing[s]
          /\ AfterUnseat(s) = "idle" => ~closing[s]
      BY DEF AfterUnseat
    <3>4. pc' = [pc EXCEPT ![s] = AfterUnseat(s)] \/ pc' = [pc EXCEPT ![s] = "gone"]
      BY <2>15 DEF Drop
    <3> QED
      BY <2>15, <3>1, <3>2, <3>3, <3>4 DEF Drop
  <2>16. ASSUME NEW s \in Sockets, ChannelRemoved(s) PROVE StageOf(t)'
    <3>1. AfterUnseat(s) \in {"unseat", "absent", "idle"}
      BY DEF AfterUnseat
    <3>2. AfterUnseat(s) \in {"absent", "idle"} => leaving[s] = {}
      BY DEF AfterUnseat
    <3>3. /\ AfterUnseat(s) = "absent" => closing[s]
          /\ AfterUnseat(s) = "idle" => ~closing[s]
      BY DEF AfterUnseat
    <3> QED
      BY <2>16, <3>1, <3>2, <3>3 DEF ChannelRemoved
  <2> QED
    BY <1>1, <2>1, <2>2, <2>3, <2>4, <2>5, <2>6, <2>7, <2>8, <2>9, <2>10, <2>11, <2>12,
       <2>13, <2>14, <2>15, <2>16 DEF Next, Goroutine, Environment
<1>2. CASE UNCHANGED vars
  BY <1>2 DEF vars
<1> QED
  BY <1>1, <1>2

-----------------------------------------------------------------------------
(* Reservations                                                            *)

\* reach adds one joiner, take and finishJoining remove one, and nothing else
\* moves a goroutine across that line.
LEMMA JoinersStep ==
    ASSUME Typed, Next, NEW n \in Names
    PROVE  \/ Joiners(n)' = Joiners(n) /\ joining'[n] = joining[n]
           \/ \E s \in Sockets :
                /\ s \notin Joiners(n)
                /\ Joiners(n)' = Joiners(n) \union {s}
                /\ joining'[n] = joining[n] + 1
           \/ \E s \in Joiners(n) :
                /\ Joiners(n)' = Joiners(n) \ {s}
                /\ joining'[n] = IF joining[n] <= 1 THEN 0 ELSE joining[n] - 1
<1> USE DEF Typed, TypeOK, StageOK, StageOf, Joiners, Joining, Goto, opVars
<1>1. ASSUME NEW s \in Sockets, Reach(s)
      PROVE  \/ Joiners(n)' = Joiners(n) /\ joining'[n] = joining[n]
             \/ /\ s \notin Joiners(n)
                /\ Joiners(n)' = Joiners(n) \union {s}
                /\ joining'[n] = joining[n] + 1
  BY <1>1 DEF Reach
<1>2. ASSUME NEW s \in Sockets, Take(s) \/ FinishJoining(s)
      PROVE  \/ Joiners(n)' = Joiners(n) /\ joining'[n] = joining[n]
             \/ /\ s \in Joiners(n)
                /\ Joiners(n)' = Joiners(n) \ {s}
                /\ joining'[n] = IF joining[n] <= 1 THEN 0 ELSE joining[n] - 1
  BY <1>2 DEF Take, FinishJoining, Released
<1>3. ASSUME NEW s \in Sockets,
             \/ Open(s) \/ SinkFails(s) \/ (\E m \in Names : AskPolicy(s, m) \/ Part(s, m))
             \/ Close(s) \/ Deny(s)
      PROVE  Joiners(n)' = Joiners(n) /\ joining'[n] = joining[n]
  BY <1>3 DEF Open, SinkFails, AskPolicy, Part, Close, Deny
<1>4. ASSUME NEW s \in Sockets,
             ChannelCreated(s) \/ SubscribeRefused(s) \/ SubscribeSeats(s) \/ Emit(s)
      PROVE  Joiners(n)' = Joiners(n) /\ joining'[n] = joining[n]
  BY <1>4 DEF ChannelCreated, SubscribeRefused, SubscribeSeats, Emit
<1>5. ASSUME NEW s \in Sockets, Unsubscribe(s) \/ Drop(s) \/ ChannelRemoved(s)
      PROVE  Joiners(n)' = Joiners(n) /\ joining'[n] = joining[n]
  BY <1>5 DEF Unsubscribe, Drop, ChannelRemoved, AfterUnseat
<1> QED
  BY <1>1, <1>2, <1>3, <1>4, <1>5 DEF Next, Goroutine, Environment

\* The count of a name is the number of goroutines holding a reservation on it.
LEMMA JoiningExactStep == Typed /\ JoiningExact /\ [Next]_vars => JoiningExact'
<1> SUFFICES ASSUME Typed, JoiningExact, [Next]_vars, NEW n \in Names
             PROVE  joining'[n] = Cardinality(Joiners(n)')
  BY DEF JoiningExact, Joiners
<1>1. IsFiniteSet(Joiners(n)) /\ joining[n] = Cardinality(Joiners(n))
  BY PusherAssumption, FS_Subset DEF Joiners, JoiningExact
<1>2. CASE Next
  <2>1. CASE Joiners(n)' = Joiners(n) /\ joining'[n] = joining[n]
    BY <1>1, <2>1
  <2>2. ASSUME NEW s \in Sockets,
               s \notin Joiners(n),
               Joiners(n)' = Joiners(n) \union {s},
               joining'[n] = joining[n] + 1
        PROVE  joining'[n] = Cardinality(Joiners(n)')
    BY <1>1, <2>2, FS_AddElement
  <2>3. ASSUME NEW s \in Joiners(n),
               Joiners(n)' = Joiners(n) \ {s},
               joining'[n] = IF joining[n] <= 1 THEN 0 ELSE joining[n] - 1
        PROVE  joining'[n] = Cardinality(Joiners(n)')
    <3>1. /\ Cardinality(Joiners(n) \ {s}) = Cardinality(Joiners(n)) - 1
          /\ IsFiniteSet(Joiners(n) \ {s})
      BY <1>1, FS_RemoveElement
    <3>2. Cardinality(Joiners(n) \ {s}) \in Nat /\ Cardinality(Joiners(n)) \in Nat
      BY <1>1, <3>1, FS_CardinalityType
    <3> QED
      BY <1>1, <2>3, <3>1, <3>2
  <2> QED
    BY <1>2, <2>1, <2>2, <2>3, JoinersStep
<1>3. CASE UNCHANGED vars
  BY <1>1, <1>3 DEF vars, Joiners, Joining
<1> QED
  BY <1>2, <1>3

\* A name somebody is joining is a name drop leaves alone.
LEMMA ReservationCounts ==
    ASSUME Typed, JoiningExact, NEW s \in Sockets, Joining(s)
    PROVE  joining[cur[s]] > 0
<1>1. s \in Joiners(cur[s]) /\ cur[s] \in Names
  BY DEF Joiners, Typed, StageOK, StageOf
<1>2. IsFiniteSet(Joiners(cur[s])) /\ joining[cur[s]] = Cardinality(Joiners(cur[s]))
  BY <1>1, PusherAssumption, FS_Subset DEF Joiners, JoiningExact
<1>3. Cardinality(Joiners(cur[s])) \in Nat /\ Cardinality(Joiners(cur[s])) # 0
  BY <1>1, <1>2, FS_CardinalityType, FS_EmptySet
<1> QED
  BY <1>2, <1>3

\* And a name nobody is joining has a count of none.
LEMMA NoReservation ==
    ASSUME Typed, JoiningExact, NEW n \in Names, joining[n] # 0
    PROVE  \E s \in Sockets : Joining(s) /\ cur[s] = n
<1>1. joining[n] = Cardinality(Joiners(n))
  BY DEF JoiningExact, Joiners
<1>2. Joiners(n) # {}
  BY <1>1, FS_EmptySet
<1> QED
  BY <1>2 DEF Joiners

-----------------------------------------------------------------------------
(* Channel values and their names                                          *)

\* Only reach makes a new reference, and only to the value the broker holds
\* under that name or to one nothing referred to.
LEMMA RefersStep ==
    ASSUME Typed, Next, NEW o \in Objects
    PROVE  \/ \A k \in Names : Refers(k, o)' => Refers(k, o)
           \/ \E c \in Names : Unreferenced(o) /\ \A k \in Names : Refers(k, o)' => k = c
<1> USE PusherAssumption DEF Typed, TypeOK, Maybe, Refers, opVars
<1>1. ASSUME NEW s \in Sockets, Reach(s)
      PROVE  \/ \A k \in Names : Refers(k, o)' => Refers(k, o)
             \/ \E c \in Names : Unreferenced(o) /\ \A k \in Names : Refers(k, o)' => k = c
  <2>1. cur[s] \in Names
    BY <1>1 DEF Reach, StageOK, StageOf
  <2>2. PICK p \in Objects : FindOrCreate(cur[s], p) /\ held' = [held EXCEPT ![s] = p]
    BY <1>1 DEF Reach
  <2>3. UNCHANGED <<seats, leaving, cur>>
    BY <1>1 DEF Reach
  <2>4. CASE channels[cur[s]] = p /\ UNCHANGED channels
    BY <2>1, <2>2, <2>3, <2>4
  <2>5. CASE Unreferenced(p) /\ channels' = [channels EXCEPT ![cur[s]] = p]
    <3>1. CASE o = p
      <4>1. ASSUME NEW k \in Names, Refers(k, o)' PROVE k = cur[s]
        BY <2>1, <2>2, <2>3, <2>5, <3>1, <4>1 DEF Unreferenced
      <4> QED
        BY <2>1, <2>5, <3>1, <4>1
    <3>2. CASE o # p
      BY <2>1, <2>2, <2>3, <2>5, <3>2
    <3> QED
      BY <3>1, <3>2
  <2> QED
    BY <2>2, <2>4, <2>5 DEF FindOrCreate
<1>2. ASSUME NEW s \in Sockets,
             \/ Open(s) \/ SinkFails(s) \/ (\E m \in Names : AskPolicy(s, m)) \/ Deny(s)
             \/ ChannelCreated(s) \/ SubscribeRefused(s) \/ SubscribeSeats(s) \/ Emit(s)
             \/ ChannelRemoved(s),
             NEW k \in Names, Refers(k, o)'
      PROVE  Refers(k, o)
  <2>1. UNCHANGED <<channels, seats, leaving, held>>
    BY <1>2 DEF Open, SinkFails, AskPolicy, Deny, ChannelCreated, SubscribeRefused,
                SubscribeSeats, Emit, ChannelRemoved
  <2>2. \A r \in Sockets : held[r] = o => cur'[r] = cur[r]
    <3>1. CASE Deny(s) \/ \E m \in Names : AskPolicy(s, m)
      <4>1. held[s] # o
        BY <3>1 DEF AskPolicy, Deny, StageOK, StageOf, Joining
      <4>2. \A r \in Sockets : r # s => cur'[r] = cur[r]
        BY <3>1 DEF AskPolicy, Deny
      <4> QED
        BY <4>1, <4>2
    <3>2. CASE Open(s) \/ SinkFails(s) \/ ChannelCreated(s) \/ SubscribeRefused(s)
      BY <3>2 DEF Open, SinkFails, ChannelCreated, SubscribeRefused
    <3>3. CASE SubscribeSeats(s) \/ Emit(s)
      BY <3>3 DEF SubscribeSeats, Emit
    <3>4. CASE ChannelRemoved(s)
      BY <3>4 DEF ChannelRemoved, StageOK, StageOf, Joining
    <3> QED
      BY <1>2, <3>1, <3>2, <3>3, <3>4
  <2> QED
    BY <1>2, <2>1, <2>2
<1>3. ASSUME NEW s \in Sockets, Take(s), NEW k \in Names, Refers(k, o)'
      PROVE  Refers(k, o)
  BY <1>3 DEF Take, StageOK, StageOf, Joining
<1>4. ASSUME NEW s \in Sockets, FinishJoining(s), NEW k \in Names, Refers(k, o)'
      PROVE  Refers(k, o)
  BY <1>4 DEF FinishJoining, StageOK, StageOf, Joining
<1>5. ASSUME NEW s \in Sockets, NEW m \in Names, Part(s, m), NEW k \in Names, Refers(k, o)'
      PROVE  Refers(k, o)
  BY <1>5 DEF Part
<1>6. ASSUME NEW s \in Sockets, Close(s), NEW k \in Names, Refers(k, o)'
      PROVE  Refers(k, o)
  BY <1>6 DEF Close, SeatedNames
<1>7. ASSUME NEW s \in Sockets, Unsubscribe(s), NEW k \in Names, Refers(k, o)'
      PROVE  Refers(k, o)
  <2>1. PICK seat \in leaving[s] :
          /\ cur' = [cur EXCEPT ![s] = seat[1]]
          /\ held' = [held EXCEPT ![s] = seat[2]]
          /\ leaving' = [leaving EXCEPT ![s] = @ \ {seat}]
    BY <1>7 DEF Unsubscribe
  <2>2. seat = <<seat[1], seat[2]>>
    OBVIOUS
  <2>3. UNCHANGED <<channels, seats>>
    BY <1>7 DEF Unsubscribe
  <2>4. \A r \in Sockets : leaving'[r] \subseteq leaving[r]
    BY <2>1
  <2>5. \A r \in Sockets : cur'[r] = k /\ held'[r] = o =>
          (cur[r] = k /\ held[r] = o) \/ <<k, o>> \in leaving[r]
    BY <2>1, <2>2
  <2> QED
    BY <1>7, <2>3, <2>4, <2>5
<1>8. ASSUME NEW s \in Sockets, Drop(s), NEW k \in Names, Refers(k, o)'
      PROVE  Refers(k, o)
  BY <1>8 DEF Drop, Remove
<1> QED
  BY <1>1, <1>2, <1>3, <1>4, <1>5, <1>6, <1>7, <1>8 DEF Next, Goroutine, Environment

\* A channel value keeps the one name it was made under.
LEMMA OneNameStep == Typed /\ OneName /\ [Next]_vars => OneName'
<1> SUFFICES ASSUME Typed, OneName, [Next]_vars,
                    NEW o \in Objects, NEW m \in Names, NEW n \in Names,
                    Refers(m, o)', Refers(n, o)'
             PROVE  m = n
  BY DEF OneName
<1>1. CASE Next
  BY <1>1, RefersStep DEF OneName
<1>2. CASE UNCHANGED vars
  BY <1>2 DEF OneName, Refers, vars
<1> QED
  BY <1>1, <1>2

-----------------------------------------------------------------------------
(* Seats and the broker                                                    *)

\* What reach does to the broker: it hands out what is there, or an empty value
\* nobody referred to. Who is on which channel does not change.
LEMMA ReachEffect ==
    ASSUME Typed, NoOrphan, NEW s \in Sockets, Reach(s)
    PROVE  /\ cur[s] \in Names
           /\ held'[s] \in Objects
           /\ held' = [held EXCEPT ![s] = held'[s]]
           /\ channels' = [channels EXCEPT ![cur[s]] = held'[s]]
           /\ channels[cur[s]] = held'[s] \/ (channels[cur[s]] = None /\ Unreferenced(held'[s]))
           /\ subscribers' = subscribers
<1> USE PusherAssumption DEF Typed, TypeOK, Maybe
<1>1. cur[s] \in Names
  BY DEF Reach, StageOK, StageOf
<1>2. PICK p \in Objects : FindOrCreate(cur[s], p) /\ held' = [held EXCEPT ![s] = p]
  BY DEF Reach
<1>3. held'[s] = p
  BY <1>2
<1>4. CASE channels[cur[s]] = p /\ UNCHANGED <<channels, subscribers>>
  BY <1>1, <1>2, <1>3, <1>4
<1>5. CASE /\ channels[cur[s]] = None
           /\ Unreferenced(p)
           /\ channels' = [channels EXCEPT ![cur[s]] = p]
           /\ subscribers' = [subscribers EXCEPT ![p] = {}]
  <2>1. subscribers[p] = {}
    BY <1>5 DEF NoOrphan, Unreferenced
  <2>2. subscribers' = subscribers
    BY <1>5, <2>1
  <2> QED
    BY <1>1, <1>2, <1>3, <1>5, <2>2
<1> QED
  BY <1>2, <1>4, <1>5 DEF FindOrCreate

\* What drop does to the broker: a name goes only when nobody is joining it and
\* nobody is on it.
LEMMA DropEffect ==
    ASSUME Typed, NEW s \in Sockets, Drop(s)
    PROVE  /\ cur[s] \in Names
           /\ \/ UNCHANGED channels
              \/ /\ channels' = [channels EXCEPT ![cur[s]] = None]
                 /\ joining[cur[s]] = 0
                 /\ channels[cur[s]] \in Objects
                 /\ subscribers[channels[cur[s]]] = {}
BY PusherAssumption DEF Drop, MayDrop, Remove, Typed, TypeOK, StageOK, StageOf, Maybe

\* A reservation keeps the broker's channel in place until the seat is taken.
LEMMA ReservedStep ==
    Typed /\ JoiningExact /\ NoOrphan /\ Reserved /\ [Next]_vars => Reserved'
<1> SUFFICES ASSUME Typed, JoiningExact, NoOrphan, Reserved, [Next]_vars,
                    NEW t \in Sockets, Joining(t)'
             PROVE  channels'[cur'[t]] = held'[t]
  BY DEF Reserved
<1> USE PusherAssumption DEF Typed, TypeOK, Maybe, Reserved, Joining, Goto, opVars
<1>1. ASSUME NEW s \in Sockets, Reach(s) PROVE channels'[cur'[t]] = held'[t]
  <2>1. UNCHANGED cur /\ pc' = [pc EXCEPT ![s] = pc'[s]]
    BY <1>1 DEF Reach
  <2>2. CASE t = s
    BY <1>1, <2>1, <2>2, ReachEffect
  <2>3. CASE t # s
    <3>1. Joining(t) /\ channels[cur[t]] = held[t] /\ held[t] \in Objects
      BY <2>1, <2>3 DEF StageOK, StageOf
    <3>2. /\ channels' = [channels EXCEPT ![cur[s]] = held'[s]]
          /\ channels[cur[s]] = held'[s] \/ channels[cur[s]] = None
          /\ held' = [held EXCEPT ![s] = held'[s]]
      BY <1>1, ReachEffect
    <3>3. held'[t] = held[t]
      BY <2>3, <3>2
    <3>4. channels'[cur[t]] = channels[cur[t]]
      BY <3>1, <3>2 DEF StageOK, StageOf
    <3> QED
      BY <2>1, <3>1, <3>3, <3>4
  <2> QED
    BY <2>2, <2>3
<1>2. ASSUME NEW s \in Sockets, Drop(s) PROVE channels'[cur'[t]] = held'[t]
  <2>1. t # s
    BY <1>2 DEF Drop, AfterUnseat
  <2>2. Joining(t) /\ cur'[t] = cur[t] /\ held'[t] = held[t]
    BY <1>2, <2>1 DEF Drop
  <2>3. channels[cur[t]] = held[t] /\ cur[t] \in Names /\ joining[cur[t]] > 0
    BY <2>2, ReservationCounts DEF StageOK, StageOf
  <2> QED
    BY <1>2, <2>2, <2>3, DropEffect
<1>3. ASSUME NEW s \in Sockets,
             \/ Open(s) \/ SinkFails(s) \/ (\E m \in Names : AskPolicy(s, m) \/ Part(s, m))
             \/ Close(s) \/ Deny(s)
      PROVE  channels'[cur'[t]] = held'[t]
  BY <1>3 DEF Open, SinkFails, AskPolicy, Part, Close, Deny
<1>4. ASSUME NEW s \in Sockets,
             ChannelCreated(s) \/ SubscribeRefused(s) \/ SubscribeSeats(s) \/ Emit(s)
      PROVE  channels'[cur'[t]] = held'[t]
  BY <1>4 DEF ChannelCreated, SubscribeRefused, SubscribeSeats, Emit
<1>5. ASSUME NEW s \in Sockets,
             Take(s) \/ FinishJoining(s) \/ Unsubscribe(s) \/ ChannelRemoved(s)
      PROVE  channels'[cur'[t]] = held'[t]
  BY <1>5 DEF Take, FinishJoining, Unsubscribe, ChannelRemoved, AfterUnseat
<1>6. CASE UNCHANGED vars
  BY <1>6 DEF vars
<1> QED
  BY <1>1, <1>2, <1>3, <1>4, <1>5, <1>6 DEF Next, Goroutine, Environment

\* A goroutine that went through channel.Subscribe stays on the channel until
\* its own unseat.
LEMMA SeatedStep == Typed /\ NoOrphan /\ Seated /\ [Next]_vars => Seated'
<1> SUFFICES ASSUME Typed, NoOrphan, Seated, [Next]_vars,
                    NEW t \in Sockets, pc'[t] \in {"emitting", "taking"}
             PROVE  t \in subscribers'[held'[t]]
  BY DEF Seated
<1> USE PusherAssumption DEF Typed, TypeOK, Maybe, Seated, Goto, opVars
<1>1. ASSUME NEW s \in Sockets, Reach(s) PROVE t \in subscribers'[held'[t]]
  <2>1. t # s /\ pc'[t] = pc[t]
    BY <1>1 DEF Reach
  <2>2. subscribers' = subscribers /\ held'[t] = held[t]
    BY <1>1, <2>1, ReachEffect
  <2> QED
    BY <2>1, <2>2
<1>2. ASSUME NEW s \in Sockets, SubscribeSeats(s) PROVE t \in subscribers'[held'[t]]
  <2>1. held[s] \in Objects /\ (t # s => held[t] \in Objects)
    BY <1>2 DEF SubscribeSeats, StageOK, StageOf, Joining
  <2> QED
    BY <1>2, <2>1 DEF SubscribeSeats
<1>3. ASSUME NEW s \in Sockets, Unsubscribe(s) PROVE t \in subscribers'[held'[t]]
  <2>1. t # s /\ pc'[t] = pc[t] /\ held'[t] = held[t]
    BY <1>3 DEF Unsubscribe
  <2>2. t \in subscribers[held[t]] /\ held[t] \in Objects
    BY <2>1 DEF StageOK, StageOf, Joining
  <2>3. PICK seat \in leaving[s] : subscribers' = [subscribers EXCEPT ![seat[2]] = @ \ {s}]
    BY <1>3 DEF Unsubscribe
  <2> QED
    BY <2>1, <2>2, <2>3
<1>4. ASSUME NEW s \in Sockets,
             \/ Open(s) \/ SinkFails(s) \/ (\E m \in Names : AskPolicy(s, m) \/ Part(s, m))
             \/ Close(s) \/ Deny(s) \/ ChannelCreated(s) \/ SubscribeRefused(s) \/ Emit(s)
      PROVE  t \in subscribers'[held'[t]]
  BY <1>4 DEF Open, SinkFails, AskPolicy, Part, Close, Deny, ChannelCreated, SubscribeRefused, Emit
<1>5. ASSUME NEW s \in Sockets, Take(s) \/ FinishJoining(s) \/ Drop(s) \/ ChannelRemoved(s)
      PROVE  t \in subscribers'[held'[t]]
  BY <1>5 DEF Take, FinishJoining, Drop, ChannelRemoved, AfterUnseat
<1>6. CASE UNCHANGED vars
  BY <1>6 DEF vars
<1> QED
  BY <1>1, <1>2, <1>3, <1>4, <1>5, <1>6 DEF Next, Goroutine, Environment

\* Nobody is left on a channel the broker does not hand out: reach changes no
\* one's seat, a join only seats on the reserved channel, and drop only removes
\* an empty one.
LEMMA NoOrphanStep == Typed /\ Reserved /\ NoOrphan /\ [Next]_vars => NoOrphan'
<1> SUFFICES ASSUME Typed, Reserved, NoOrphan, [Next]_vars,
                    NEW o \in Objects, subscribers'[o] # {}
             PROVE  \E n \in Names : channels'[n] = o
  BY DEF NoOrphan
<1> USE PusherAssumption DEF Typed, TypeOK, Maybe, NoOrphan, opVars
<1>1. ASSUME NEW s \in Sockets, Reach(s) PROVE \E n \in Names : channels'[n] = o
  <2>1. PICK n \in Names : channels[n] = o
    BY <1>1, ReachEffect
  <2>2. /\ channels' = [channels EXCEPT ![cur[s]] = held'[s]]
        /\ channels[cur[s]] = held'[s] \/ channels[cur[s]] = None
    BY <1>1, ReachEffect
  <2> QED
    BY <2>1, <2>2
<1>2. ASSUME NEW s \in Sockets, SubscribeSeats(s) PROVE \E n \in Names : channels'[n] = o
  <2>1. channels[cur[s]] = held[s] /\ cur[s] \in Names
    BY <1>2 DEF SubscribeSeats, Reserved, StageOK, StageOf, Joining
  <2>2. o = held[s] \/ subscribers[o] # {}
    BY <1>2 DEF SubscribeSeats
  <2> QED
    BY <1>2, <2>1, <2>2 DEF SubscribeSeats
<1>3. ASSUME NEW s \in Sockets, Unsubscribe(s) PROVE \E n \in Names : channels'[n] = o
  <2>1. PICK seat \in leaving[s] : subscribers' = [subscribers EXCEPT ![seat[2]] = @ \ {s}]
    BY <1>3 DEF Unsubscribe
  <2>2. subscribers[o] # {}
    BY <2>1
  <2> QED
    BY <1>3, <2>2 DEF Unsubscribe
<1>4. ASSUME NEW s \in Sockets, Drop(s) PROVE \E n \in Names : channels'[n] = o
  <2>1. subscribers[o] # {}
    BY <1>4 DEF Drop
  <2>2. PICK n \in Names : channels[n] = o
    BY <2>1
  <2>3. channels'[n] = channels[n]
    BY <1>4, <2>1, <2>2, DropEffect
  <2> QED
    BY <2>2, <2>3
<1>5. ASSUME NEW s \in Sockets,
             \/ Open(s) \/ SinkFails(s) \/ (\E m \in Names : AskPolicy(s, m) \/ Part(s, m))
             \/ Close(s) \/ Deny(s) \/ ChannelCreated(s) \/ SubscribeRefused(s) \/ Emit(s)
             \/ Take(s) \/ FinishJoining(s) \/ ChannelRemoved(s)
      PROVE  \E n \in Names : channels'[n] = o
  <2>1. UNCHANGED <<channels, subscribers>>
    BY <1>5 DEF Open, SinkFails, AskPolicy, Part, Close, Deny, ChannelCreated, SubscribeRefused,
                Emit, Take, FinishJoining, ChannelRemoved
  <2> QED
    BY <2>1
<1>6. CASE UNCHANGED vars
  BY <1>6 DEF vars
<1> QED
  BY <1>1, <1>2, <1>3, <1>4, <1>5, <1>6 DEF Next, Goroutine, Environment

\* A membership never drops off the books: take turns the join into a record,
\* finishJoining, part and Close turn either into an unseat.
LEMMA AccountedForStep ==
    Typed /\ OneName /\ Reserved /\ NoOrphan /\ AccountedFor /\ [Next]_vars => AccountedFor'
<1> DEFINE Booked(n, t) == \/ seats[t][n] = channels[n]
                           \/ Joining(t) /\ cur[t] = n /\ held[t] = channels[n]
                           \/ <<n, channels[n]>> \in leaving[t]
<1> SUFFICES ASSUME Typed, OneName, Reserved, NoOrphan, AccountedFor, [Next]_vars,
                    NEW n \in Names, NEW t \in Sockets,
                    channels'[n] # None, t \in subscribers'[channels'[n]]
             PROVE  Booked(n, t)'
  BY DEF AccountedFor
<1> USE PusherAssumption DEF Typed, TypeOK, Maybe, Joining, Goto, opVars
<1>1. ASSUME NEW s \in Sockets, Reach(s) PROVE Booked(n, t)'
  <2>1. /\ channels' = [channels EXCEPT ![cur[s]] = held'[s]]
        /\ channels[cur[s]] = held'[s] \/ (channels[cur[s]] = None /\ Unreferenced(held'[s]))
        /\ subscribers' = subscribers
        /\ held' = [held EXCEPT ![s] = held'[s]]
        /\ held'[s] \in Objects /\ cur[s] \in Names
    BY <1>1, ReachEffect
  <2>2. Unreferenced(held'[s]) => subscribers[held'[s]] = {}
    BY <2>1 DEF NoOrphan, Unreferenced
  <2>3. channels'[n] = channels[n]
    BY <2>1, <2>2
  <2>4. Booked(n, t)
    BY <2>1, <2>3 DEF AccountedFor
  <2>5. UNCHANGED <<seats, leaving, cur>> /\ pc' = [pc EXCEPT ![s] = pc'[s]] /\ pc[s] = "asking"
    BY <1>1 DEF Reach
  <2> QED
    BY ZenonT(30), <2>1, <2>3, <2>4, <2>5
<1>2. ASSUME NEW s \in Sockets, SubscribeSeats(s) PROVE Booked(n, t)'
  <2>1. /\ channels[cur[s]] = held[s] /\ cur[s] \in Names /\ held[s] \in Objects
        /\ Joining(s)' /\ UNCHANGED <<channels, seats, leaving, cur, held>>
    BY <1>2 DEF SubscribeSeats, Reserved, StageOK, StageOf
  <2>2. CASE t = s /\ channels[n] = held[s]
    <3>1. Refers(n, held[s]) /\ Refers(cur[s], held[s])
      BY <2>1, <2>2 DEF Refers
    <3>2. n = cur[s]
      BY <2>1, <3>1 DEF OneName
    <3> QED
      BY <2>1, <2>2, <3>2
  <2>3. CASE ~(t = s /\ channels[n] = held[s])
    <3>1. t \in subscribers[channels[n]]
      BY <1>2, <2>1, <2>3 DEF SubscribeSeats
    <3>2. Booked(n, t)
      BY <2>1, <3>1 DEF AccountedFor
    <3> QED
      BY <1>2, <2>1, <3>2 DEF SubscribeSeats
  <2> QED
    BY <2>2, <2>3
<1>3. ASSUME NEW s \in Sockets, Unsubscribe(s) PROVE Booked(n, t)'
  <2>1. PICK seat \in leaving[s] :
          /\ subscribers' = [subscribers EXCEPT ![seat[2]] = @ \ {s}]
          /\ leaving' = [leaving EXCEPT ![s] = @ \ {seat}]
    BY <1>3 DEF Unsubscribe
  <2>2. seat = <<seat[1], seat[2]>>
    OBVIOUS
  <2>3. /\ UNCHANGED <<channels, seats>>
        /\ \A r \in Sockets \ {s} : pc'[r] = pc[r] /\ cur'[r] = cur[r] /\ held'[r] = held[r]
        /\ pc[s] = "unseat"
    BY <1>3 DEF Unsubscribe
  <2>4. t \in subscribers[channels[n]]
    BY <2>1, <2>3
  <2>5. Booked(n, t)
    BY <2>3, <2>4 DEF AccountedFor
  <2>6. CASE t # s
    BY <2>1, <2>3, <2>5, <2>6
  <2>7. CASE t = s
    <3>1. channels[n] # seat[2]
      BY <2>1, <2>3, <2>7
    <3>2. <<n, channels[n]>> # seat
      BY <2>2, <3>1
    <3> QED
      BY <2>1, <2>3, <2>5, <2>7, <3>2
  <2> QED
    BY <2>6, <2>7
<1>4. ASSUME NEW s \in Sockets, Drop(s) PROVE Booked(n, t)'
  <2>1. channels'[n] = channels[n]
    BY <1>4, DropEffect
  <2>2. Booked(n, t)
    BY <1>4, <2>1 DEF Drop, AccountedFor
  <2>3. /\ UNCHANGED <<seats, leaving>>
        /\ \A r \in Sockets \ {s} : pc'[r] = pc[r] /\ cur'[r] = cur[r] /\ held'[r] = held[r]
        /\ pc[s] = "dropping"
    BY <1>4 DEF Drop
  <2> QED
    BY <2>1, <2>2, <2>3
<1>5. ASSUME NEW s \in Sockets,
             \/ Open(s) \/ SinkFails(s) \/ (\E m \in Names : AskPolicy(s, m) \/ Part(s, m))
             \/ Close(s) \/ Deny(s) \/ ChannelCreated(s) \/ SubscribeRefused(s) \/ Emit(s)
             \/ Take(s) \/ FinishJoining(s) \/ ChannelRemoved(s)
      PROVE  Booked(n, t)'
  <2>1. UNCHANGED <<channels, subscribers>>
    BY <1>5 DEF Open, SinkFails, AskPolicy, Part, Close, Deny, ChannelCreated, SubscribeRefused,
                Emit, Take, FinishJoining, ChannelRemoved
  <2>2. Booked(n, t)
    BY <2>1 DEF AccountedFor
  <2>3. CASE Open(s) \/ SinkFails(s) \/ (\E m \in Names : AskPolicy(s, m)) \/ Deny(s)
             \/ ChannelCreated(s) \/ SubscribeRefused(s) \/ Emit(s) \/ ChannelRemoved(s)
    BY <2>1, <2>2, <2>3 DEF Open, SinkFails, AskPolicy, Deny, ChannelCreated, SubscribeRefused,
                            Emit, ChannelRemoved
  <2>4. CASE \E m \in Names : Part(s, m)
    <3>1. PICK m \in Names : Part(s, m)
      BY <2>4
    <3> QED
      BY <2>1, <2>2, <3>1 DEF Part, StageOK, StageOf
  <2>5. CASE Close(s)
    BY <2>1, <2>2, <2>5 DEF Close, SeatedNames, StageOK, StageOf
  <2>6. CASE Take(s)
    <3>1. channels[cur[s]] = held[s] /\ cur[s] \in Names
      BY <2>6 DEF Take, Reserved, StageOK, StageOf
    <3> QED
      BY <2>1, <2>2, <2>6, <3>1 DEF Take
  <2>7. CASE FinishJoining(s)
    <3>1. leaving[s] = {}
      BY <2>7 DEF FinishJoining, StageOK, StageOf
    <3> QED
      BY <2>1, <2>2, <2>7, <3>1 DEF FinishJoining
  <2> QED
    BY <1>5, <2>3, <2>4, <2>5, <2>6, <2>7
<1>6. CASE UNCHANGED vars
  BY <1>6 DEF vars, AccountedFor
<1> QED
  BY <1>1, <1>2, <1>3, <1>4, <1>5, <1>6 DEF Next, Goroutine, Environment

\* An empty channel always has somebody about to fill it or to drop it.
LEMMA NoLeakStep == IInv /\ [Next]_vars => NoLeak'
<1> DEFINE Pending(n, r) == \/ Joining(r) /\ cur[r] = n
                            \/ pc[r] = "dropping" /\ cur[r] = n
                            \/ \E o \in Objects : <<n, o>> \in leaving[r]
<1> SUFFICES ASSUME IInv, [Next]_vars, NEW n \in Names,
                    channels'[n] # None, subscribers'[channels'[n]] = {}
             PROVE  \E r \in Sockets : Pending(n, r)'
  BY DEF NoLeak
<1> USE PusherAssumption DEF IInv, Typed, TypeOK, Maybe, Joining, Goto, opVars
<1>1. ASSUME NEW s \in Sockets, Reach(s) PROVE \E r \in Sockets : Pending(n, r)'
  <2>1. /\ channels' = [channels EXCEPT ![cur[s]] = held'[s]]
        /\ subscribers' = subscribers
    BY <1>1, ReachEffect
  <2>2. /\ UNCHANGED <<leaving, cur>> /\ pc[s] = "asking"
        /\ \A r \in Sockets \ {s} : pc'[r] = pc[r]
        /\ pc'[s] \in {"reached", "subscribing"}
    BY <1>1 DEF Reach
  <2>3. CASE n = cur[s]
    BY <2>2, <2>3
  <2>4. CASE n # cur[s]
    <3>1. PICK r \in Sockets : Pending(n, r)
      BY <2>1, <2>4 DEF NoLeak
    <3> QED
      BY <2>2, <2>4, <3>1 DEF StageOK, StageOf
  <2> QED
    BY <2>3, <2>4
<1>2. ASSUME NEW s \in Sockets, SubscribeSeats(s) PROVE \E r \in Sockets : Pending(n, r)'
  <2>1. UNCHANGED <<channels, leaving, cur>> /\ \A r \in Sockets : Joining(r) => Joining(r)'
    BY <1>2 DEF SubscribeSeats
  <2>2. \A r \in Sockets : pc[r] = "dropping" => pc'[r] = "dropping"
    BY <1>2 DEF SubscribeSeats
  <2>3. subscribers[channels[n]] = {}
    BY <1>2, <2>1 DEF SubscribeSeats
  <2>4. PICK r \in Sockets : Pending(n, r)
    BY <2>1, <2>3 DEF NoLeak
  <2> QED
    BY <2>1, <2>2, <2>4
<1>3. ASSUME NEW s \in Sockets, Unsubscribe(s) PROVE \E r \in Sockets : Pending(n, r)'
  <2>1. PICK seat \in leaving[s] :
          /\ cur' = [cur EXCEPT ![s] = seat[1]]
          /\ subscribers' = [subscribers EXCEPT ![seat[2]] = @ \ {s}]
          /\ leaving' = [leaving EXCEPT ![s] = @ \ {seat}]
    BY <1>3 DEF Unsubscribe
  <2>2. seat = <<seat[1], seat[2]>> /\ seat[1] \in Names /\ seat[2] \in Objects
    OBVIOUS
  <2>3. UNCHANGED channels /\ pc' = [pc EXCEPT ![s] = "dropping"] /\ pc[s] = "unseat"
    BY <1>3 DEF Unsubscribe
  <2>4. CASE subscribers[channels[n]] = {}
    <3>1. PICK r \in Sockets : Pending(n, r)
      BY <2>3, <2>4 DEF NoLeak
    <3>2. CASE r # s
      BY <2>1, <2>3, <3>1, <3>2
    <3>3. CASE r = s
      <4>1. PICK o \in Objects : <<n, o>> \in leaving[s]
        BY <2>3, <3>1, <3>3
      <4>2. CASE seat = <<n, o>>
        BY <2>1, <2>3, <4>2
      <4>3. CASE seat # <<n, o>>
        BY <2>1, <4>1, <4>3
      <4> QED
        BY <4>2, <4>3
    <3> QED
      BY <3>2, <3>3
  <2>5. CASE subscribers[channels[n]] # {}
    <3>1. channels[n] = seat[2]
      BY <2>1, <2>3, <2>5
    <3>2. Refers(n, seat[2]) /\ Refers(seat[1], seat[2])
      BY SMTT(30), <2>2, <3>1 DEF Refers
    <3>3. seat[1] = n
      BY <2>2, <3>2 DEF OneName
    <3> QED
      BY <2>1, <2>3, <3>3
  <2> QED
    BY <2>4, <2>5
<1>4. ASSUME NEW s \in Sockets, Drop(s) PROVE \E r \in Sockets : Pending(n, r)'
  <2>1. channels'[n] = channels[n] /\ UNCHANGED <<subscribers, leaving>>
    BY <1>4, DropEffect DEF Drop
  <2>2. /\ pc[s] = "dropping"
        /\ \A r \in Sockets \ {s} : pc'[r] = pc[r] /\ cur'[r] = cur[r]
    BY <1>4 DEF Drop
  <2>3. PICK r \in Sockets : Pending(n, r)
    BY <2>1 DEF NoLeak
  <2>4. CASE r # s \/ \E o \in Objects : <<n, o>> \in leaving[r]
    BY <2>1, <2>2, <2>3, <2>4
  <2>5. CASE cur[s] = n
    <3>1. ~MayDrop(s)
      BY <1>4, <2>1, <2>5 DEF Drop, Remove
    <3>2. subscribers[held[s]] = {}
      <4> SUFFICES ASSUME subscribers[held[s]] # {} PROVE FALSE
        OBVIOUS
      <4>1. held[s] \in Objects
        BY <2>2 DEF StageOK, StageOf
      <4>2. PICK m \in Names : channels[m] = held[s]
        BY <4>1 DEF NoOrphan
      <4>3. Refers(m, held[s]) /\ Refers(n, held[s])
        BY <2>5, <4>2 DEF Refers
      <4>4. m = n
        BY <4>1, <4>3 DEF OneName
      <4> QED
        BY <2>1, <4>2, <4>4
    <3>3. PICK q \in Sockets : Joining(q) /\ cur[q] = n
      BY <2>5, <3>1, <3>2, NoReservation DEF MayDrop
    <3> QED
      BY <2>2, <3>3
  <2> QED
    BY <2>2, <2>3, <2>4, <2>5
<1>5. ASSUME NEW s \in Sockets, Take(s) PROVE \E r \in Sockets : Pending(n, r)'
  <2>1. UNCHANGED <<channels, subscribers, leaving>> /\ pc[s] = "taking"
        /\ \A r \in Sockets \ {s} : pc'[r] = pc[r] /\ cur'[r] = cur[r]
    BY <1>5 DEF Take
  <2>2. PICK r \in Sockets : Pending(n, r)
    BY <2>1 DEF NoLeak
  <2>3. r # s
    <3>1. leaving[s] = {} /\ s \in subscribers[held[s]] /\ channels[cur[s]] = held[s]
      BY <2>1 DEF StageOK, StageOf, Seated, Reserved
    <3> QED
      BY <2>1, <2>2, <3>1
  <2> QED
    BY <2>1, <2>2, <2>3
<1>6. ASSUME NEW s \in Sockets, FinishJoining(s) PROVE \E r \in Sockets : Pending(n, r)'
  <2>1. UNCHANGED <<channels, subscribers>> /\ pc[s] = "undo"
        /\ leaving' = [leaving EXCEPT ![s] = {<<cur[s], held[s]>>}]
        /\ \A r \in Sockets \ {s} : pc'[r] = pc[r] /\ cur'[r] = cur[r]
    BY <1>6 DEF FinishJoining
  <2>2. PICK r \in Sockets : Pending(n, r)
    BY <2>1 DEF NoLeak
  <2>3. leaving[s] = {} /\ held[s] \in Objects
    BY <2>1 DEF StageOK, StageOf
  <2> QED
    BY <2>1, <2>2, <2>3
<1>7. ASSUME NEW s \in Sockets,
             \/ Open(s) \/ SinkFails(s) \/ (\E m \in Names : AskPolicy(s, m) \/ Part(s, m))
             \/ Close(s) \/ Deny(s) \/ ChannelCreated(s) \/ SubscribeRefused(s) \/ Emit(s)
             \/ ChannelRemoved(s)
      PROVE  \E r \in Sockets : Pending(n, r)'
  <2>1. UNCHANGED <<channels, subscribers>>
    BY <1>7 DEF Open, SinkFails, AskPolicy, Part, Close, Deny, ChannelCreated, SubscribeRefused,
                Emit, ChannelRemoved
  <2>2. PICK r \in Sockets : Pending(n, r)
    BY <2>1 DEF NoLeak
  <2>3. CASE Open(s) \/ SinkFails(s) \/ Deny(s) \/ (\E m \in Names : AskPolicy(s, m))
    BY <2>2, <2>3 DEF Open, SinkFails, AskPolicy, Deny
  <2>4. CASE ChannelCreated(s) \/ SubscribeRefused(s) \/ Emit(s) \/ ChannelRemoved(s)
    <3>1. CASE ChannelCreated(s) \/ SubscribeRefused(s)
      BY <2>2, <3>1 DEF ChannelCreated, SubscribeRefused
    <3>2. CASE Emit(s) \/ ChannelRemoved(s)
      BY <2>2, <3>2 DEF Emit, ChannelRemoved
    <3> QED
      BY <2>4, <3>1, <3>2
  <2>5. CASE Close(s) \/ \E m \in Names : Part(s, m)
    <3>1. pc[s] = "idle" /\ UNCHANGED cur
          /\ \A q \in Sockets \ {s} : pc'[q] = pc[q] /\ leaving'[q] = leaving[q]
      BY <2>5 DEF Part, Close
    <3>2. leaving[s] = {}
      BY <3>1 DEF StageOK, StageOf
    <3>3. r # s
      BY <2>2, <3>1, <3>2
    <3> QED
      BY <2>2, <3>1, <3>3
  <2> QED
    BY <1>7, <2>3, <2>4, <2>5
<1>8. CASE UNCHANGED vars
  BY <1>8 DEF vars, NoLeak
<1> QED
  BY <1>1, <1>2, <1>3, <1>4, <1>5, <1>6, <1>7, <1>8 DEF Next, Goroutine, Environment

-----------------------------------------------------------------------------
(* Theorems                                                                *)

\* The inductive invariant holds in every reachable state.
THEOREM Invariance == Spec => []IInv
<1>1. Init => IInv
  BY InitIInv
<1>2. IInv /\ [Next]_vars => IInv'
  <2> SUFFICES ASSUME IInv, [Next]_vars PROVE IInv'
    OBVIOUS
  <2>1. Typed'
    BY TypeStep, StageStep DEF IInv, Typed
  <2>2. JoiningExact' /\ OneName' /\ Seated'
    BY JoiningExactStep, OneNameStep, SeatedStep DEF IInv
  <2>3. Reserved' /\ NoOrphan'
    BY ReservedStep, NoOrphanStep DEF IInv
  <2>4. AccountedFor'
    BY AccountedForStep DEF IInv
  <2>5. NoLeak'
    BY NoLeakStep
  <2> QED
    BY <2>1, <2>2, <2>3, <2>4, <2>5 DEF IInv
<1> QED
  BY <1>1, <1>2, PTL DEF Spec

\* Every variable of the protocol, the broker and its channels keeps its type.
THEOREM TypeCorrect == Spec => []TypeOK
<1>1. IInv => TypeOK
  BY DEF IInv, Typed
<1> QED
  BY <1>1, Invariance, PTL

\* pusher.joining does what its comment says: whatever the goroutines of any
\* number of sockets do, nobody is seated on a channel the broker dropped.
THEOREM NobodyOrphaned == Spec => []NoOrphan
<1>1. IInv => NoOrphan
  BY DEF IInv
<1> QED
  BY <1>1, Invariance, PTL

\* Reservations are counted exactly, so none is lost and none is left over.
THEOREM ReservationsExact == Spec => []JoiningExact
<1>1. IInv => JoiningExact
  BY DEF IInv
<1> QED
  BY <1>1, Invariance, PTL

\* Every membership is recorded, about to be, or being left.
THEOREM MembershipsAccounted == Spec => []AccountedFor
<1>1. IInv => AccountedFor
  BY DEF IInv
<1> QED
  BY <1>1, Invariance, PTL

\* A channel with nobody on it has somebody about to fill or drop it.
THEOREM NothingLeaks == Spec => []NoLeak
<1>1. IInv => NoLeak
  BY DEF IInv
<1> QED
  BY <1>1, Invariance, PTL

\* A closed socket leaves no membership and no record behind.
THEOREM NoGhosts == Spec => []NoGhost
<1>1. IInv => NoGhost
  <2> SUFFICES ASSUME IInv, NEW s \in Sockets, pc[s] = "absent"
               PROVE  /\ \A o \in Objects : s \notin subscribers[o]
                      /\ \A n \in Names : seats[s][n] = None
    BY DEF NoGhost
  <2>1. (\A n \in Names : seats[s][n] = None) /\ leaving[s] = {} /\ ~Joining(s)
    <3>1. StageOf(s)
      BY DEF IInv, Typed, StageOK
    <3> QED
      BY <3>1 DEF StageOf, Joining, Unseating
  <2>2. ASSUME NEW o \in Objects, s \in subscribers[o] PROVE FALSE
    <3>1. PICK n \in Names : channels[n] = o
      BY <2>2 DEF IInv, NoOrphan
    <3> QED
      BY <2>1, <2>2, <3>1, PusherAssumption DEF IInv, AccountedFor
  <2> QED
    BY <2>1, <2>2
<1> QED
  BY <1>1, Invariance, PTL

\* A step of a socket's goroutine changes no other socket's stage, so at most
\* one operation begins or ends.
LEMMA BusyStep ==
    ASSUME TypeOK, NEW s \in Sockets, Goroutine(s) \/ Environment(s)
    PROVE  Busy' = Busy \/ (s \notin Busy /\ Busy' = Busy \union {s})
                        \/ (s \in Busy /\ Busy' = Busy \ {s})
<1>1. \E stage : pc' = [pc EXCEPT ![s] = stage]
  <2>1. ASSUME SinkFails(s) PROVE pc' = [pc EXCEPT ![s] = pc[s]]
    BY <2>1 DEF SinkFails, TypeOK
  <2>2. ASSUME NEW n \in Names, AskPolicy(s, n) \/ Part(s, n)
        PROVE  \E stage : pc' = [pc EXCEPT ![s] = stage]
    BY Zenon, <2>2 DEF AskPolicy, Part, Goto
  <2>3. ASSUME Open(s) \/ Close(s) \/ Deny(s) \/ Reach(s) \/ ChannelCreated(s)
               \/ SubscribeRefused(s) \/ SubscribeSeats(s)
        PROVE  \E stage : pc' = [pc EXCEPT ![s] = stage]
    BY Zenon, <2>3 DEF Open, Close, Deny, Reach, ChannelCreated, SubscribeRefused,
                       SubscribeSeats, Goto
  <2>4. ASSUME Emit(s) \/ Take(s) \/ FinishJoining(s) \/ Unsubscribe(s) \/ Drop(s)
               \/ ChannelRemoved(s)
        PROVE  \E stage : pc' = [pc EXCEPT ![s] = stage]
    BY Zenon, <2>4 DEF Emit, Take, FinishJoining, Unsubscribe, Drop, ChannelRemoved, Goto
  <2> QED
    BY Zenon, <2>1, <2>2, <2>3, <2>4 DEF Goroutine, Environment
<1>2. PICK stage : pc' = [pc EXCEPT ![s] = stage]
  BY <1>1
<1>3. \A t \in Sockets : pc'[t] = IF t = s THEN stage ELSE pc[t]
  BY <1>2 DEF TypeOK
<1>4. CASE stage \in {"absent", "idle"}
  BY <1>3, <1>4 DEF Busy
<1>5. CASE stage \notin {"absent", "idle"}
  BY <1>3, <1>5 DEF Busy
<1> QED
  BY <1>4, <1>5

\* Only a socket's own operation changes whether a publish reaches it.
LEMMA AudienceStep ==
    ASSUME IInv, NEW s \in Sockets, Goroutine(s) \/ Environment(s)
    PROVE  \/ \A n \in Names : Reached(n)' = Reached(n)
           \/ \E n \in Names :
                /\ s \in Busy /\ Busy' = Busy
                /\ \A m \in Names \ {n} : Reached(m)' = Reached(m)
                /\ \/ s \notin Reached(n) /\ Reached(n)' = Reached(n) \union {s}
                   \/ s \in Reached(n) /\ Reached(n)' = Reached(n) \ {s}
<1> DEFINE Same == \A n \in Names : Reached(n)' = Reached(n)
<1> DEFINE Moves(n) == /\ s \in Busy /\ Busy' = Busy
                       /\ \A m \in Names \ {n} : Reached(m)' = Reached(m)
                       /\ \/ s \notin Reached(n) /\ Reached(n)' = Reached(n) \union {s}
                          \/ s \in Reached(n) /\ Reached(n)' = Reached(n) \ {s}
<1> USE PusherAssumption DEF IInv, Typed, TypeOK, Maybe, opVars
<1>1. ASSUME Reach(s) PROVE Same
  <2>1. /\ channels' = [channels EXCEPT ![cur[s]] = held'[s]]
        /\ channels[cur[s]] = held'[s] \/ (channels[cur[s]] = None /\ Unreferenced(held'[s]))
        /\ subscribers' = subscribers
        /\ held'[s] \in Objects /\ cur[s] \in Names
    BY <1>1, ReachEffect
  <2>2. Unreferenced(held'[s]) => subscribers[held'[s]] = {}
    BY <2>1 DEF NoOrphan, Unreferenced
  <2> QED
    BY <2>1, <2>2 DEF Reached
<1>2. ASSUME Drop(s) PROVE Same
  <2>1. UNCHANGED subscribers
    BY <1>2 DEF Drop
  <2> QED
    BY ZenonT(30), <1>2, <2>1, DropEffect DEF Reached
<1>3. ASSUME SubscribeSeats(s)
      PROVE  Same \/ \E n \in Names : Moves(n)
  <2>1. PICK n \in Names, o \in Objects : channels[n] = o /\ held[s] = o
    BY <1>3 DEF SubscribeSeats, Reserved, StageOK, StageOf, Joining
  <2>2. UNCHANGED channels /\ subscribers' = [subscribers EXCEPT ![o] = @ \union {s}]
    BY <1>3, <2>1 DEF SubscribeSeats
  <2>3. \A m \in Names \ {n} : channels[m] # o
    BY <2>1 DEF OneName, Refers
  <2>4. \A m \in Names \ {n} : Reached(m)' = Reached(m)
    BY <2>1, <2>2, <2>3 DEF Reached
  <2>5. Reached(n)' = Reached(n) \union {s}
    BY <2>1, <2>2 DEF Reached
  <2>8. s \in Busy /\ Busy' = Busy
    <3>1. /\ pc[s] = "subscribing"
          /\ pc' = [pc EXCEPT ![s] = "taking"] \/ pc' = [pc EXCEPT ![s] = "emitting"]
      BY Zenon, <1>3 DEF SubscribeSeats, Goto
    <3> QED
      BY <3>1 DEF Busy
  <2>6. CASE s \in Reached(n)
    <3>1. Reached(n)' = Reached(n)
      BY <2>5, <2>6
    <3> QED
      BY <2>4, <3>1
  <2>7. CASE s \notin Reached(n)
    BY <2>4, <2>5, <2>7, <2>8
  <2> QED
    BY <2>6, <2>7
<1>4. ASSUME Unsubscribe(s)
      PROVE  Same \/ \E n \in Names : Moves(n)
  <2>1. PICK n \in Names, o \in Objects :
          <<n, o>> \in leaving[s] /\ subscribers' = [subscribers EXCEPT ![o] = @ \ {s}]
    <3>1. PICK seat \in leaving[s] : subscribers' = [subscribers EXCEPT ![seat[2]] = @ \ {s}]
      BY <1>4 DEF Unsubscribe
    <3>2. seat = <<seat[1], seat[2]>> /\ seat[1] \in Names /\ seat[2] \in Objects
      OBVIOUS
    <3> QED
      BY <3>1, <3>2
  <2>2. UNCHANGED channels
    BY <1>4 DEF Unsubscribe
  <2>3. \A m \in Names \ {n} : channels[m] # o
    BY <2>1 DEF OneName, Refers
  <2>4. \A m \in Names \ {n} : Reached(m)' = Reached(m)
    BY <2>1, <2>2, <2>3 DEF Reached
  <2>5. Reached(n)' = Reached(n) \/ Reached(n)' = Reached(n) \ {s}
    BY <2>1, <2>2 DEF Reached
  <2>8. s \in Busy /\ Busy' = Busy
    <3>1. pc[s] = "unseat" /\ pc' = [pc EXCEPT ![s] = "dropping"]
      BY <1>4 DEF Unsubscribe, Goto
    <3> QED
      BY <3>1 DEF Busy
  <2>6. CASE s \notin Reached(n)
    <3>1. Reached(n) \ {s} = Reached(n)
      BY <2>6
    <3> QED
      BY <2>4, <2>5, <3>1
  <2>7. CASE s \in Reached(n)
    BY <2>4, <2>5, <2>7, <2>8
  <2> QED
    BY <2>6, <2>7
<1>5. ASSUME \/ Open(s) \/ SinkFails(s) \/ (\E m \in Names : AskPolicy(s, m) \/ Part(s, m))
             \/ Close(s) \/ Deny(s) \/ ChannelCreated(s) \/ SubscribeRefused(s) \/ Emit(s)
             \/ Take(s) \/ FinishJoining(s) \/ ChannelRemoved(s)
      PROVE  Same
  <2>1. UNCHANGED <<channels, subscribers>>
    BY <1>5 DEF Open, SinkFails, AskPolicy, Part, Close, Deny, ChannelCreated, SubscribeRefused,
                Emit, Take, FinishJoining, ChannelRemoved
  <2> QED
    BY <2>1 DEF Reached
<1> QED
  BY <1>1, <1>2, <1>3, <1>4, <1>5 DEF Goroutine, Environment

\* A process of any size implements Audience: the making, finding and dropping
\* of channel values is invisible to a publisher.
THEOREM Refinement == Spec => ImplementsAudience
<1>1. Init => AudienceOf!Init
  BY PusherAssumption DEF Init, AudienceOf!Init, Reached, Busy
<1>2. IInv /\ [Next]_vars => [AudienceOf!Next]_<<[n \in Names |-> Reached(n)], Busy>>
  <2> DEFINE Audience == [n \in Names |-> Reached(n)]
  <2> SUFFICES ASSUME IInv, [Next]_vars
               PROVE  AudienceOf!Next \/ UNCHANGED <<Audience, Busy>>
    OBVIOUS
  <2>1. CASE UNCHANGED vars
    BY <2>1 DEF vars, Reached, Busy
  <2>2. ASSUME NEW s \in Sockets, Goroutine(s) \/ Environment(s)
        PROVE  AudienceOf!Next \/ UNCHANGED <<Audience, Busy>>
    <3>1. CASE \A n \in Names : Reached(n)' = Reached(n)
      <4>1. Audience' = Audience
        BY <3>1
      <4>2. \/ Busy' = Busy
            \/ s \notin Busy /\ Busy' = Busy \union {s}
            \/ s \in Busy /\ Busy' = Busy \ {s}
        BY <2>2, BusyStep DEF IInv, Typed
      <4> QED
        BY <4>1, <4>2 DEF AudienceOf!Next, AudienceOf!Begin, AudienceOf!End
    <3>2. ASSUME NEW n \in Names,
                 s \in Busy /\ Busy' = Busy,
                 \A m \in Names \ {n} : Reached(m)' = Reached(m),
                 \/ s \notin Reached(n) /\ Reached(n)' = Reached(n) \union {s}
                 \/ s \in Reached(n) /\ Reached(n)' = Reached(n) \ {s}
          PROVE  AudienceOf!Next
      BY <3>2 DEF AudienceOf!Next, AudienceOf!Enter, AudienceOf!Exit
    <3> QED
      BY <2>2, <3>1, <3>2, AudienceStep
  <2> QED
    BY <2>1, <2>2 DEF Next
<1> QED
  BY <1>1, <1>2, Invariance, PTL DEF Spec, ImplementsAudience, AudienceOf!Spec

-----------------------------------------------------------------------------
(* The numbers                                                             *)

\* Goroutines that made a channel and have not told the observer, and goroutines
\* that saw one gone and have not.
Creating == {s \in Sockets : pc[s] = "reached"}
Removing == {s \in Sockets : pc[s] = "gone"}

\* What the observer was told and will be told of channels made, less what it will
\* be told of channels gone, is within the channels there are: two goroutines may
\* tell it of one that went, none may keep quiet. A channel has one maker, which is
\* why the counter's floor at zero gives nothing away.
CountOK ==
    /\ counted + Cardinality(Creating) <= Cardinality(Live) + Cardinality(Removing)
    /\ \A s, t \in Creating : cur[s] = cur[t] => s = t

\* What atChannelLimit answered still holds when the seat is taken.
LimitOK ==
    /\ ChannelLimit
    /\ \A s \in Sockets : (pc[s] = "asking" \/ Joining(s)) => ~AtChannelLimit(s, cur[s])

LEMMA Finite ==
    /\ IsFiniteSet(Creating) /\ Cardinality(Creating) \in Nat
    /\ IsFiniteSet(Removing) /\ Cardinality(Removing) \in Nat
    /\ IsFiniteSet(Live) /\ Cardinality(Live) \in Nat
<1>1. IsFiniteSet(Creating) /\ IsFiniteSet(Removing) /\ IsFiniteSet(Live)
  BY PusherAssumption, FS_Subset DEF Creating, Removing, Live
<1> QED
  BY <1>1, FS_CardinalityType

\* No more channels are waiting to be announced than there are.
LEMMA MakersBounded ==
    ASSUME IInv, CountOK
    PROVE  Cardinality(Creating) <= Cardinality(Live)
<1> SUFFICES ASSUME Cardinality(Live) < Cardinality(Creating)
             PROVE  FALSE
  BY Finite
<1> DEFINE f == [s \in Creating |-> cur[s]]
<1>1. f \in [Creating -> Live]
  <2> SUFFICES ASSUME NEW s \in Creating
               PROVE  cur[s] \in Live
    OBVIOUS
  <2>1. s \in Sockets /\ Joining(s)
    BY DEF Creating, Joining
  <2>2. cur[s] \in Names /\ held[s] \in Objects /\ channels[cur[s]] = held[s]
    BY <2>1 DEF IInv, Typed, StageOK, StageOf, Reserved
  <2> QED
    BY <2>2, PusherAssumption DEF Live
<1>2. \E s, t \in Creating : s # t /\ f[s] = f[t]
  <2> HIDE DEF f
  <2> QED
    BY <1>1, Finite, FS_PigeonHole
<1> QED
  BY <1>2 DEF CountOK

\* What a step does to what CountOK speaks of.
LEMMA NumbersEffect ==
    ASSUME IInv, Next
    PROVE  \/ /\ Creating' = Creating /\ Removing' = Removing /\ Live' = Live /\ counted' = counted
              /\ \A t \in Creating : cur'[t] = cur[t]
           \/ \E s \in Sockets \ Creating :
                /\ Creating' = Creating \union {s} /\ Removing' = Removing /\ counted' = counted
                /\ cur' = cur /\ cur[s] \notin Live /\ Live' = Live \union {cur[s]}
           \/ \E s \in Creating :
                /\ Creating' = Creating \ {s} /\ Removing' = Removing /\ Live' = Live
                /\ counted' = counted + 1 /\ cur' = cur
           \/ \E s \in Sockets \ Removing :
                /\ Creating' = Creating /\ Removing' = Removing \union {s} /\ counted' = counted
                /\ Live' = Live \ {cur[s]} /\ \A t \in Creating : cur'[t] = cur[t]
           \/ \E s \in Removing :
                /\ Creating' = Creating /\ Removing' = Removing \ {s} /\ Live' = Live
                /\ counted' = (IF counted > 0 THEN counted - 1 ELSE 0) /\ cur' = cur
<1> USE DEF IInv, Typed
<1>1. ASSUME NEW s \in Sockets, Reach(s)
      PROVE  \/ /\ Creating' = Creating /\ Removing' = Removing /\ Live' = Live /\ counted' = counted
                /\ cur' = cur
             \/ /\ s \notin Creating
                /\ Creating' = Creating \union {s} /\ Removing' = Removing /\ counted' = counted
                /\ cur' = cur /\ cur[s] \notin Live /\ Live' = Live \union {cur[s]}
  <2>1. /\ cur[s] \in Names
        /\ held'[s] \in Objects
        /\ channels' = [channels EXCEPT ![cur[s]] = held'[s]]
        /\ channels[cur[s]] = held'[s] \/ channels[cur[s]] = None
    BY <1>1, ReachEffect
  <2>2. /\ pc[s] = "asking" /\ cur' = cur /\ counted' = counted
        /\ pc' = [pc EXCEPT ![s] = IF channels[cur[s]] = None THEN "reached" ELSE "subscribing"]
    BY <1>1 DEF Reach, Goto
  <2>3. CASE channels[cur[s]] = None
    <3>1. Live' = Live \union {cur[s]} /\ cur[s] \notin Live
      BY <2>1, <2>3, PusherAssumption DEF Live, TypeOK
    <3>2. s \notin Creating /\ Creating' = Creating \union {s} /\ Removing' = Removing
      BY <2>2, <2>3 DEF Creating, Removing, TypeOK
    <3> QED
      BY <2>2, <3>1, <3>2
  <2>4. CASE channels[cur[s]] # None
    <3>1. Live' = Live
      BY <2>1, <2>4, PusherAssumption DEF Live, TypeOK
    <3>2. Creating' = Creating /\ Removing' = Removing
      BY <2>2, <2>4 DEF Creating, Removing, TypeOK
    <3> QED
      BY <2>2, <3>1, <3>2
  <2> QED
    BY <2>3, <2>4
<1>2. ASSUME NEW s \in Sockets, ChannelCreated(s)
      PROVE  /\ s \in Creating
             /\ Creating' = Creating \ {s} /\ Removing' = Removing /\ Live' = Live
             /\ counted' = counted + 1 /\ cur' = cur
  BY <1>2 DEF ChannelCreated, Goto, opVars, Creating, Removing, Live, TypeOK
<1>3. ASSUME NEW s \in Sockets, Drop(s)
      PROVE  \/ /\ Creating' = Creating /\ Removing' = Removing /\ Live' = Live /\ counted' = counted
                /\ \A t \in Creating : cur'[t] = cur[t]
             \/ /\ s \notin Removing
                /\ Creating' = Creating /\ Removing' = Removing \union {s} /\ counted' = counted
                /\ Live' = Live \ {cur[s]} /\ \A t \in Creating : cur'[t] = cur[t]
  <2> DEFINE gone == MayDrop(s) /\ Remove(cur[s])[cur[s]] = None
  <2>1. /\ pc[s] = "dropping" /\ cur[s] \in Names /\ counted' = counted
        /\ pc' = [pc EXCEPT ![s] = IF gone THEN "gone" ELSE AfterUnseat(s)]
        /\ cur' = [cur EXCEPT ![s] = None]
        /\ channels' = IF MayDrop(s) THEN Remove(cur[s]) ELSE channels
    BY <1>3 DEF Drop, Goto, StageOK, StageOf
  <2>2. AfterUnseat(s) \notin {"gone", "reached"}
    BY DEF AfterUnseat
  <2>3. \A t \in Creating : cur'[t] = cur[t]
    BY <2>1 DEF Creating, TypeOK
  <2>4. CASE gone
    <3>1. channels' = Remove(cur[s]) /\ channels'[cur[s]] = None
      BY <2>1, <2>4
    <3>2. \A n \in Names : n # cur[s] => channels'[n] = channels[n]
      BY <2>1, <3>1 DEF Remove, TypeOK
    <3>3. Live' = Live \ {cur[s]}
      BY <3>1, <3>2 DEF Live
    <3>4. s \notin Removing /\ Creating' = Creating /\ Removing' = Removing \union {s}
      BY <2>1, <2>4 DEF Creating, Removing, TypeOK
    <3> QED
      BY <2>1, <2>3, <3>3, <3>4
  <2>5. CASE ~gone
    <3>1. channels' = channels
      BY <2>1, <2>5 DEF Remove, TypeOK
    <3>2. Live' = Live
      BY <3>1 DEF Live
    <3>3. Creating' = Creating /\ Removing' = Removing
      BY <2>1, <2>2, <2>5 DEF Creating, Removing, TypeOK
    <3> QED
      BY <2>1, <2>3, <3>2, <3>3
  <2> QED
    BY <2>4, <2>5
<1>4. ASSUME NEW s \in Sockets, ChannelRemoved(s)
      PROVE  /\ s \in Removing
             /\ Creating' = Creating /\ Removing' = Removing \ {s} /\ Live' = Live
             /\ counted' = (IF counted > 0 THEN counted - 1 ELSE 0) /\ cur' = cur
  <2>1. AfterUnseat(s) \notin {"gone", "reached"}
    BY DEF AfterUnseat
  <2> QED
    BY <1>4, <2>1 DEF ChannelRemoved, Goto, opVars, Creating, Removing, Live, TypeOK
<1>5. ASSUME NEW s \in Sockets,
             \/ Open(s) \/ SinkFails(s) \/ (\E n \in Names : AskPolicy(s, n) \/ Part(s, n))
             \/ Close(s) \/ Deny(s)
      PROVE  /\ Creating' = Creating /\ Removing' = Removing /\ Live' = Live /\ counted' = counted
             /\ \A t \in Creating : cur'[t] = cur[t]
  <2>1. channels' = channels /\ counted' = counted
    BY <1>5 DEF Open, SinkFails, AskPolicy, Part, Close, Deny
  <2>2. Creating' = Creating /\ Removing' = Removing
    BY <1>5 DEF Open, SinkFails, AskPolicy, Part, Close, Deny, Goto, Creating, Removing, TypeOK
  <2>3. \A t \in Creating : cur'[t] = cur[t]
    BY <1>5 DEF Open, SinkFails, AskPolicy, Part, Close, Deny, opVars, Creating, TypeOK
  <2> QED
    BY <2>1, <2>2, <2>3 DEF Live
<1>6. ASSUME NEW s \in Sockets,
             \/ SubscribeRefused(s) \/ SubscribeSeats(s) \/ Emit(s)
             \/ Take(s) \/ FinishJoining(s) \/ Unsubscribe(s)
      PROVE  /\ Creating' = Creating /\ Removing' = Removing /\ Live' = Live /\ counted' = counted
             /\ \A t \in Creating : cur'[t] = cur[t]
  <2>1. channels' = channels /\ counted' = counted
    BY <1>6 DEF SubscribeRefused, SubscribeSeats, Emit, Take, FinishJoining, Unsubscribe
  <2>2. Creating' = Creating /\ Removing' = Removing
    BY <1>6 DEF SubscribeRefused, SubscribeSeats, Emit, Take, FinishJoining, Unsubscribe, Goto,
                Creating, Removing, TypeOK
  <2>3. \A t \in Creating : cur'[t] = cur[t]
    BY <1>6 DEF SubscribeRefused, SubscribeSeats, Emit, Take, FinishJoining, Unsubscribe, opVars,
                Creating, TypeOK
  <2> QED
    BY <2>1, <2>2, <2>3 DEF Live
<1> HIDE DEF IInv, Typed
<1> QED
  BY <1>1, <1>2, <1>3, <1>4, <1>5, <1>6 DEF Next, Goroutine, Environment

LEMMA CountStep == IInv /\ CountOK /\ [Next]_vars => CountOK'
<1> SUFFICES ASSUME IInv, CountOK, [Next]_vars
             PROVE  CountOK'
  OBVIOUS
<1>1. counted \in Nat
  BY DEF IInv, Typed, TypeOK
<1>2. CASE Next
  <2>1. CASE /\ Creating' = Creating /\ Removing' = Removing /\ Live' = Live /\ counted' = counted
             /\ \A t \in Creating : cur'[t] = cur[t]
    BY <2>1 DEF CountOK
  <2>2. ASSUME NEW s \in Sockets \ Creating,
               Creating' = Creating \union {s}, Removing' = Removing, counted' = counted,
               cur' = cur, cur[s] \notin Live, Live' = Live \union {cur[s]}
        PROVE  CountOK'
    <3>1. /\ Cardinality(Creating \union {s}) = Cardinality(Creating) + 1
          /\ Cardinality(Live \union {cur[s]}) = Cardinality(Live) + 1
      BY <2>2, Finite, FS_AddElement
    <3>2. \A t \in Creating : cur[t] \in Live
      <4> SUFFICES ASSUME NEW t \in Creating
                   PROVE  cur[t] \in Live
        OBVIOUS
      <4>1. t \in Sockets /\ Joining(t)
        BY DEF Creating, Joining
      <4>2. cur[t] \in Names /\ held[t] \in Objects /\ channels[cur[t]] = held[t]
        BY <4>1 DEF IInv, Typed, StageOK, StageOf, Reserved
      <4> QED
        BY <4>2, PusherAssumption DEF Live
    <3>3. counted' + Cardinality(Creating') <= Cardinality(Live') + Cardinality(Removing')
      BY <1>1, <2>2, <3>1, Finite DEF CountOK
    <3> QED
      BY <2>2, <3>2, <3>3 DEF CountOK
  <2>3. ASSUME NEW s \in Creating,
               Creating' = Creating \ {s}, Removing' = Removing, Live' = Live,
               counted' = counted + 1, cur' = cur
        PROVE  CountOK'
    <3>1. Cardinality(Creating \ {s}) = Cardinality(Creating) - 1
      BY Finite, FS_RemoveElement
    <3>2. counted' + Cardinality(Creating') <= Cardinality(Live') + Cardinality(Removing')
      BY <1>1, <2>3, <3>1, Finite DEF CountOK
    <3> QED
      BY <2>3, <3>2 DEF CountOK
  <2>4. ASSUME NEW s \in Sockets \ Removing,
               Creating' = Creating, Removing' = Removing \union {s}, counted' = counted,
               Live' = Live \ {cur[s]}, \A t \in Creating : cur'[t] = cur[t]
        PROVE  CountOK'
    <3>1. Cardinality(Removing \union {s}) = Cardinality(Removing) + 1
      BY <2>4, Finite, FS_AddElement
    <3>2. Cardinality(Live \ {cur[s]}) \in {Cardinality(Live) - 1, Cardinality(Live)}
      BY Finite, FS_RemoveElement
    <3>3. counted' + Cardinality(Creating') <= Cardinality(Live') + Cardinality(Removing')
      BY <1>1, <2>4, <3>1, <3>2, Finite DEF CountOK
    <3> QED
      BY <2>4, <3>3 DEF CountOK
  <2>5. ASSUME NEW s \in Removing,
               Creating' = Creating, Removing' = Removing \ {s}, Live' = Live,
               counted' = (IF counted > 0 THEN counted - 1 ELSE 0), cur' = cur
        PROVE  CountOK'
    <3>1. Cardinality(Removing \ {s}) = Cardinality(Removing) - 1 /\ Cardinality(Removing \ {s}) \in Nat
      BY Finite, FS_RemoveElement, FS_CardinalityType
    <3>2. Cardinality(Creating) <= Cardinality(Live)
      BY MakersBounded
    <3>3. counted' + Cardinality(Creating') <= Cardinality(Live') + Cardinality(Removing')
      BY <1>1, <2>5, <3>1, <3>2, Finite DEF CountOK
    <3> QED
      BY <2>5, <3>3 DEF CountOK
  <2> QED
    BY <1>2, <2>1, <2>2, <2>3, <2>4, <2>5, NumbersEffect
<1>3. CASE UNCHANGED vars
  BY <1>3 DEF vars, CountOK, Creating, Removing, Live
<1> QED
  BY <1>2, <1>3

LEMMA LimitStep == IInv /\ LimitOK /\ [Next]_vars => LimitOK'
<1> SUFFICES ASSUME IInv, LimitOK, [Next]_vars, NEW t \in Sockets
             PROVE  /\ Cardinality(SeatedNames(t)') <= MaxChannels
                    /\ (pc'[t] = "asking" \/ Joining(t)') => ~AtChannelLimit(t, cur[t])'
  BY DEF LimitOK, ChannelLimit
<1> USE DEF IInv, Typed
<1>1. /\ IsFiniteSet(SeatedNames(t)) /\ Cardinality(SeatedNames(t)) \in Nat
      /\ Cardinality(SeatedNames(t)) <= MaxChannels /\ MaxChannels \in Nat \ {0}
  BY PusherAssumption, FS_Subset, FS_CardinalityType DEF SeatedNames, LimitOK, ChannelLimit
<1>2. ASSUME seats'[t] = seats[t], pc'[t] = "asking" \/ Joining(t)' =>
                (pc[t] = "asking" \/ Joining(t)) /\ cur'[t] = cur[t]
      PROVE  /\ Cardinality(SeatedNames(t)') <= MaxChannels
             /\ (pc'[t] = "asking" \/ Joining(t)') => ~AtChannelLimit(t, cur[t])'
  <2>1. SeatedNames(t)' = SeatedNames(t)
    BY <1>2 DEF SeatedNames
  <2> QED
    BY <1>1, <1>2, <2>1 DEF LimitOK, AtChannelLimit
<1>3. ASSUME NEW n \in Names, AskPolicy(t, n)
      PROVE  /\ Cardinality(SeatedNames(t)') <= MaxChannels
             /\ (pc'[t] = "asking" \/ Joining(t)') => ~AtChannelLimit(t, cur[t])'
  <2>1. SeatedNames(t)' = SeatedNames(t) /\ seats' = seats /\ cur'[t] = n /\ ~AtChannelLimit(t, n)
    BY <1>3 DEF SeatedNames, AskPolicy, TypeOK
  <2> QED
    BY <1>1, <2>1 DEF AtChannelLimit
<1>4. ASSUME Take(t)
      PROVE  /\ Cardinality(SeatedNames(t)') <= MaxChannels
             /\ (pc'[t] = "asking" \/ Joining(t)') => ~AtChannelLimit(t, cur[t])'
  <2>1. /\ pc[t] = "taking" /\ pc'[t] = "idle" /\ cur[t] \in Names
        /\ seats' = [seats EXCEPT ![t][cur[t]] = held[t]]
    BY <1>4 DEF Take, Goto, TypeOK, StageOK, StageOf, Joining
  <2>2. held[t] # None
    BY <2>1, PusherAssumption DEF StageOK, StageOf, Joining
  <2>3. SeatedNames(t)' = SeatedNames(t) \union {cur[t]}
    BY <2>1, <2>2 DEF SeatedNames, TypeOK
  <2>4. ~AtChannelLimit(t, cur[t])
    BY <2>1 DEF LimitOK, Joining
  <2>5. cur[t] \in SeatedNames(t) <=> seats[t][cur[t]] # None
    BY <2>1 DEF SeatedNames
  <2>6. Cardinality(SeatedNames(t) \union {cur[t]}) <= MaxChannels
    <3>1. Cardinality(SeatedNames(t) \union {cur[t]}) =
              IF cur[t] \in SeatedNames(t) THEN Cardinality(SeatedNames(t))
              ELSE Cardinality(SeatedNames(t)) + 1
      BY <1>1, FS_AddElement
    <3>2. cur[t] \notin SeatedNames(t) => ~(Cardinality(SeatedNames(t)) >= MaxChannels)
      BY <2>4, <2>5 DEF AtChannelLimit
    <3> QED
      BY <1>1, <3>1, <3>2
  <2> QED
    BY <2>1, <2>3, <2>6 DEF Joining
<1>5. ASSUME SeatedNames(t)' \subseteq SeatedNames(t), pc'[t] \in {"absent", "unseat"}
      PROVE  /\ Cardinality(SeatedNames(t)') <= MaxChannels
             /\ (pc'[t] = "asking" \/ Joining(t)') => ~AtChannelLimit(t, cur[t])'
  <2>1. \A S \in SUBSET SeatedNames(t) : Cardinality(S) <= MaxChannels
    BY <1>1, FS_Subset, FS_CardinalityType
  <2> QED
    BY <1>5, <2>1 DEF Joining
<1>6. ASSUME (\E n \in Names : Part(t, n)) \/ Close(t)
      PROVE  SeatedNames(t)' \subseteq SeatedNames(t) /\ pc'[t] \in {"absent", "unseat"}
  BY <1>6 DEF Part, Close, Goto, SeatedNames, TypeOK
<1>7. ASSUME NEW s \in Sockets, s # t, Goroutine(s) \/ Environment(s)
      PROVE  seats'[t] = seats[t] /\ pc'[t] = pc[t] /\ cur'[t] = cur[t]
  <2>1. seats'[t] = seats[t]
    BY <1>7 DEF Goroutine, Environment, Deny, Reach, ChannelCreated, SubscribeRefused,
       SubscribeSeats, Emit, Take, FinishJoining, Unsubscribe, Drop, ChannelRemoved, Open,
       SinkFails, AskPolicy, Part, Close, TypeOK
  <2>2. pc'[t] = pc[t]
    BY <1>7 DEF Goroutine, Environment, Deny, Reach, ChannelCreated, SubscribeRefused,
       SubscribeSeats, Emit, Take, FinishJoining, Unsubscribe, Drop, ChannelRemoved, Open,
       SinkFails, AskPolicy, Part, Close, TypeOK, Goto
  <2>3. cur'[t] = cur[t]
    BY <1>7 DEF Goroutine, Environment, Deny, Reach, ChannelCreated, SubscribeRefused,
       SubscribeSeats, Emit, Take, FinishJoining, Unsubscribe, Drop, ChannelRemoved, Open,
       SinkFails, AskPolicy, Part, Close, TypeOK, opVars
  <2> QED
    BY <2>1, <2>2, <2>3
<1>8. ASSUME \/ Deny(t) \/ Reach(t) \/ ChannelCreated(t) \/ SubscribeRefused(t) \/ SubscribeSeats(t)
             \/ Emit(t) \/ FinishJoining(t) \/ Unsubscribe(t) \/ Drop(t) \/ ChannelRemoved(t)
             \/ Open(t) \/ SinkFails(t) \/ UNCHANGED vars
      PROVE  /\ seats'[t] = seats[t]
             /\ pc'[t] = "asking" \/ Joining(t)' =>
                    (pc[t] = "asking" \/ Joining(t)) /\ cur'[t] = cur[t]
  <2>1. seats' = seats
    BY <1>8 DEF Deny, Reach, ChannelCreated, SubscribeRefused, SubscribeSeats, Emit, FinishJoining,
       Unsubscribe, Drop, ChannelRemoved, Open, SinkFails, vars
  <2>2. CASE Reach(t) \/ ChannelCreated(t) \/ SubscribeRefused(t) \/ SubscribeSeats(t) \/ Emit(t)
             \/ SinkFails(t) \/ UNCHANGED vars
    <3>1. cur' = cur
      BY <2>2 DEF Reach, ChannelCreated, SubscribeRefused, SubscribeSeats, Emit, SinkFails, vars, opVars
    <3>2. pc'[t] = pc[t] \/ pc[t] = "asking" \/ Joining(t)
      BY <2>2 DEF Reach, ChannelCreated, SubscribeRefused, SubscribeSeats, Emit, SinkFails, vars, Joining
    <3> QED
      BY <2>1, <3>1, <3>2 DEF Joining
  <2>3. CASE Deny(t) \/ FinishJoining(t) \/ Unsubscribe(t) \/ Drop(t) \/ ChannelRemoved(t) \/ Open(t)
    <3>1. pc'[t] \in {"idle", "unseat", "dropping", "gone", "absent"}
      BY <2>3 DEF Deny, FinishJoining, Unsubscribe, Drop, ChannelRemoved, Open, Goto, AfterUnseat, TypeOK
    <3> QED
      BY <2>1, <3>1 DEF Joining
  <2> QED
    BY <1>8, <2>2, <2>3
<1> HIDE DEF IInv, Typed
<1>9. CASE Next
  <2>1. PICK s \in Sockets : Goroutine(s) \/ Environment(s)
    BY <1>9 DEF Next
  <2>2. CASE s # t
    BY <1>2, <1>7, <2>1, <2>2 DEF Joining
  <2>3. CASE s = t
    BY <1>2, <1>3, <1>4, <1>5, <1>6, <1>8, <2>1, <2>3 DEF Goroutine, Environment
  <2> QED
    BY <2>2, <2>3
<1> QED
  BY <1>2, <1>8, <1>9

\* The counter never reports a channel that is not there once nothing is under way,
\* whatever the order in which goroutines tell it of channels made and gone; and no
\* socket is on more channels than MaxChannels, although nothing is reserved between
\* the answer of atChannelLimit and take.
THEOREM NumbersStayBounded == Spec => []NumbersBounded
<1>1. Init => CountOK /\ LimitOK
  <2> SUFFICES ASSUME Init PROVE CountOK /\ LimitOK
    OBVIOUS
  <2>1. Creating = {} /\ Removing = {} /\ counted = 0
    BY DEF Init, Creating, Removing
  <2>2. CountOK
    BY <2>1, Finite, FS_EmptySet DEF CountOK
  <2>3. \A s \in Sockets : SeatedNames(s) = {}
    BY DEF Init, SeatedNames
  <2>4. LimitOK
    <3>1. \A s \in Sockets : Cardinality(SeatedNames(s)) = 0
      BY <2>3, FS_EmptySet
    <3>2. \A s \in Sockets : ~(pc[s] = "asking" \/ Joining(s))
      BY DEF Init, Joining
    <3> QED
      BY <3>1, <3>2, PusherAssumption DEF LimitOK, ChannelLimit
  <2> QED
    BY <2>2, <2>4
<1>2. IInv /\ CountOK /\ LimitOK /\ [Next]_vars => CountOK' /\ LimitOK'
  BY CountStep, LimitStep
<1>3. IInv /\ CountOK /\ LimitOK => NumbersBounded
  <2> SUFFICES ASSUME IInv, CountOK, LimitOK PROVE NumbersBounded
    OBVIOUS
  <2>1. ASSUME Quiescent PROVE counted <= Cardinality(Live)
    <3>1. Creating = {} /\ Removing = {}
      BY <2>1 DEF Quiescent, Creating, Removing
    <3>2. Cardinality(Creating) = 0 /\ Cardinality(Removing) = 0
      BY <3>1, FS_EmptySet
    <3>3. counted \in Nat
      BY DEF IInv, Typed, TypeOK
    <3> QED
      BY <3>2, <3>3, Finite DEF CountOK
  <2> QED
    BY <2>1 DEF NumbersBounded, CountNotAboveLive, LimitOK
<1> QED
  BY <1>1, <1>2, <1>3, Invariance, PTL DEF Spec

=============================================================================
