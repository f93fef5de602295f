----------------------------- MODULE FleetProofs -----------------------------
(***************************************************************************)
(* Proofs about the metrics of a fleet, for any instances, sockets and     *)
(* questions. A question goes to each instance that hears it and what is   *)
(* answered to it comes back over a bus, through a collector and into the  *)
(* channel ask reads, and may be lost on any of these. The invariant       *)
(* follows it: for each instance it is in one place, so that no answer is  *)
(* taken twice, and an answer says what its origin held while the question *)
(* was open.                                                               *)
(***************************************************************************)
EXTENDS Fleet, FiniteSetTheorems, TLAPS

-----------------------------------------------------------------------------
(* The inductive invariant                                                 *)

\* The sockets of the tenant a question is about at some instances.
At(r, C, sockets) == {s \in sockets : Home[s] \in C /\ Tenant[s] = About[r]}

\* A number that counts every socket of low at C, and none that is not of high.
Counts(r, C, low, high, n) ==
    Cardinality(At(r, C, low)) <= n /\ n <= Cardinality(At(r, C, high))

\* The same of a set of people.
Names(r, C, low, high, people) ==
    UsersOf(At(r, C, low)) \subseteq people /\ people \subseteq UsersOf(At(r, C, high))

\* The question left the instance that asks, or never will.
Published(r) == stage[r] \in {"waiting", "done"}

\* What a request's stage says of what is kept for it.
StageOf(r) ==
    /\ ~Published(r) => heard[r] = {} /\ tally[r] = Nothing
    /\ Open(r) => steady[r] \subseteq here /\ here \subseteq seen[r]
    /\ stage[r] # "done" => outcome[r] = None
    /\ stage[r] = "waiting" => left[r] > 0
    /\ outcome[r] = "alone" => Cardinality(heard[r]) <= 1

\* An instance that heard a question of another.
Other(r, i) == Published(r) /\ i \in heard[r] \ {Asker[r]}

\* An answer is of an instance that heard the question, goes to the one that asked,
\* and while that one waits says what its origin held since.
Sound(a, j) ==
    /\ Other(a.request, a.origin)
    /\ Asker[a.request] = j
    /\ Open(a.request) =>
        /\ Counts(a.request, {a.origin}, steady[a.request], seen[a.request], a.connections)
        /\ Names(a.request, {a.origin}, steady[a.request], seen[a.request], a.users)

QuestionMail == \A i \in Instances : \A r \in questions[i] : Published(r) /\ i \in heard[r]

\* A draft is of an instance that heard the question, and counts what it held since.
RightDraft(d, i) ==
    /\ Other(d.request, i)
    /\ Open(d.request) => Counts(d.request, {i}, steady[d.request], seen[d.request], d.connections)

DraftMail == \A i \in Instances : draft[i] # None => RightDraft(draft[i], i)

AnswerMail ==
    /\ \A j \in Instances : \A a \in answers[j] : Sound(a, j)
    /\ \A j \in Instances : hand[j] # None => Sound(hand[j], j)
    /\ \A r \in Requests : \A a \in waiting[r] : a.request = r /\ Sound(a, Asker[r])

\* An instance answers a question once.
Single ==
    /\ \A j \in Instances : \A a, b \in answers[j] :
         a.request = b.request /\ a.origin = b.origin => a = b
    /\ \A r \in Requests : \A a, b \in waiting[r] : a.origin = b.origin => a = b

Places == {"none", "question", "draft", "answer", "hand", "waiting", "counted"}

\* Where the question, or what was answered to it, is for each instance: a function,
\* so it is in one place.
Trail(r, where) ==
    /\ \A i \in Instances : r \in questions[i] => where[i] = "question"
    /\ \A i \in Instances : draft[i] # None /\ draft[i].request = r => where[i] = "draft"
    /\ \A j \in Instances : \A a \in answers[j] : a.request = r => where[a.origin] = "answer"
    /\ \A j \in Instances : hand[j] # None /\ hand[j].request = r => where[hand[j].origin] = "hand"
    /\ \A a \in waiting[r] : where[a.origin] = "waiting"

Counted(where) == {i \in Instances : where[i] = "counted"}

\* The tally is of the instances whose answers were taken, and each of them is one
\* answer less to wait for.
Tallied(r, C) ==
    /\ C \subseteq heard[r] \ {Asker[r]}
    /\ Counts(r, C, steady[r], seen[r], tally[r].connections)
    /\ Names(r, C, steady[r], seen[r], tally[r].users)
    /\ stage[r] = "waiting" => left[r] + Cardinality(C) = Cardinality(heard[r]) - 1
    /\ outcome[r] = "counted" => Cardinality(C) = Cardinality(heard[r]) - 1

Accounted(r) ==
    \E where \in [Instances -> Places] : Trail(r, where) /\ Tallied(r, Counted(where))

Typed ==
    /\ TypeOK
    /\ answers \in [Instances -> SUBSET Answer]
    /\ waiting \in [Requests -> SUBSET Answer]

\* The inductive invariant.
IInv ==
    /\ Typed
    /\ \A r \in Requests : StageOf(r)
    /\ QuestionMail /\ DraftMail /\ AnswerMail /\ Single
    /\ \A r \in Requests : Accounted(r)

-----------------------------------------------------------------------------
(* What is counted                                                         *)

\* Sockets and instances are finitely many.
LEMMA Finite ==
    /\ \A S \in SUBSET Sockets : IsFiniteSet(S) /\ Cardinality(S) \in Nat
    /\ \A S \in SUBSET Instances : IsFiniteSet(S) /\ Cardinality(S) \in Nat
  BY FleetAssumption, FS_Subset, FS_CardinalityType

LEMMA Smaller ==
    ASSUME NEW S \in SUBSET Sockets, NEW T \in SUBSET S
    PROVE  Cardinality(T) <= Cardinality(S)
  BY Finite, FS_Subset

\* A count and a set of people stay right as the sockets that were there all along
\* become fewer and those that were there at some time more.
LEMMA Widen ==
    ASSUME NEW r, NEW C,
           NEW low \in SUBSET Sockets, NEW high \in SUBSET Sockets,
           NEW low2 \in SUBSET low, NEW high2 \in SUBSET Sockets, high \subseteq high2
    PROVE  /\ \A n \in Nat : Counts(r, C, low, high, n) => Counts(r, C, low2, high2, n)
           /\ \A people : Names(r, C, low, high, people) => Names(r, C, low2, high2, people)
<1>1. At(r, C, low2) \in SUBSET At(r, C, low) /\ At(r, C, low) \in SUBSET Sockets
  BY DEF At
<1>2. At(r, C, high) \in SUBSET At(r, C, high2) /\ At(r, C, high2) \in SUBSET Sockets
  BY DEF At
<1>3. Cardinality(At(r, C, low2)) <= Cardinality(At(r, C, low))
  BY <1>1, Smaller
<1>4. Cardinality(At(r, C, high)) <= Cardinality(At(r, C, high2))
  BY <1>2, Smaller
<1>5. /\ Cardinality(At(r, C, low2)) \in Nat /\ Cardinality(At(r, C, low)) \in Nat
      /\ Cardinality(At(r, C, high)) \in Nat /\ Cardinality(At(r, C, high2)) \in Nat
  <2>1. At(r, C, low2) \in SUBSET Sockets /\ At(r, C, high) \in SUBSET Sockets
    BY <1>1, <1>2
  <2> QED
    BY <1>1, <1>2, <2>1, Finite
<1>6. \A n \in Nat : Counts(r, C, low, high, n) => Counts(r, C, low2, high2, n)
  BY <1>3, <1>4, <1>5 DEF Counts
<1>7. \A people : Names(r, C, low, high, people) => Names(r, C, low2, high2, people)
  BY <1>1, <1>2 DEF Names, UsersOf
<1> QED
  BY <1>6, <1>7

\* Of no instance there is nothing to count.
LEMMA CountsNothing ==
    ASSUME NEW r, NEW low, NEW high
    PROVE  Counts(r, {}, low, high, 0) /\ Names(r, {}, low, high, {})
<1>1. At(r, {}, low) = {} /\ At(r, {}, high) = {}
  BY DEF At
<1> QED
  BY <1>1, FS_EmptySet DEF Counts, Names, UsersOf

\* Sockets that are not the same add up.
LEMMA DisjointSum ==
    ASSUME NEW S \in SUBSET Sockets, NEW T \in SUBSET Sockets, S \cap T = {}
    PROVE  Cardinality(S \union T) = Cardinality(S) + Cardinality(T)
<1>1. /\ IsFiniteSet(S) /\ IsFiniteSet(T)
      /\ Cardinality(S) \in Nat /\ Cardinality(T) \in Nat
  BY Finite
<1>2. Cardinality(S \union T) = Cardinality(S) + Cardinality(T) - Cardinality({})
  BY <1>1, FS_Union
<1>3. Cardinality({}) = 0
  BY FS_EmptySet
<1> QED
  BY ONLY <1>1, <1>2, <1>3

\* What two answers say adds up.
LEMMA Join ==
    ASSUME NEW r, NEW C, NEW i, i \notin C,
           NEW low \in SUBSET Sockets, NEW high \in SUBSET Sockets,
           NEW n \in Nat, NEW m \in Nat, NEW people, NEW more,
           Counts(r, C, low, high, n), Counts(r, {i}, low, high, m),
           Names(r, C, low, high, people), Names(r, {i}, low, high, more)
    PROVE  /\ Counts(r, C \union {i}, low, high, n + m)
           /\ Names(r, C \union {i}, low, high, people \union more)
<1> DEFINE lowC == At(r, C, low)
           lowI == At(r, {i}, low)
           highC == At(r, C, high)
           highI == At(r, {i}, high)
\* The sockets of one more instance are other sockets.
<1>1. /\ At(r, C \union {i}, low) = lowC \union lowI
      /\ lowC \cap lowI = {} /\ lowC \in SUBSET Sockets /\ lowI \in SUBSET Sockets
  BY DEF At
<1>2. /\ At(r, C \union {i}, high) = highC \union highI
      /\ highC \cap highI = {} /\ highC \in SUBSET Sockets /\ highI \in SUBSET Sockets
  BY DEF At
<1>3. /\ Cardinality(lowC) <= n /\ n <= Cardinality(highC)
      /\ Cardinality(lowI) <= m /\ m <= Cardinality(highI)
  BY DEF Counts
<1>4. Names(r, C \union {i}, low, high, people \union more)
  BY <1>1, <1>2 DEF Names, UsersOf
<1>5. Counts(r, C \union {i}, low, high, n + m)
  <2> HIDE DEF lowC, lowI, highC, highI
  <2>1. /\ Cardinality(lowC \union lowI) = Cardinality(lowC) + Cardinality(lowI)
        /\ Cardinality(highC \union highI) = Cardinality(highC) + Cardinality(highI)
    BY <1>1, <1>2, DisjointSum
  <2>2. /\ Cardinality(lowC) \in Nat /\ Cardinality(lowI) \in Nat
        /\ Cardinality(highC) \in Nat /\ Cardinality(highI) \in Nat
    BY <1>1, <1>2, Finite
  <2>3. /\ Cardinality(lowC \union lowI) <= n + m
        /\ n + m <= Cardinality(highC \union highI)
    BY <1>3, <2>1, <2>2
  <2> QED
    BY <1>1, <1>2, <2>3 DEF Counts
<1> QED
  BY <1>4, <1>5

-----------------------------------------------------------------------------
(* The steps                                                               *)

\* What a step is.
LEMMA StepCases ==
    ASSUME Typed, [Next]_vars
    PROVE  \/ \E s \in Sockets : Arrive(s) \/ Depart(s)
           \/ \E i \in Instances : \/ Attend(i) \/ Lose(i) \/ Traffic(i)
                                   \/ AnswerSends(i) \/ AnswerRefused(i)
                                   \/ CollectFinds(i) \/ CollectPuts(i)
           \/ \E i \in Instances, r \in Requests : OwnQuestion(i, r) \/ AnswerReads(i, r)
           \/ \E r \in Requests : Asking(r)
           \/ UNCHANGED vars
<1>1. /\ bound.sockets \subseteq Sockets /\ bound.instances \subseteq Instances
      /\ bound.requests \subseteq Requests
  BY FleetAssumption DEF Typed, TypeOK, Bound
<1>2. CASE \E s \in bound.sockets : Arrive(s) \/ Depart(s)
  BY <1>1, <1>2
<1>3. CASE \E i \in bound.instances : Attend(i) \/ Lose(i) \/ Traffic(i) \/ Answering(i)
           \/ Collecting(i)
  BY <1>1, <1>3 DEF Answering, Collecting
<1>4. CASE \E r \in bound.requests : Asking(r)
  BY <1>1, <1>4
<1>5. CASE UNCHANGED vars
  BY <1>5
<1> QED
  BY <1>2, <1>3, <1>4, <1>5 DEF Next

\* What is kept for a request nobody but its own goroutine changes, save for the
\* sockets seen while it is open.
Left(r) ==
    /\ stage'[r] = stage[r] /\ outcome'[r] = outcome[r] /\ left'[r] = left[r]
    /\ tally'[r] = tally[r] /\ heard'[r] = heard[r]
    /\ steady'[r] \subseteq steady[r] /\ seen[r] \subseteq seen'[r]
    /\ ~Open(r) => steady'[r] = steady[r] /\ seen'[r] = seen[r]

LEMMA LeftAlone ==
    ASSUME Typed, [Next]_vars, NEW r \in Requests
    PROVE  Left(r) \/ Asking(r)
<1> USE DEF Left, Typed, TypeOK
<1>1. ASSUME NEW s \in Sockets, Arrive(s) \/ Depart(s) PROVE Left(r)
  BY <1>1 DEF Arrive, Depart, fleetVars, mailVars, askVars
<1>2. ASSUME NEW i \in Instances, Attend(i) \/ Lose(i) \/ Traffic(i) PROVE Left(r)
  BY <1>2 DEF Attend, Lose, Traffic, mailVars, askVars, sinceVars
<1>3. ASSUME NEW i \in Instances, AnswerSends(i) \/ AnswerRefused(i) \/ CollectFinds(i) PROVE Left(r)
  BY <1>3 DEF AnswerSends, AnswerRefused, CollectFinds, askVars, sinceVars
<1>4. ASSUME NEW i \in Instances, CollectPuts(i) PROVE Left(r)
  BY <1>4 DEF CollectPuts, fleetVars, sinceVars
<1>5. ASSUME NEW i \in Instances, NEW q \in Requests, OwnQuestion(i, q) \/ AnswerReads(i, q)
      PROVE  Left(r)
  BY <1>5 DEF OwnQuestion, AnswerReads, askVars, sinceVars
<1>6. ASSUME NEW q \in Requests, Asking(q), q # r PROVE Left(r)
  <2>1. CASE Unknown(q) \/ AskNobody(q) \/ Register(q) \/ AskRefused(q) \/ Deadline(q)
    BY <1>6, <2>1 DEF Unknown, AskNobody, Register, AskRefused, Deadline, Done, mailVars, fleetVars,
        sinceVars
  <2>2. CASE Ask(q)
    BY <1>6, <2>2 DEF Ask, Done, sinceVars
  <2>3. CASE TakeAnswer(q)
    BY <1>6, <2>3 DEF TakeAnswer, Done, sinceVars, fleetVars, mailVars
  <2> QED
    BY <1>6, <2>1, <2>2, <2>3 DEF Asking
<1>7. CASE UNCHANGED vars
  BY <1>7 DEF vars, askVars, sinceVars
<1> QED
  <2> HIDE DEF Left, Typed, TypeOK
  <2> QED
    BY <1>1, <1>2, <1>3, <1>4, <1>5, <1>6, <1>7, StepCases

-----------------------------------------------------------------------------
(* Types                                                                   *)

LEMMA UsersTyped ==
    ASSUME NEW S \in SUBSET Sockets
    PROVE  UsersOf(S) \subseteq Users
  BY DEF UsersOf, Users

LEMMA TypeStep ==
    ASSUME Typed, \A r \in Requests : StageOf(r), [Next]_vars
    PROVE  Typed'
<1> USE DEF Typed, TypeOK
<1>1. ASSUME NEW s \in Sockets, Arrive(s) \/ Depart(s) PROVE Typed'
  <2>1. CASE Arrive(s)
    <3>1. seen' \in [Requests -> SUBSET Sockets] /\ here' \in SUBSET Sockets
      BY <2>1 DEF Arrive
    <3> QED
      BY <2>1, <3>1 DEF Arrive, fleetVars, mailVars, askVars
  <2>2. CASE Depart(s)
    <3>1. steady' \in [Requests -> SUBSET Sockets] /\ here' \in SUBSET Sockets
      BY <2>2 DEF Depart
    <3> QED
      BY <2>2, <3>1 DEF Depart, fleetVars, mailVars, askVars
  <2> QED
    BY <1>1, <2>1, <2>2
<1>2. ASSUME NEW i \in Instances, Attend(i) \/ Traffic(i) PROVE Typed'
  BY <1>2 DEF Attend, Traffic, mailVars, askVars, sinceVars
<1>3. ASSUME NEW i \in Instances, Lose(i) PROVE Typed'
  <2>1. losses' \in 0..bound'.losses
    BY <1>3, FleetAssumption DEF Lose, Bound
  <2> QED
    BY <1>3, <2>1 DEF Lose, askVars, sinceVars
<1>4. ASSUME NEW i \in Instances, AnswerSends(i) PROVE Typed'
  <2>1. draft[i] \in Draft
    BY <1>4 DEF AnswerSends
  <2>2. draft[i].request \in Requests /\ draft[i].connections \in Nat
    BY <2>1 DEF Draft
  <2>3. UsersOf(AnswerAbout(i, About[draft[i].request])) \subseteq Users
    BY UsersTyped DEF AnswerAbout, Held
  <2> DEFINE a == [request |-> draft[i].request, origin |-> i, connections |-> draft[i].connections,
                   users |-> UsersOf(AnswerAbout(i, About[draft[i].request]))]
  <2>4. a \in Answer
    BY <2>2, <2>3 DEF Answer
  <2>5. Asker[draft[i].request] \in Instances
    BY <2>2, FleetAssumption
  <2>6. answers' = [answers EXCEPT ![Asker[draft[i].request]] =
                        IF hearing[Asker[draft[i].request]] THEN @ \union {a} ELSE @]
    BY <1>4 DEF AnswerSends
  <2> HIDE DEF a
  <2>7. answers' \in [Instances -> SUBSET Answer]
    BY <2>4, <2>5, <2>6
  <2> QED
    BY <1>4, <2>7 DEF AnswerSends, askVars, sinceVars
<1>5. ASSUME NEW i \in Instances, AnswerRefused(i) PROVE Typed'
  <2>1. refusals' \in 0..bound'.refusals
    BY <1>5, FleetAssumption DEF AnswerRefused, Bound
  <2> QED
    BY <1>5, <2>1 DEF AnswerRefused, askVars, sinceVars
<1>6. ASSUME NEW i \in Instances, CollectFinds(i) PROVE Typed'
  <2>1. PICK a \in answers[i] :
          /\ answers' = [answers EXCEPT ![i] = @ \ {a}]
          /\ IF Pending(a) = {} THEN UNCHANGED hand
             ELSE \E r \in Pending(a) : hand' = [hand EXCEPT ![i] = [a EXCEPT !.request = r]]
    BY <1>6 DEF CollectFinds
  <2>2. a \in Answer
    OBVIOUS
  <2>3. \A r \in Pending(a) : [a EXCEPT !.request = r] \in Answer
    BY <2>2 DEF Pending, Answer
  <2>4. hand' \in [Instances -> Answer \union {None}]
    <3>1. CASE Pending(a) = {}
      BY <2>1, <3>1
    <3>2. CASE Pending(a) # {}
      <4>1. PICK b \in Answer : hand' = [hand EXCEPT ![i] = b]
        BY <2>1, <2>3, <3>2
      <4> QED
        BY <4>1
    <3> QED
      BY <3>1, <3>2
  <2>5. answers' \in [Instances -> SUBSET Answer]
    BY <2>1
  <2> QED
    BY <1>6, <2>4, <2>5 DEF CollectFinds, askVars, sinceVars
<1>7. ASSUME NEW i \in Instances, CollectPuts(i) PROVE Typed'
  <2>1. hand[i] \in Answer /\ hand[i].request \in Requests
    BY <1>7 DEF CollectPuts, Answer
  <2>2. waiting' \in [Requests -> SUBSET Answer]
    BY <1>7, <2>1 DEF CollectPuts
  <2> QED
    BY <1>7, <2>2 DEF CollectPuts, fleetVars, sinceVars
<1>8. ASSUME NEW i \in Instances, NEW q \in Requests, OwnQuestion(i, q) PROVE Typed'
  BY <1>8 DEF OwnQuestion, askVars, sinceVars
<1>9. ASSUME NEW i \in Instances, NEW q \in Requests, AnswerReads(i, q) PROVE Typed'
  <2>1. AnswerAbout(i, About[q]) \in SUBSET Sockets
    BY DEF AnswerAbout, Held
  <2>2. Cardinality(AnswerAbout(i, About[q])) \in Nat
    BY <2>1, Finite
  <2>3. [request |-> q, connections |-> Cardinality(AnswerAbout(i, About[q]))] \in Draft
    BY <2>2 DEF Draft
  <2> QED
    BY <1>9, <2>3 DEF AnswerReads, askVars, sinceVars
<1>10. ASSUME NEW q \in Requests, Unknown(q) \/ AskNobody(q) \/ Register(q) \/ Deadline(q) PROVE Typed'
  BY <1>10 DEF Unknown, AskNobody, Register, Deadline, Done, Stages, Outcomes, mailVars, fleetVars,
      sinceVars
<1>11. ASSUME NEW q \in Requests, AskRefused(q) PROVE Typed'
  <2>1. refusals' \in 0..bound'.refusals
    BY <1>11, FleetAssumption DEF AskRefused, Bound
  <2>2. Asker[q] \in Instances
    BY FleetAssumption
  <2> QED
    BY <1>11, <2>1, <2>2 DEF AskRefused, Done, Stages, Outcomes, mailVars, sinceVars
<1>12. ASSUME NEW q \in Requests, Ask(q) PROVE Typed'
  <2>1. Listening \in SUBSET Instances /\ Cardinality(Listening) \in Nat
    BY Finite DEF Listening
  <2>2. questions' \in [Instances -> SUBSET Requests]
    BY <1>12 DEF Ask
  <2>3. left' \in [Requests -> Nat] /\ stage' \in [Requests -> Stages]
        /\ outcome' \in [Requests -> Outcomes]
    <3> DEFINE n == Expected(Cardinality(Listening))
    <3>1. n \in Int
      BY <2>1 DEF Expected
    <3>2. IF n <= 0 THEN Done(q, "alone") /\ UNCHANGED left
          ELSE /\ stage' = [stage EXCEPT ![q] = "waiting"]
               /\ left' = [left EXCEPT ![q] = n]
               /\ UNCHANGED outcome
      BY <1>12 DEF Ask
    <3> HIDE DEF n
    <3>3. CASE n <= 0
      BY <3>2, <3>3 DEF Done, Stages, Outcomes
    <3>4. CASE ~(n <= 0)
      <4>1. n \in Nat
        BY <3>1, <3>4
      <4> QED
        BY <3>2, <3>4, <4>1 DEF Stages
    <3> QED
      BY <3>3, <3>4
  <2>4. Asker[q] \in Instances
    BY FleetAssumption
  <2> QED
    BY <1>12, <2>1, <2>2, <2>3, <2>4 DEF Ask, sinceVars
<1>13. ASSUME NEW q \in Requests, TakeAnswer(q) PROVE Typed'
  <2>1. PICK a \in waiting[q] :
          /\ tally' = [tally EXCEPT ![q] = Add(q, a)]
          /\ waiting' = [waiting EXCEPT ![q] = @ \ {a}]
    BY <1>13 DEF TakeAnswer
  <2>2. a \in Answer
    OBVIOUS
  <2>3. a.connections \in Nat /\ a.users \subseteq Users
    BY <2>2 DEF Answer
  <2>4. Add(q, a) \in [connections : Nat, users : SUBSET Users]
    BY <2>3 DEF Add
  <2>5. left[q] > 0
    BY <1>13 DEF StageOf, TakeAnswer
  <2>6. left' \in [Requests -> Nat]
    BY <1>13, <2>5 DEF TakeAnswer
  <2>7. tally' \in [Requests -> [connections : Nat, users : SUBSET Users]]
    BY <2>1, <2>4
  <2>8. waiting' \in [Requests -> SUBSET Answer]
    BY <2>1
  <2> QED
    BY <1>13, <2>6, <2>7, <2>8 DEF TakeAnswer, Done, Stages, Outcomes, fleetVars, mailVars, sinceVars
<1>14. CASE UNCHANGED vars
  BY <1>14 DEF vars, fleetVars, mailVars, askVars, sinceVars
<1> QED
  <2> HIDE DEF Typed, TypeOK
  <2> QED
    BY <1>1, <1>2, <1>3, <1>4, <1>5, <1>6, <1>7, <1>8, <1>9, <1>10, <1>11, <1>12, <1>13, <1>14,
       StepCases DEF Asking

-----------------------------------------------------------------------------
(* Requests                                                                *)

\* What was there all along is there, and what is there was there at some time.
LEMMA SinceStep ==
    ASSUME Typed, [Next]_vars, NEW r \in Requests, StageOf(r), Open(r)'
    PROVE  steady'[r] \subseteq here' /\ here' \subseteq seen'[r]
<1> USE DEF Typed, TypeOK
<1>1. ASSUME NEW s \in Sockets, Arrive(s) PROVE steady'[r] \subseteq here' /\ here' \subseteq seen'[r]
  BY <1>1 DEF Arrive, Open, StageOf, askVars
<1>2. ASSUME NEW s \in Sockets, Depart(s) PROVE steady'[r] \subseteq here' /\ here' \subseteq seen'[r]
  BY <1>2 DEF Depart, Open, StageOf, askVars
<1>3. CASE here' = here /\ seen' = seen /\ steady' = steady /\ Left(r)
  BY <1>3 DEF Left, Open, StageOf
<1>4. CASE Asking(r)
  <2>1. CASE Register(r)
    BY <2>1 DEF Register
  <2>2. CASE Ask(r)
    BY <2>2 DEF Ask, Open, StageOf, sinceVars
  <2>3. CASE TakeAnswer(r)
    BY <2>3 DEF TakeAnswer, Open, StageOf, sinceVars
  <2>4. CASE Unknown(r) \/ AskNobody(r) \/ AskRefused(r) \/ Deadline(r)
    BY <2>4 DEF Unknown, AskNobody, AskRefused, Deadline, Done, Open
  <2> QED
    BY <1>4, <2>1, <2>2, <2>3, <2>4 DEF Asking
<1>5. ASSUME NEW i \in Instances,
             \/ Attend(i) \/ Lose(i) \/ Traffic(i)
             \/ AnswerSends(i) \/ AnswerRefused(i) \/ CollectFinds(i) \/ CollectPuts(i)
      PROVE  here' = here /\ seen' = seen /\ steady' = steady
  BY <1>5 DEF Attend, Lose, Traffic, AnswerSends, AnswerRefused, CollectFinds, CollectPuts, sinceVars
<1>6. ASSUME NEW i \in Instances, NEW q \in Requests, OwnQuestion(i, q) \/ AnswerReads(i, q)
      PROVE  here' = here /\ seen' = seen /\ steady' = steady
  BY <1>6 DEF OwnQuestion, AnswerReads, sinceVars
<1>7. ASSUME NEW q \in Requests, Asking(q), q # r
      PROVE  here' = here /\ seen'[r] = seen[r] /\ steady'[r] = steady[r]
  BY <1>7 DEF Asking, Unknown, AskNobody, Register, Ask, AskRefused, TakeAnswer, Deadline, sinceVars
<1>8. CASE UNCHANGED vars
  BY <1>8 DEF vars, sinceVars, askVars, Open, StageOf
<1>9. ASSUME NEW q \in Requests, Asking(q), q # r, Left(r)
      PROVE  steady'[r] \subseteq here' /\ here' \subseteq seen'[r]
  BY <1>7, <1>9 DEF Left, Open, StageOf
<1> QED
  <2> HIDE DEF Typed, TypeOK
  <2>1. CASE Asking(r)
    BY <1>4, <2>1
  <2>2. CASE Left(r)
    BY <1>1, <1>2, <1>3, <1>5, <1>6, <1>8, <1>9, <2>2, <1>4, StepCases
  <2> QED
    BY <2>1, <2>2, LeftAlone

LEMMA StageStep ==
    ASSUME Typed, [Next]_vars, NEW r \in Requests, StageOf(r)
    PROVE  StageOf(r)'
<1> USE DEF Typed, TypeOK
<1>1. Open(r)' => steady'[r] \subseteq here' /\ here' \subseteq seen'[r]
  BY SinceStep
<1>2. CASE Left(r)
  BY <1>1, <1>2 DEF Left, StageOf, Published
<1>3. CASE Unknown(r) \/ AskNobody(r) \/ AskRefused(r) \/ Deadline(r)
  BY <1>1, <1>3, FleetAssumption DEF Unknown, AskNobody, AskRefused, Deadline, Done, StageOf, Published
<1>4. CASE Register(r)
  BY <1>1, <1>4 DEF Register, StageOf, Published
<1>5. CASE Ask(r)
  <2> DEFINE n == Expected(Cardinality(Listening))
  <2>1. Listening \in SUBSET Instances /\ Cardinality(Listening) \in Nat
    BY Finite DEF Listening
  <2>2. n = Cardinality(Listening) - 1 /\ n \in Int /\ heard'[r] = Listening
    BY <1>5, <2>1 DEF Ask, Expected
  <2>3. CASE n <= 0
    <3>1. stage'[r] = "done" /\ outcome'[r] = "alone"
      BY <1>5, <2>3 DEF Ask, Done
    <3>2. Cardinality(heard'[r]) <= 1
      BY <2>1, <2>2, <2>3
    <3> QED
      BY <1>1, <3>1, <3>2 DEF StageOf, Published
  <2>4. CASE ~(n <= 0)
    <3>1. stage'[r] = "waiting" /\ outcome'[r] = outcome[r] /\ left'[r] = n
      BY <1>5, <2>4 DEF Ask
    <3>2. outcome[r] = None
      BY <1>5 DEF Ask, StageOf
    <3>3. left'[r] > 0
      BY <2>2, <2>4, <3>1
    <3> QED
      BY <1>1, <3>1, <3>2, <3>3, FleetAssumption DEF StageOf, Published
  <2> QED
    BY <2>3, <2>4
<1>6. CASE TakeAnswer(r)
  <2>1. left[r] \in Nat /\ left[r] > 0 /\ outcome[r] = None /\ left'[r] = left[r] - 1
    BY <1>6 DEF TakeAnswer, StageOf
  <2>2. CASE left[r] = 1
    BY <1>1, <1>6, <2>1, <2>2 DEF TakeAnswer, Done, StageOf, Published
  <2>3. CASE left[r] # 1
    BY <1>1, <1>6, <2>1, <2>3, FleetAssumption DEF TakeAnswer, StageOf, Published
  <2> QED
    BY <2>2, <2>3
<1> QED
  BY <1>2, <1>3, <1>4, <1>5, <1>6, LeftAlone DEF Asking

-----------------------------------------------------------------------------
(* Mail                                                                    *)

\* Whoever heard a question heard it for good, and what is known of it while it is
\* open is not less right later.
Lasts(r) ==
    /\ Published(r) => Published(r)' /\ heard'[r] = heard[r]
    /\ Published(r) /\ Open(r)' =>
         Open(r) /\ steady'[r] \subseteq steady[r] /\ seen[r] \subseteq seen'[r]

LEMMA LastsStep ==
    ASSUME Typed, [Next]_vars, NEW r \in Requests
    PROVE  Lasts(r)
<1> USE DEF Typed, TypeOK, Lasts
<1>1. CASE Left(r)
  BY <1>1 DEF Left, Published, Open
<1>2. CASE Unknown(r) \/ AskNobody(r) \/ Register(r) \/ Ask(r) \/ AskRefused(r)
  BY <1>2 DEF Unknown, AskNobody, Register, Ask, AskRefused, Published
<1>3. CASE Deadline(r)
  BY <1>3 DEF Deadline, Done, Published, Open
<1>4. CASE TakeAnswer(r)
  BY <1>4 DEF TakeAnswer, Done, Published, Open, sinceVars
<1> QED
  BY <1>1, <1>2, <1>3, <1>4, LeftAlone DEF Asking

\* So a draft and an answer stay right.
LEMMA CountsLast ==
    ASSUME Typed, Typed', NEW r \in Requests, Lasts(r), Published(r), NEW C, NEW n \in Nat,
           Open(r) => Counts(r, C, steady[r], seen[r], n), Open(r)'
    PROVE  Counts(r, C, steady'[r], seen'[r], n)
<1>1. /\ steady[r] \in SUBSET Sockets /\ seen[r] \in SUBSET Sockets
      /\ steady'[r] \in SUBSET steady[r] /\ seen'[r] \in SUBSET Sockets /\ seen[r] \subseteq seen'[r]
      /\ Open(r)
  BY DEF Typed, TypeOK, Lasts
<1> QED
  BY <1>1, Widen

LEMMA NamesLast ==
    ASSUME Typed, Typed', NEW r \in Requests, Lasts(r), Published(r), NEW C, NEW people,
           Open(r) => Names(r, C, steady[r], seen[r], people), Open(r)'
    PROVE  Names(r, C, steady'[r], seen'[r], people)
<1>1. /\ steady[r] \in SUBSET Sockets /\ seen[r] \in SUBSET Sockets
      /\ steady'[r] \in SUBSET steady[r] /\ seen'[r] \in SUBSET Sockets /\ seen[r] \subseteq seen'[r]
      /\ Open(r)
  BY DEF Typed, TypeOK, Lasts
<1> QED
  BY <1>1, Widen

LEMMA SoundLasts ==
    ASSUME Typed, Typed', [Next]_vars, NEW a \in Answer, NEW j, Sound(a, j)
    PROVE  Sound(a, j)'
<1>1. a.request \in Requests /\ a.connections \in Nat
  BY DEF Answer
<1>2. Lasts(a.request)
  BY <1>1, LastsStep
<1>3. Published(a.request)
  BY DEF Sound, Other
<1>4. Other(a.request, a.origin)'
  BY <1>2 DEF Sound, Other, Lasts
<1>5. Open(a.request)' => Counts(a.request, {a.origin}, steady'[a.request], seen'[a.request],
      a.connections)
  BY <1>1, <1>2, <1>3, CountsLast DEF Sound
<1>6. Open(a.request)' => Names(a.request, {a.origin}, steady'[a.request], seen'[a.request], a.users)
  BY <1>1, <1>2, <1>3, NamesLast DEF Sound
<1> QED
  BY <1>4, <1>5, <1>6 DEF Sound, Counts, Names, At, UsersOf

\* Where mail comes from.
LEMMA QuestionFrom ==
    ASSUME Typed, [Next]_vars, NEW i \in Instances, NEW r \in questions'[i]
    PROVE  r \in questions[i] \/ (r \in Requests /\ Ask(r) /\ i \in Listening)
<1> USE DEF Typed, TypeOK
<1>1. ASSUME NEW q \in Requests, Ask(q) PROVE r \in questions[i] \/ (r = q /\ i \in Listening)
  BY <1>1 DEF Ask, Listening
<1>2. ASSUME NEW q \in Requests, Asking(q), ~Ask(q) PROVE questions' = questions
  BY <1>2 DEF Asking, Unknown, AskNobody, Register, AskRefused, TakeAnswer, Deadline, mailVars
<1>3. ASSUME NEW j \in Instances, NEW q \in Requests, OwnQuestion(j, q) \/ AnswerReads(j, q)
      PROVE  r \in questions[i]
  <2>1. questions' = [questions EXCEPT ![j] = @ \ {q}]
    BY <1>3 DEF OwnQuestion, AnswerReads
  <2> QED
    BY <2>1
<1>4. ASSUME NEW j \in Instances, Lose(j) PROVE r \in questions[i]
  BY <1>4 DEF Lose
<1>5. ASSUME NEW j \in Instances,
             \/ Attend(j) \/ Traffic(j)
             \/ AnswerSends(j) \/ AnswerRefused(j) \/ CollectFinds(j) \/ CollectPuts(j)
      PROVE  questions' = questions
  BY <1>5 DEF Attend, Traffic, AnswerSends, AnswerRefused, CollectFinds, CollectPuts, mailVars
<1>6. ASSUME NEW s \in Sockets, Arrive(s) \/ Depart(s) PROVE questions' = questions
  BY <1>6 DEF Arrive, Depart, mailVars
<1>7. CASE UNCHANGED vars
  BY <1>7 DEF vars, mailVars
<1> QED
  <2> HIDE DEF Typed, TypeOK
  <2> QED
    BY <1>1, <1>2, <1>3, <1>4, <1>5, <1>6, <1>7, StepCases

LEMMA DraftFrom ==
    ASSUME Typed, [Next]_vars, NEW i \in Instances, draft'[i] # None
    PROVE  draft'[i] = draft[i] \/ \E q \in Requests : AnswerReads(i, q)
<1> USE DEF Typed, TypeOK
<1>1. ASSUME NEW j \in Instances, NEW q \in Requests, AnswerReads(j, q), j # i
      PROVE  draft'[i] = draft[i]
  BY <1>1 DEF AnswerReads
<1>2. ASSUME NEW q \in Requests, Asking(q) PROVE draft' = draft
  BY <1>2 DEF Asking, Unknown, AskNobody, Register, Ask, AskRefused, TakeAnswer, Deadline, mailVars
<1>3. ASSUME NEW j \in Instances, NEW q \in Requests, OwnQuestion(j, q) PROVE draft' = draft
  BY <1>3 DEF OwnQuestion
<1>4. ASSUME NEW j \in Instances, AnswerSends(j) \/ AnswerRefused(j) PROVE draft'[i] = draft[i]
  BY <1>4 DEF AnswerSends, AnswerRefused
<1>5. ASSUME NEW j \in Instances, Attend(j) \/ Lose(j) \/ Traffic(j) \/ CollectFinds(j)
             \/ CollectPuts(j)
      PROVE  draft' = draft
  BY <1>5 DEF Attend, Lose, Traffic, CollectFinds, CollectPuts, mailVars
<1>6. ASSUME NEW s \in Sockets, Arrive(s) \/ Depart(s) PROVE draft' = draft
  BY <1>6 DEF Arrive, Depart, mailVars
<1>7. CASE UNCHANGED vars
  BY <1>7 DEF vars, mailVars
<1> QED
  <2> HIDE DEF Typed, TypeOK
  <2> QED
    BY <1>1, <1>2, <1>3, <1>4, <1>5, <1>6, <1>7, StepCases

\* The answer an instance sends.
Reply(i) ==
    [request |-> draft[i].request, origin |-> i, connections |-> draft[i].connections,
     users |-> UsersOf(AnswerAbout(i, About[draft[i].request]))]

LEMMA AnswerFrom ==
    ASSUME Typed, [Next]_vars, NEW j \in Instances, NEW a \in answers'[j]
    PROVE  \/ a \in answers[j]
           \/ \E i \in Instances : AnswerSends(i) /\ a = Reply(i) /\ j = Asker[draft[i].request]
<1> USE DEF Typed, TypeOK
<1>1. ASSUME NEW i \in Instances, AnswerSends(i)
      PROVE  a \in answers[j] \/ (a = Reply(i) /\ j = Asker[draft[i].request])
  <2>1. answers' = [answers EXCEPT ![Asker[draft[i].request]] =
                        IF hearing[Asker[draft[i].request]] THEN @ \union {Reply(i)} ELSE @]
    BY <1>1 DEF AnswerSends, Reply
  <2> QED
    BY <2>1
<1>2. ASSUME NEW q \in Requests, Asking(q) PROVE answers' = answers
  BY <1>2 DEF Asking, Unknown, AskNobody, Register, Ask, AskRefused, TakeAnswer, Deadline, mailVars
<1>3. ASSUME NEW i \in Instances, NEW q \in Requests, OwnQuestion(i, q) \/ AnswerReads(i, q)
      PROVE  answers' = answers
  BY <1>3 DEF OwnQuestion, AnswerReads
<1>4. ASSUME NEW i \in Instances, Lose(i) \/ CollectFinds(i) PROVE a \in answers[j]
  BY <1>4 DEF Lose, CollectFinds
<1>5. ASSUME NEW i \in Instances, Attend(i) \/ Traffic(i) \/ AnswerRefused(i) \/ CollectPuts(i)
      PROVE  answers' = answers
  BY <1>5 DEF Attend, Traffic, AnswerRefused, CollectPuts, mailVars
<1>6. ASSUME NEW s \in Sockets, Arrive(s) \/ Depart(s) PROVE answers' = answers
  BY <1>6 DEF Arrive, Depart, mailVars
<1>7. CASE UNCHANGED vars
  BY <1>7 DEF vars, mailVars
<1> QED
  <2> HIDE DEF Typed, TypeOK
  <2> QED
    BY <1>1, <1>2, <1>3, <1>4, <1>5, <1>6, <1>7, StepCases

\* The collector takes an answer out of the bus's hands, and holds it as it was.
LEMMA Finds ==
    ASSUME Typed, NEW i \in Instances, CollectFinds(i)
    PROVE  /\ hand[i] = None
           /\ \E a \in answers[i] :
                /\ answers' = [answers EXCEPT ![i] = @ \ {a}]
                /\ hand' = hand \/ hand' = [hand EXCEPT ![i] = a]
           /\ questions' = questions /\ draft' = draft /\ waiting' = waiting
<1> USE DEF Typed, TypeOK
<1>1. PICK a \in answers[i] :
        /\ answers' = [answers EXCEPT ![i] = @ \ {a}]
        /\ IF Pending(a) = {} THEN UNCHANGED hand
           ELSE \E r \in Pending(a) : hand' = [hand EXCEPT ![i] = [a EXCEPT !.request = r]]
  BY DEF CollectFinds
<1>2. a \in Answer
  OBVIOUS
<1>3. \A r \in Pending(a) : [a EXCEPT !.request = r] = a
  BY <1>2 DEF Pending, Answer
<1>4. hand' = hand \/ hand' = [hand EXCEPT ![i] = a]
  BY <1>1, <1>3
<1> QED
  BY <1>1, <1>4 DEF CollectFinds, askVars

LEMMA HandFrom ==
    ASSUME Typed, [Next]_vars, NEW j \in Instances, hand'[j] # None
    PROVE  hand'[j] = hand[j] \/ (CollectFinds(j) /\ hand'[j] \in answers[j])
<1> USE DEF Typed, TypeOK
<1>1. ASSUME NEW i \in Instances, CollectFinds(i)
      PROVE  hand'[j] = hand[j] \/ (i = j /\ hand'[j] \in answers[j])
  <2>1. PICK a \in answers[i] : hand' = hand \/ hand' = [hand EXCEPT ![i] = a]
    BY <1>1, Finds
  <2> QED
    BY <2>1
<1>2. ASSUME NEW q \in Requests, Asking(q) PROVE hand' = hand
  BY <1>2 DEF Asking, Unknown, AskNobody, Register, Ask, AskRefused, TakeAnswer, Deadline, mailVars
<1>3. ASSUME NEW i \in Instances, NEW q \in Requests, OwnQuestion(i, q) \/ AnswerReads(i, q)
      PROVE  hand' = hand
  BY <1>3 DEF OwnQuestion, AnswerReads
<1>4. ASSUME NEW i \in Instances, CollectPuts(i) PROVE hand'[j] = hand[j]
  BY <1>4 DEF CollectPuts
<1>5. ASSUME NEW i \in Instances, Attend(i) \/ Lose(i) \/ Traffic(i) \/ AnswerSends(i)
             \/ AnswerRefused(i)
      PROVE  hand' = hand
  BY <1>5 DEF Attend, Lose, Traffic, AnswerSends, AnswerRefused, mailVars
<1>6. ASSUME NEW s \in Sockets, Arrive(s) \/ Depart(s) PROVE hand' = hand
  BY <1>6 DEF Arrive, Depart, mailVars
<1>7. CASE UNCHANGED vars
  BY <1>7 DEF vars, mailVars
<1> QED
  <2> HIDE DEF Typed, TypeOK
  <2> QED
    BY <1>1, <1>2, <1>3, <1>4, <1>5, <1>6, <1>7, StepCases

LEMMA WaitingFrom ==
    ASSUME Typed, [Next]_vars, NEW r \in Requests, NEW a \in waiting'[r]
    PROVE  \/ a \in waiting[r]
           \/ \E i \in Instances : CollectPuts(i) /\ a = hand[i] /\ a \in Answer /\ r = a.request
<1> USE DEF Typed, TypeOK
<1>1. ASSUME NEW i \in Instances, CollectPuts(i)
      PROVE  a \in waiting[r] \/ (a = hand[i] /\ a \in Answer /\ r = a.request)
  <2>1. hand[i] \in Answer /\ hand[i].request \in Requests
    BY <1>1 DEF CollectPuts, Answer
  <2> QED
    BY <1>1, <2>1 DEF CollectPuts
<1>2. ASSUME NEW q \in Requests, TakeAnswer(q) PROVE a \in waiting[r]
  BY <1>2 DEF TakeAnswer
<1>3. ASSUME NEW q \in Requests, Asking(q), ~TakeAnswer(q) PROVE waiting' = waiting
  BY <1>3 DEF Asking, Unknown, AskNobody, Register, Ask, AskRefused, Deadline
<1>4. ASSUME NEW i \in Instances, NEW q \in Requests, OwnQuestion(i, q) \/ AnswerReads(i, q)
      PROVE  waiting' = waiting
  BY <1>4 DEF OwnQuestion, AnswerReads, askVars
<1>5. ASSUME NEW i \in Instances,
             \/ Attend(i) \/ Lose(i) \/ Traffic(i)
             \/ AnswerSends(i) \/ AnswerRefused(i) \/ CollectFinds(i)
      PROVE  waiting' = waiting
  BY <1>5 DEF Attend, Lose, Traffic, AnswerSends, AnswerRefused, CollectFinds, askVars
<1>6. ASSUME NEW s \in Sockets, Arrive(s) \/ Depart(s) PROVE waiting' = waiting
  BY <1>6 DEF Arrive, Depart, askVars
<1>7. CASE UNCHANGED vars
  BY <1>7 DEF vars, askVars
<1> QED
  <2> HIDE DEF Typed, TypeOK
  <2> QED
    BY <1>1, <1>2, <1>3, <1>4, <1>5, <1>6, <1>7, StepCases

\* What an instance reads of itself while a question is open is right.
LEMMA ReadsRight ==
    ASSUME Typed, NEW r \in Requests, StageOf(r), Open(r), NEW i \in Instances
    PROVE  /\ Counts(r, {i}, steady[r], seen[r], Cardinality(AnswerAbout(i, About[r])))
           /\ Names(r, {i}, steady[r], seen[r], UsersOf(AnswerAbout(i, About[r])))
<1>1. AnswerAbout(i, About[r]) = At(r, {i}, here)
  BY DEF AnswerAbout, Held, At
<1>2. /\ here \in SUBSET Sockets /\ steady[r] \in SUBSET Sockets /\ seen[r] \in SUBSET Sockets
      /\ steady[r] \subseteq here /\ here \subseteq seen[r]
  BY DEF Typed, TypeOK, StageOf
<1>3. Cardinality(At(r, {i}, here)) \in Nat
  BY <1>2, Finite DEF At
<1>4. /\ Counts(r, {i}, here, here, Cardinality(At(r, {i}, here)))
      /\ Names(r, {i}, here, here, UsersOf(At(r, {i}, here)))
  BY <1>3 DEF Counts, Names
<1> QED
  BY <1>1, <1>2, <1>3, <1>4, Widen

LEMMA QuestionStep ==
    ASSUME Typed, QuestionMail, Typed', [Next]_vars
    PROVE  QuestionMail'
<1> SUFFICES ASSUME NEW i \in Instances, NEW r \in questions'[i]
             PROVE  Published(r)' /\ i \in heard'[r]
  BY DEF QuestionMail
<1>1. r \in Requests
  BY DEF Typed, TypeOK
<1>2. CASE r \in questions[i]
  BY <1>1, <1>2, LastsStep DEF QuestionMail, Lasts
<1>3. CASE Ask(r) /\ i \in Listening
  BY <1>1, <1>3 DEF Ask, Done, Published, Typed, TypeOK
<1> QED
  BY <1>2, <1>3, QuestionFrom

LEMMA DraftStep ==
    ASSUME Typed, \A r \in Requests : StageOf(r), QuestionMail, DraftMail, Typed', [Next]_vars
    PROVE  DraftMail'
<1> SUFFICES ASSUME NEW i \in Instances, draft'[i] # None
             PROVE  RightDraft(draft[i], i)'
  BY DEF DraftMail
<1>1. PICK d \in Draft : d = draft'[i]
  BY DEF Typed, TypeOK
<1>2. d.request \in Requests /\ d.connections \in Nat
  BY DEF Draft
<1>3. CASE d = draft[i]
  <2>1. RightDraft(d, i)
    BY <1>1, <1>3 DEF DraftMail
  <2>2. Lasts(d.request)
    BY <1>2, LastsStep
  <2>3. Open(d.request)' => Counts(d.request, {i}, steady'[d.request], seen'[d.request], d.connections)
    BY <1>2, <2>1, <2>2, CountsLast DEF Other, RightDraft
  <2>4. Other(d.request, i)'
    BY <2>1, <2>2 DEF RightDraft, Other, Lasts
  <2> QED
    BY <1>1, <2>3, <2>4 DEF RightDraft, Counts, At
<1>4. ASSUME NEW q \in Requests, AnswerReads(i, q)
      PROVE  RightDraft(draft[i], i)'
  <2>1. d = [request |-> q, connections |-> Cardinality(AnswerAbout(i, About[q]))]
    BY <1>1, <1>4 DEF AnswerReads, Typed, TypeOK
  <2>2. d.request = q /\ d.connections = Cardinality(AnswerAbout(i, About[q]))
    BY <2>1
  <2>3. Published(q) /\ i \in heard[q] \ {Asker[q]}
    BY <1>4 DEF AnswerReads, QuestionMail
  <2>4. stage' = stage /\ heard' = heard /\ steady' = steady /\ seen' = seen
    BY <1>4 DEF AnswerReads, askVars, sinceVars
  <2>5. Open(q) => Counts(q, {i}, steady[q], seen[q], Cardinality(AnswerAbout(i, About[q])))
    BY ReadsRight
  <2>6. RightDraft(d, i)
    BY <2>2, <2>3, <2>5 DEF RightDraft, Other
  <2> QED
    BY <1>1, <2>4, <2>6 DEF RightDraft, Other, Published, Open, Counts, At
<1> QED
  BY <1>1, <1>3, <1>4, DraftFrom

\* An answer is right when it is sent.
LEMMA ReplySound ==
    ASSUME Typed, \A r \in Requests : StageOf(r), DraftMail, NEW i \in Instances, draft[i] # None
    PROVE  Sound(Reply(i), Asker[draft[i].request]) /\ Reply(i) \in Answer
<1>1. PICK d \in Draft : d = draft[i]
  BY DEF Typed, TypeOK
<1>2. d.request \in Requests /\ d.connections \in Nat
  BY DEF Draft
<1>3. RightDraft(d, i)
  BY <1>1 DEF DraftMail
<1>4. Open(d.request) =>
        Names(d.request, {i}, steady[d.request], seen[d.request],
            UsersOf(AnswerAbout(i, About[d.request])))
  BY <1>2, ReadsRight
<1>5. UsersOf(AnswerAbout(i, About[d.request])) \subseteq Users
  BY UsersTyped DEF AnswerAbout, Held, Typed, TypeOK
<1>6. Reply(i) = [request |-> d.request, origin |-> i, connections |-> d.connections,
                  users |-> UsersOf(AnswerAbout(i, About[d.request]))]
  BY <1>1 DEF Reply
<1>7. Reply(i) \in Answer
  BY <1>2, <1>5, <1>6 DEF Answer
<1>8. /\ Reply(i).request = d.request /\ Reply(i).origin = i /\ Reply(i).connections = d.connections
      /\ Reply(i).users = UsersOf(AnswerAbout(i, About[d.request]))
  BY <1>6
<1> QED
  BY <1>1, <1>3, <1>4, <1>7, <1>8 DEF Sound, RightDraft

LEMMA AnswerStep ==
    ASSUME Typed, \A r \in Requests : StageOf(r), DraftMail, AnswerMail, Typed', [Next]_vars
    PROVE  AnswerMail'
<1>1. ASSUME NEW j \in Instances, NEW a \in answers'[j] PROVE Sound(a, j)'
  <2>1. a \in Answer
    BY DEF Typed, TypeOK
  <2>2. Sound(a, j)
    <3>1. CASE a \in answers[j]
      BY <3>1 DEF AnswerMail
    <3>2. ASSUME NEW i \in Instances, AnswerSends(i), a = Reply(i), j = Asker[draft[i].request]
          PROVE  Sound(a, j)
      BY <3>2, ReplySound DEF AnswerSends
    <3> QED
      BY <3>1, <3>2, AnswerFrom
  <2> QED
    BY <2>1, <2>2, SoundLasts
<1>2. ASSUME NEW j \in Instances, hand'[j] # None PROVE Sound(hand[j], j)'
  <2>1. PICK a \in Answer : a = hand'[j]
    BY <1>2 DEF Typed, TypeOK
  <2>2. Sound(a, j)
    BY <1>2, <2>1, HandFrom DEF AnswerMail
  <2>3. Sound(a, j)'
    BY <2>1, <2>2, SoundLasts
  <2> QED
    BY <2>1, <2>3 DEF Sound
<1>3. ASSUME NEW r \in Requests, NEW a \in waiting'[r] PROVE a.request = r /\ Sound(a, Asker[r])'
  <2>1. a \in Answer
    BY DEF Typed, TypeOK
  <2>2. a.request = r /\ Sound(a, Asker[r])
    <3>1. CASE a \in waiting[r]
      BY <3>1 DEF AnswerMail
    <3>2. ASSUME NEW i \in Instances, CollectPuts(i), a = hand[i], r = a.request
          PROVE  a.request = r /\ Sound(a, Asker[r])
      <4>1. Sound(a, i)
        BY <3>2 DEF AnswerMail, CollectPuts
      <4> QED
        BY <3>2, <4>1 DEF Sound
    <3> QED
      BY <3>1, <3>2, WaitingFrom
  <2> QED
    BY <2>1, <2>2, SoundLasts
<1> QED
  BY <1>1, <1>2, <1>3 DEF AnswerMail

\* An instance that is yet to answer has not answered.
LEMMA SingleStep ==
    ASSUME Typed, AnswerMail, Single, \A r \in Requests : Accounted(r), [Next]_vars
    PROVE  Single'
<1>1. ASSUME NEW j \in Instances, NEW a \in answers'[j], NEW b \in answers'[j],
             a.request = b.request, a.origin = b.origin
      PROVE  a = b
  <2>1. ASSUME NEW c \in answers[j], NEW i \in Instances, AnswerSends(i),
               c.request = Reply(i).request, c.origin = Reply(i).origin
        PROVE  FALSE
    <3>1. draft[i] # None /\ draft[i] \in Draft
      BY <2>1 DEF AnswerSends, Typed, TypeOK
    <3>2. PICK r \in Requests : r = draft[i].request
      BY <3>1 DEF Draft
    <3>3. c.request = r /\ c.origin = i
      BY <2>1, <3>2 DEF Reply
    <3>4. PICK where \in [Instances -> Places] : Trail(r, where)
      BY DEF Accounted
    <3>5. where[i] = "draft" /\ where[i] = "answer"
      BY <3>1, <3>2, <3>3, <3>4 DEF Trail
    <3> QED
      BY <3>5
  <2>2. ASSUME NEW i \in Instances, NEW k \in Instances, AnswerSends(i), AnswerSends(k),
               a = Reply(i), b = Reply(k)
        PROVE  a = b
    BY <1>1, <2>2 DEF Reply
  <2> QED
    BY <1>1, <2>1, <2>2, AnswerFrom DEF Single
<1>2. ASSUME NEW r \in Requests, NEW a \in waiting'[r], NEW b \in waiting'[r], a.origin = b.origin
      PROVE  a = b
  <2>1. ASSUME NEW c \in waiting[r], NEW i \in Instances, CollectPuts(i),
               r = hand[i].request, c.origin = hand[i].origin
        PROVE  FALSE
    <3>1. PICK where \in [Instances -> Places] : Trail(r, where)
      BY DEF Accounted
    <3>2. where[c.origin] = "waiting" /\ where[hand[i].origin] = "hand"
      BY <2>1, <3>1 DEF Trail, CollectPuts
    <3> QED
      BY <2>1, <3>2
  <2>2. ASSUME NEW i \in Instances, NEW k \in Instances, CollectPuts(i), CollectPuts(k),
               a = hand[i], b = hand[k], a.request = r, b.request = r
        PROVE  a = b
    <3>1. Sound(a, i) /\ Sound(b, k)
      BY <2>2 DEF AnswerMail, CollectPuts
    <3>2. i = k
      BY <2>2, <3>1 DEF Sound
    <3> QED
      BY <2>2, <3>2
  <2> QED
    BY <1>2, <2>1, <2>2, WaitingFrom DEF Single
<1> QED
  BY <1>1, <1>2 DEF Single

-----------------------------------------------------------------------------
(* Where an answer is                                                      *)

\* Mail of a question that only becomes less is where it was.
Fewer(r) ==
    /\ \A i \in Instances : r \in questions'[i] => r \in questions[i]
    /\ \A i \in Instances : draft'[i] # None /\ draft'[i].request = r => draft'[i] = draft[i]
    /\ \A j \in Instances : \A a \in answers'[j] : a.request = r => a \in answers[j]
    /\ \A j \in Instances : hand'[j] # None /\ hand'[j].request = r => hand'[j] = hand[j]
    /\ \A a \in waiting'[r] : a \in waiting[r]

LEMMA TrailKeeps ==
    ASSUME NEW r \in Requests, NEW where, Trail(r, where), Fewer(r)
    PROVE  Trail(r, where)'
  BY DEF Trail, Fewer

\* Any step but the taking of an answer leaves the tally of the same instances.
LEMMA TalliedStays ==
    ASSUME Typed, Typed', [Next]_vars, NEW r \in Requests, StageOf(r), ~TakeAnswer(r),
           NEW C \in SUBSET Instances, Tallied(r, C)
    PROVE  Tallied(r, C)'
<1> USE DEF Typed, TypeOK
<1>1. CASE Left(r)
  <2>1. /\ steady[r] \in SUBSET Sockets /\ seen[r] \in SUBSET Sockets
        /\ steady'[r] \in SUBSET steady[r] /\ seen'[r] \in SUBSET Sockets /\ seen[r] \subseteq seen'[r]
        /\ tally[r].connections \in Nat /\ tally'[r] = tally[r]
    BY <1>1 DEF Left
  <2>2. /\ Counts(r, C, steady'[r], seen'[r], tally[r].connections)
        /\ Names(r, C, steady'[r], seen'[r], tally[r].users)
    <3>1. /\ Counts(r, C, steady[r], seen[r], tally[r].connections)
          /\ Names(r, C, steady[r], seen[r], tally[r].users)
      BY DEF Tallied
    <3> HIDE DEF Typed, TypeOK
    <3>2. Counts(r, C, steady'[r], seen'[r], tally[r].connections)
      BY <2>1, <3>1, Widen
    <3>3. Names(r, C, steady'[r], seen'[r], tally[r].users)
      BY <2>1, <3>1, Widen
    <3> QED
      BY <3>2, <3>3
  <2>3. /\ Counts(r, C, steady[r], seen[r], tally[r].connections)'
        /\ Names(r, C, steady[r], seen[r], tally[r].users)'
    BY <2>1, <2>2 DEF Counts, Names, At, UsersOf
  <2>4. /\ C \subseteq heard'[r] \ {Asker[r]}
        /\ stage'[r] = "waiting" => left'[r] + Cardinality(C) = Cardinality(heard'[r]) - 1
        /\ outcome'[r] = "counted" => Cardinality(C) = Cardinality(heard'[r]) - 1
    BY <1>1 DEF Left, Tallied
  <2> QED
    BY <2>3, <2>4 DEF Tallied
<1>2. ASSUME ~Published(r)
      PROVE  /\ C = {} /\ Cardinality(C) = 0 /\ outcome[r] = None
             /\ tally'[r] = tally[r] =>
                  /\ Counts(r, C, steady[r], seen[r], tally[r].connections)'
                  /\ Names(r, C, steady[r], seen[r], tally[r].users)'
  <2>1. C = {} /\ tally[r] = Nothing /\ outcome[r] = None
    BY <1>2 DEF StageOf, Tallied, Published
  <2>2. Cardinality(C) = 0
    BY <2>1, FS_EmptySet
  <2>3. Counts(r, {}, steady'[r], seen'[r], 0) /\ Names(r, {}, steady'[r], seen'[r], {})
    BY CountsNothing
  <2> QED
    BY <2>1, <2>2, <2>3 DEF Counts, Names, At, UsersOf, Nothing
<1>3. CASE Unknown(r) \/ AskNobody(r) \/ Register(r) \/ AskRefused(r)
  <2>1. ~Published(r)
    BY <1>3 DEF Unknown, AskNobody, Register, AskRefused, Published
  <2>2. tally' = tally
    BY <1>3 DEF Unknown, AskNobody, Register, AskRefused
  <2>3. stage'[r] # "waiting" /\ outcome'[r] # "counted"
    BY <1>2, <1>3, <2>1, FleetAssumption DEF Unknown, AskNobody, Register, AskRefused, Done
  <2> QED
    BY <1>2, <2>1, <2>2, <2>3 DEF Tallied
<1>4. CASE Ask(r)
  <2>1. ~Published(r) /\ tally' = tally
    BY <1>4 DEF Ask, Published
  <2>2. Listening \in SUBSET Instances /\ Cardinality(Listening) \in Nat
    BY Finite DEF Listening
  <2>3. heard'[r] = Listening /\ outcome'[r] # "counted"
    BY <1>2, <1>4, <2>1, FleetAssumption DEF Ask, Done
  <2>4. stage'[r] = "waiting" => left'[r] = Cardinality(Listening) - 1
    BY <1>4 DEF Ask, Done, Expected
  <2>5. stage'[r] = "waiting" => left'[r] + Cardinality(C) = Cardinality(heard'[r]) - 1
    BY <1>2, <2>1, <2>2, <2>3, <2>4
  <2> QED
    BY <1>2, <2>1, <2>3, <2>5 DEF Tallied
<1>5. CASE Deadline(r)
  <2>1. /\ stage'[r] = "done" /\ outcome'[r] = "deadline"
        /\ heard' = heard /\ tally' = tally /\ steady' = steady /\ seen' = seen
    BY <1>5 DEF Deadline, Done, sinceVars
  <2> QED
    BY <2>1 DEF Tallied, Counts, Names, At, UsersOf
<1> QED
  BY <1>1, <1>3, <1>4, <1>5, LeftAlone DEF Asking

\* The step of a request that mail of it takes.
Moves(r) ==
    \/ Ask(r)
    \/ TakeAnswer(r)
    \/ \E i \in Instances :
         \/ AnswerReads(i, r)
         \/ AnswerSends(i) /\ draft[i].request = r
         \/ CollectFinds(i)
         \/ CollectPuts(i) /\ hand[i].request = r

LEMMA FewerStep ==
    ASSUME Typed, Typed', [Next]_vars, NEW r \in Requests, ~Moves(r)
    PROVE  Fewer(r)
<1>1. ASSUME NEW i \in Instances, r \in questions'[i] PROVE r \in questions[i]
  BY <1>1, QuestionFrom DEF Moves
<1>2. ASSUME NEW i \in Instances, draft'[i] # None, draft'[i].request = r PROVE draft'[i] = draft[i]
  <2>1. ASSUME NEW q \in Requests, AnswerReads(i, q) PROVE FALSE
    <3>1. draft'[i] = [request |-> q, connections |-> Cardinality(AnswerAbout(i, About[q]))]
      BY <2>1 DEF AnswerReads, Typed, TypeOK
    <3>2. q = r
      BY <1>2, <3>1
    <3> QED
      BY <2>1, <3>2 DEF Moves
  <2> QED
    BY <1>2, <2>1, DraftFrom
<1>3. ASSUME NEW j \in Instances, NEW a \in answers'[j], a.request = r PROVE a \in answers[j]
  BY <1>3, AnswerFrom DEF Moves, Reply
<1>4. ASSUME NEW j \in Instances, hand'[j] # None, hand'[j].request = r PROVE hand'[j] = hand[j]
  BY <1>4, HandFrom DEF Moves
<1>5. ASSUME NEW a \in waiting'[r] PROVE a \in waiting[r]
  BY <1>5, WaitingFrom DEF Moves
<1> QED
  BY <1>1, <1>2, <1>3, <1>4, <1>5 DEF Fewer

\* An instance whose answer was not taken may be anywhere else.
LEMMA MoveOf ==
    ASSUME NEW where \in [Instances -> Places], NEW i \in Instances, where[i] # "counted",
           NEW place \in Places \ {"counted"}
    PROVE  /\ [where EXCEPT ![i] = place] \in [Instances -> Places]
           /\ Counted([where EXCEPT ![i] = place]) = Counted(where)
  BY DEF Counted

\* A question goes out: every instance that listens has it, and nothing else of it
\* is anywhere.
LEMMA AskMoves ==
    ASSUME Typed, Typed', [Next]_vars, NEW r \in Requests, StageOf(r), QuestionMail, DraftMail,
           AnswerMail,
           Accounted(r), Ask(r)
    PROVE  Accounted(r)'
<1>1. PICK old \in [Instances -> Places] : Tallied(r, Counted(old))
  BY DEF Accounted
<1>2. ~Published(r) /\ heard[r] = {}
  BY DEF Ask, Published, StageOf
<1>3. Counted(old) = {}
  BY <1>1, <1>2 DEF Tallied
<1>4. PICK where \in [Instances -> Places] :
           where = [i \in Instances |-> IF answering[i] THEN "question" ELSE "none"]
  BY DEF Places
<1>5. Counted(where) = Counted(old)
  BY <1>3, <1>4 DEF Counted
<1>6. Tallied(r, Counted(where))'
  <2>1. ~TakeAnswer(r)
    BY DEF Ask, TakeAnswer
  <2>2. PICK C \in SUBSET Instances : C = Counted(where)
    BY DEF Counted
  <2>3. Tallied(r, C)'
    BY <1>1, <1>5, <2>1, <2>2, TalliedStays
  <2> QED
    BY <2>2, <2>3
<1>7. \A i \in Instances : r \in questions'[i] => where[i] = "question"
  <2>1. ASSUME NEW i \in Instances, r \in questions'[i] PROVE i \in Listening
    BY <1>2, <2>1, QuestionFrom DEF QuestionMail
  <2> QED
    BY <1>4, <2>1 DEF Listening
<1>8. /\ draft' = draft /\ answers' = answers /\ hand' = hand /\ waiting' = waiting
  BY DEF Ask
<1>9. /\ \A i \in Instances : draft[i] # None => draft[i].request # r
      /\ \A j \in Instances : \A a \in answers[j] : a.request # r
      /\ \A j \in Instances : hand[j] # None => hand[j].request # r
      /\ waiting[r] = {}
  <2>1. \A i \in Instances : draft[i] # None => draft[i].request # r
    BY <1>2 DEF DraftMail, RightDraft, Other
  <2>2. \A a, j : Sound(a, j) => a.request # r
    BY <1>2 DEF Sound, Other
  <2> QED
    BY <2>1, <2>2 DEF AnswerMail
<1>10. Trail(r, where)'
  BY <1>7, <1>8, <1>9 DEF Trail
<1> QED
  BY <1>6, <1>10 DEF Accounted

\* An instance takes the question.
LEMMA ReadMoves ==
    ASSUME Typed, Typed', NEW r \in Requests, NEW i \in Instances, AnswerReads(i, r),
           NEW where \in [Instances -> Places], Trail(r, where)
    PROVE  /\ where[i] = "question"
           /\ Trail(r, [where EXCEPT ![i] = "draft"])'
<1> DEFINE new == [where EXCEPT ![i] = "draft"]
<1>1. where[i] = "question"
  BY DEF AnswerReads, Trail
<1>2. /\ questions' = [questions EXCEPT ![i] = @ \ {r}]
      /\ \A k \in Instances \ {i} : draft'[k] = draft[k]
      /\ answers' = answers /\ hand' = hand /\ waiting' = waiting
  BY DEF AnswerReads, askVars, Typed, TypeOK
<1>3. \A k \in Instances : r \in questions'[k] => k # i /\ r \in questions[k]
  BY <1>2 DEF Typed, TypeOK
<1>4. /\ \A j \in Instances : \A a \in answers[j] : a.request = r => a.origin # i
      /\ \A j \in Instances : hand[j] # None /\ hand[j].request = r => hand[j].origin # i
      /\ \A a \in waiting[r] : a.origin # i
  BY <1>1 DEF Trail
<1>5. new[i] = "draft" /\ \A k : k # i => new[k] = where[k]
  OBVIOUS
<1> HIDE DEF new
<1>6. Trail(r, new)'
  BY <1>2, <1>3, <1>4, <1>5 DEF Trail
<1> QED
  BY <1>1, <1>6 DEF new

\* It answers.
LEMMA SendMoves ==
    ASSUME Typed, Typed', [Next]_vars, NEW r \in Requests, NEW i \in Instances,
           AnswerSends(i), draft[i].request = r,
           NEW where \in [Instances -> Places], Trail(r, where)
    PROVE  /\ where[i] = "draft"
           /\ Trail(r, [where EXCEPT ![i] = "answer"])'
<1> DEFINE new == [where EXCEPT ![i] = "answer"]
<1>1. where[i] = "draft"
  BY DEF AnswerSends, Trail
<1>2. /\ draft' = [draft EXCEPT ![i] = None]
      /\ questions' = questions /\ hand' = hand /\ waiting' = waiting
  BY DEF AnswerSends, askVars
<1>3. \A k \in Instances : draft'[k] # None => k # i /\ draft'[k] = draft[k]
  BY <1>2 DEF Typed, TypeOK
<1>4. /\ \A k \in Instances : r \in questions[k] => k # i
      /\ \A j \in Instances : hand[j] # None /\ hand[j].request = r => hand[j].origin # i
      /\ \A a \in waiting[r] : a.origin # i
  BY <1>1 DEF Trail
<1>5. \A j \in Instances : \A a \in answers'[j] : a.request = r => a.origin = i
      \/ where[a.origin] = "answer"
  <2> SUFFICES ASSUME NEW j \in Instances, NEW a \in answers'[j], a.request = r
               PROVE  a.origin = i \/ where[a.origin] = "answer"
    OBVIOUS
  <2>1. CASE a \in answers[j]
    BY <2>1 DEF Trail
  <2>2. ASSUME NEW k \in Instances, AnswerSends(k), a = Reply(k)
        PROVE  a.origin = i \/ where[a.origin] = "answer"
    <3>1. a.origin = k /\ a.request = draft[k].request
      BY <2>2 DEF Reply
    <3>2. CASE k = i
      BY <3>1, <3>2
    <3>3. CASE k # i
      <4>1. draft' = [draft EXCEPT ![k] = None] /\ draft[i] # None
        BY <2>2 DEF AnswerSends
      <4>2. draft'[i] = None /\ draft'[i] = draft[i]
        BY <1>2, <3>3, <4>1 DEF Typed, TypeOK
      <4> QED
        BY <4>1, <4>2
    <3> QED
      BY <3>2, <3>3
  <2> QED
    BY <2>1, <2>2, AnswerFrom
<1>6. new[i] = "answer" /\ \A k : k # i => new[k] = where[k]
  OBVIOUS
<1> HIDE DEF new
<1>7. \A j \in Instances : \A a \in answers'[j] : a.request = r => new[a.origin] = "answer"
  BY <1>5, <1>6
<1>8. Trail(r, new)'
  BY <1>2, <1>3, <1>4, <1>6, <1>7 DEF Trail
<1> QED
  BY <1>1, <1>8 DEF new

\* The collector takes the answer.
LEMMA FindMoves ==
    ASSUME Typed, Typed', NEW r \in Requests, AnswerMail, Single, NEW i \in Instances, CollectFinds(i),
           NEW where \in [Instances -> Places], Trail(r, where)
    PROVE  \/ Trail(r, where)'
           \/ \E o \in Instances : where[o] = "answer" /\ Trail(r, [where EXCEPT ![o] = "hand"])'
<1>1. PICK a \in answers[i] :
        /\ answers' = [answers EXCEPT ![i] = @ \ {a}]
        /\ hand' = hand \/ hand' = [hand EXCEPT ![i] = a]
  BY Finds
<1>2. /\ questions' = questions /\ draft' = draft /\ waiting' = waiting /\ hand[i] = None
  BY Finds
<1>3. \A j \in Instances : answers'[j] \subseteq answers[j]
  BY <1>1 DEF Typed, TypeOK
<1>4. CASE hand' = hand \/ a.request # r
  <2>1. \A j \in Instances : hand'[j] # None /\ hand'[j].request = r => hand'[j] = hand[j]
    BY <1>1, <1>4 DEF Typed, TypeOK
  <2>2. Fewer(r)
    BY <1>2, <1>3, <2>1 DEF Fewer
  <2> QED
    BY <2>2, TrailKeeps
<1>5. CASE hand' = [hand EXCEPT ![i] = a] /\ a.request = r
  <2>1. a \in Answer
    BY DEF Typed
  <2>2. PICK o \in Instances : o = a.origin
    BY <2>1 DEF Answer
  <2> DEFINE new == [where EXCEPT ![o] = "hand"]
  <2>3. where[o] = "answer"
    BY <1>5, <2>2 DEF Trail
  <2>4. /\ \A k \in Instances : r \in questions[k] => k # o
        /\ \A k \in Instances : draft[k] # None /\ draft[k].request = r => k # o
        /\ \A b \in waiting[r] : b.origin # o
    BY <2>3 DEF Trail
  <2>5. \A j \in Instances : \A b \in answers'[j] : b.request = r => b.origin # o
    <3> SUFFICES ASSUME NEW j \in Instances, NEW b \in answers'[j], b.request = r, b.origin = o
                 PROVE  FALSE
      OBVIOUS
    <3>1. b \in answers[j]
      BY <1>3
    <3>2. j = i
      <4>1. Sound(a, i) /\ Sound(b, j)
        BY <3>1 DEF AnswerMail
      <4> QED
        BY <1>5, <4>1 DEF Sound
    <3>3. b = a
      BY <1>5, <2>2, <3>1, <3>2 DEF Single
    <3> QED
      BY <1>1, <3>2, <3>3 DEF Typed
  <2>6. \A j \in Instances : hand'[j] # None => (j = i /\ hand'[j] = a) \/ hand'[j] = hand[j]
    BY <1>5 DEF Typed, TypeOK
  <2>7. new[o] = "hand" /\ \A k : k # o => new[k] = where[k]
    OBVIOUS
  <2> HIDE DEF new
  <2>8. \A j \in Instances : hand'[j] # None /\ hand'[j].request = r => new[hand'[j].origin] = "hand"
    BY <2>2, <2>6, <2>7 DEF Trail
  <2>9. \A j \in Instances : \A b \in answers'[j] : b.request = r => new[b.origin] = "answer"
    BY <1>3, <2>5, <2>7 DEF Trail
  <2>10. Trail(r, new)'
    BY <1>2, <2>4, <2>7, <2>8, <2>9 DEF Trail
  <2> QED
    BY <2>3, <2>10 DEF new
<1> QED
  BY <1>1, <1>4, <1>5

\* And puts it where ask reads.
LEMMA PutMoves ==
    ASSUME Typed, Typed', [Next]_vars, NEW r \in Requests, AnswerMail, NEW i \in Instances,
           CollectPuts(i), hand[i].request = r,
           NEW where \in [Instances -> Places], Trail(r, where)
    PROVE  \E o \in Instances : where[o] = "hand" /\ Trail(r, [where EXCEPT ![o] = "waiting"])'
<1>1. PICK a \in Answer : a = hand[i]
  BY DEF CollectPuts, Typed, TypeOK
<1>2. PICK o \in Instances : o = a.origin
  BY DEF Answer
<1> DEFINE new == [where EXCEPT ![o] = "waiting"]
<1>3. where[o] = "hand"
  BY <1>1, <1>2 DEF Trail, CollectPuts
<1>4. /\ questions' = questions /\ draft' = draft /\ answers' = answers
      /\ hand' = [hand EXCEPT ![i] = None]
      /\ \A b \in waiting'[r] : b \in waiting[r] \/ b = a
  BY <1>1 DEF CollectPuts, Typed, TypeOK
<1>5. \A j \in Instances : hand'[j] # None => j # i /\ hand'[j] = hand[j]
  BY <1>4 DEF Typed, TypeOK
<1>6. /\ \A k \in Instances : r \in questions[k] => k # o
      /\ \A k \in Instances : draft[k] # None /\ draft[k].request = r => k # o
      /\ \A j \in Instances : \A b \in answers[j] : b.request = r => b.origin # o
  BY <1>3 DEF Trail
<1>7. \A j \in Instances : hand[j] # None /\ hand[j].request = r => j = i
  <2>1. \A j \in Instances : hand[j] # None => Asker[hand[j].request] = j
    BY DEF AnswerMail, Sound
  <2> QED
    BY <2>1 DEF CollectPuts
<1>8. new[o] = "waiting" /\ \A k : k # o => new[k] = where[k]
  OBVIOUS
<1> HIDE DEF new
<1>9. \A b \in waiting'[r] : new[b.origin] = "waiting"
  BY <1>2, <1>4, <1>8 DEF Trail
<1>10. Trail(r, new)'
  BY <1>4, <1>5, <1>6, <1>7, <1>8, <1>9 DEF Trail
<1> QED
  BY <1>3, <1>10 DEF new

\* ask takes it, once.
LEMMA TakeMoves ==
    ASSUME Typed, Typed', NEW r \in Requests, StageOf(r), AnswerMail, Single, Accounted(r),
           TakeAnswer(r)
    PROVE  Accounted(r)'
<1>1. PICK where \in [Instances -> Places] : Trail(r, where) /\ Tallied(r, Counted(where))
  BY DEF Accounted
<1>2. PICK a \in waiting[r] :
        /\ tally' = [tally EXCEPT ![r] = Add(r, a)]
        /\ waiting' = [waiting EXCEPT ![r] = @ \ {a}]
  BY DEF TakeAnswer
<1>3. a \in Answer /\ a.connections \in Nat
  BY DEF Typed, Answer
<1>4. PICK o \in Instances : o = a.origin
  BY <1>3 DEF Answer
<1>5. PICK new \in [Instances -> Places] : new = [where EXCEPT ![o] = "counted"]
  BY DEF Places
<1>6. PICK C \in SUBSET Instances : C = Counted(where)
  BY DEF Counted
<1>7. where[o] = "waiting" /\ o \notin C
  BY <1>1, <1>4, <1>6 DEF Trail, Counted
<1>8. Counted(new) = C \union {o}
  BY <1>5, <1>6 DEF Counted
<1>9. /\ stage[r] = "waiting" /\ questions' = questions /\ draft' = draft /\ answers' = answers
      /\ hand' = hand /\ heard' = heard /\ steady' = steady /\ seen' = seen
  BY DEF TakeAnswer, mailVars, sinceVars
<1>10. Trail(r, new)'
  <2>1. new[o] = "counted" /\ \A k \in Instances : k # o => new[k] = where[k]
    BY <1>5
  <2>2. /\ \A k \in Instances : r \in questions[k] => k # o /\ new[k] = "question"
        /\ \A k \in Instances : draft[k] # None /\ draft[k].request = r => k # o /\ new[k] = "draft"
    BY <1>1, <1>7, <2>1 DEF Trail
  <2>3. \A j \in Instances : \A b \in answers[j] : b.request = r => new[b.origin] = "answer"
    <3> SUFFICES ASSUME NEW j \in Instances, NEW b \in answers[j], b.request = r
                 PROVE  new[b.origin] = "answer"
      OBVIOUS
    <3>1. b.origin \in Instances
      BY DEF Typed, Answer
    <3> QED
      BY <1>1, <1>7, <2>1, <3>1 DEF Trail
  <2>4. \A j \in Instances : hand[j] # None /\ hand[j].request = r => new[hand[j].origin] = "hand"
    <3> SUFFICES ASSUME NEW j \in Instances, hand[j] # None, hand[j].request = r
                 PROVE  new[hand[j].origin] = "hand"
      OBVIOUS
    <3>1. hand[j].origin \in Instances
      BY DEF Typed, TypeOK, Answer
    <3> QED
      BY <1>1, <1>7, <2>1, <3>1 DEF Trail
  <2>5. \A b \in waiting'[r] : new[b.origin] = "waiting"
    <3> SUFFICES ASSUME NEW b \in waiting'[r] PROVE new[b.origin] = "waiting"
      OBVIOUS
    <3>1. b \in waiting[r] /\ b # a
      BY <1>2 DEF Typed
    <3>2. b.origin \in Instances /\ b.origin # o
      BY <1>4, <3>1 DEF Typed, Answer, Single
    <3> QED
      BY <1>1, <2>1, <3>1, <3>2 DEF Trail
  <2> QED
    BY <1>9, <2>2, <2>3, <2>4, <2>5 DEF Trail
<1>11. /\ o \in heard[r] \ {Asker[r]}
       /\ Counts(r, {o}, steady[r], seen[r], a.connections)
       /\ Names(r, {o}, steady[r], seen[r], a.users)
  <2>1. a.request = r /\ Sound(a, Asker[r])
    BY DEF AnswerMail
  <2> QED
    BY <1>4, <1>9, <2>1 DEF Sound, Other, Open
<1>12. /\ tally'[r].connections = tally[r].connections + a.connections
       /\ tally'[r].users = tally[r].users \union a.users
       /\ tally[r].connections \in Nat
  BY <1>2, <1>4, <1>11 DEF Add, Typed, TypeOK
<1>13. /\ Counts(r, C \union {o}, steady[r], seen[r], tally'[r].connections)
       /\ Names(r, C \union {o}, steady[r], seen[r], tally'[r].users)
  <2>1. Counts(r, C, steady[r], seen[r], tally[r].connections) /\ Names(r, C, steady[r], seen[r],
        tally[r].users)
    BY <1>1, <1>6 DEF Tallied
  <2>2. steady[r] \in SUBSET Sockets /\ seen[r] \in SUBSET Sockets
    BY DEF Typed, TypeOK
  <2>3. /\ Counts(r, C \union {o}, steady[r], seen[r], tally[r].connections + a.connections)
        /\ Names(r, C \union {o}, steady[r], seen[r], tally[r].users \union a.users)
    BY <1>3, <1>7, <1>11, <1>12, <2>1, <2>2, Join
  <2> QED
    BY <1>12, <2>3
<1>14. /\ Cardinality(C \union {o}) = Cardinality(C) + 1
       /\ Cardinality(C) \in Nat /\ Cardinality(heard[r]) \in Nat
  <2>1. IsFiniteSet(C) /\ Cardinality(C) \in Nat /\ heard[r] \in SUBSET Instances
    BY Finite DEF Typed, TypeOK
  <2> QED
    BY <1>7, <2>1, FS_AddElement, Finite
<1>15. /\ left[r] \in Nat /\ left[r] > 0 /\ left'[r] = left[r] - 1
       /\ left[r] + Cardinality(C) = Cardinality(heard[r]) - 1
       /\ outcome[r] = None
  BY <1>1, <1>6, <1>9 DEF TakeAnswer, Typed, TypeOK, StageOf, Tallied
<1>16. /\ stage'[r] = "waiting" => left'[r] + Cardinality(C \union {o}) = Cardinality(heard[r]) - 1
       /\ outcome'[r] = "counted" => Cardinality(C \union {o}) = Cardinality(heard[r]) - 1
  <2>1. left'[r] + Cardinality(C \union {o}) = Cardinality(heard[r]) - 1
    BY <1>14, <1>15
  <2>2. outcome'[r] = "counted" => left[r] = 1
    BY <1>15, FleetAssumption DEF TakeAnswer
  <2> QED
    BY <1>14, <1>15, <2>1, <2>2
<1>17. C \union {o} \subseteq heard[r] \ {Asker[r]}
  BY <1>1, <1>6, <1>11 DEF Tallied
<1>18. Tallied(r, C \union {o})'
  BY <1>9, <1>13, <1>16, <1>17 DEF Tallied, Counts, Names, At, UsersOf
<1> QED
  BY <1>8, <1>10, <1>18 DEF Accounted

LEMMA AccountStep ==
    ASSUME Typed, Typed', [Next]_vars, NEW r \in Requests, StageOf(r), QuestionMail, DraftMail,
           AnswerMail,
           Single, Accounted(r)
    PROVE  Accounted(r)'
<1>1. CASE Ask(r)
  BY <1>1, AskMoves
<1>2. CASE TakeAnswer(r)
  BY <1>2, TakeMoves
<1>3. CASE ~Ask(r) /\ ~TakeAnswer(r)
  <2>1. PICK where \in [Instances -> Places] : Trail(r, where) /\ Tallied(r, Counted(where))
    BY DEF Accounted
  <2>2. \A new \in [Instances -> Places] : Counted(new) = Counted(where) => Tallied(r, Counted(new))'
    <3> SUFFICES ASSUME NEW new \in [Instances -> Places], Counted(new) = Counted(where)
                 PROVE  Tallied(r, Counted(new))'
      OBVIOUS
    <3>1. PICK C \in SUBSET Instances : C = Counted(new)
      BY DEF Counted
    <3>2. Tallied(r, C)'
      BY <1>3, <2>1, <3>1, TalliedStays
    <3> QED
      BY <3>1, <3>2
  \* One instance's part moves on.
  <2>3. ASSUME NEW i \in Instances, where[i] # "counted", NEW place \in Places \ {"counted"},
               Trail(r, [where EXCEPT ![i] = place])'
        PROVE  Accounted(r)'
    <3>1. PICK new \in [Instances -> Places] : new = [where EXCEPT ![i] = place]
               /\ Counted(new) = Counted(where)
      BY <2>3, MoveOf
    <3> QED
      BY <2>2, <2>3, <3>1 DEF Accounted
  <2>4. ASSUME Trail(r, where)' PROVE Accounted(r)'
    BY <2>2, <2>4 DEF Accounted
  <2>5. ASSUME NEW i \in Instances, AnswerReads(i, r) PROVE Accounted(r)'
    BY <2>1, <2>3, <2>5, ReadMoves DEF Places
  <2>6. ASSUME NEW i \in Instances, AnswerSends(i), draft[i].request = r PROVE Accounted(r)'
    BY <2>1, <2>3, <2>6, SendMoves DEF Places
  <2>7. ASSUME NEW i \in Instances, CollectFinds(i) PROVE Accounted(r)'
    BY <2>1, <2>3, <2>4, <2>7, FindMoves DEF Places
  <2>8. ASSUME NEW i \in Instances, CollectPuts(i), hand[i].request = r PROVE Accounted(r)'
    BY <2>1, <2>3, <2>8, PutMoves DEF Places
  <2>9. CASE ~Moves(r)
    BY <2>1, <2>4, <2>9, FewerStep, TrailKeeps
  <2> QED
    BY <1>3, <2>5, <2>6, <2>7, <2>8, <2>9 DEF Moves
<1> QED
  BY <1>1, <1>2, <1>3

-----------------------------------------------------------------------------
(* The theorems                                                            *)

LEMMA InitOK == Init => IInv
<1> SUFFICES ASSUME Init PROVE IInv
  OBVIOUS
<1> USE DEF Init
<1>1. Typed
  <2>1. bound \in Bounds /\ bound \in Bound
    BY FleetAssumption
  <2>2. 0 \in 0..bound.losses /\ 0 \in 0..bound.refusals /\ here \in SUBSET Sockets
    BY <2>1 DEF Bound
  <2>3. Nothing \in [connections : Nat, users : SUBSET Users]
    BY DEF Nothing
  <2> QED
    BY <2>1, <2>2, <2>3 DEF Typed, TypeOK, Stages, Outcomes
<1>2. \A r \in Requests : StageOf(r)
  BY FleetAssumption DEF StageOf, Published, Open
<1>3. QuestionMail /\ DraftMail /\ AnswerMail /\ Single
  BY DEF QuestionMail, DraftMail, AnswerMail, Single
<1>4. ASSUME NEW r \in Requests PROVE Accounted(r)
  <2>1. PICK where \in [Instances -> Places] : where = [i \in Instances |-> "none"]
    BY DEF Places
  <2>2. Counted(where) = {}
    BY <2>1 DEF Counted
  <2>3. Tallied(r, {})
    <3>1. Counts(r, {}, steady[r], seen[r], 0) /\ Names(r, {}, steady[r], seen[r], {})
      BY CountsNothing
    <3>2. tally[r].connections = 0 /\ tally[r].users = {}
      BY DEF Nothing
    <3>3. stage[r] # "waiting" /\ outcome[r] # "counted"
      BY FleetAssumption
    <3> HIDE DEF Init
    <3> QED
      BY <3>1, <3>2, <3>3 DEF Tallied
  <2>4. Trail(r, where)
    BY DEF Trail
  <2> QED
    BY <2>2, <2>3, <2>4 DEF Accounted
<1> QED
  BY <1>1, <1>2, <1>3, <1>4 DEF IInv

LEMMA NextOK == IInv /\ [Next]_vars => IInv'
<1> SUFFICES ASSUME IInv, [Next]_vars PROVE IInv'
  OBVIOUS
<1>1. Typed'
  BY TypeStep DEF IInv
<1>2. ASSUME NEW r \in Requests PROVE StageOf(r)'
  BY <1>2, StageStep DEF IInv
<1>3. QuestionMail'
  BY <1>1, QuestionStep DEF IInv
<1>4. DraftMail'
  BY <1>1, DraftStep DEF IInv
<1>5. AnswerMail'
  BY <1>1, AnswerStep DEF IInv
<1>6. Single'
  BY SingleStep DEF IInv
<1>7. ASSUME NEW r \in Requests PROVE Accounted(r)'
  BY <1>1, AccountStep DEF IInv
<1> QED
  BY <1>1, <1>2, <1>3, <1>4, <1>5, <1>6, <1>7 DEF IInv

\* The tally is of what some of the others held, and of all of them when as many
\* answered as were asked.
LEMMA IInvTrue == IInv => TallyTrue
<1> SUFFICES ASSUME IInv PROVE TallyTrue
  OBVIOUS
<1>1. ASSUME NEW r \in Requests
      PROVE  /\ tally[r].connections <= Cardinality(Elsewhere(r, seen[r]))
             /\ tally[r].users \subseteq UsersOf(Elsewhere(r, seen[r]))
             /\ (outcome[r] \in {"counted", "alone"} /\ Asker[r] \in heard[r]) => Complete(r)
  <2>1. PICK C \in SUBSET Instances : Tallied(r, C)
    BY DEF IInv, Accounted, Counted
  <2>2. /\ Typed /\ StageOf(r)
        /\ seen[r] \in SUBSET Sockets /\ steady[r] \in SUBSET Sockets
        /\ heard[r] \in SUBSET Instances /\ tally[r].connections \in Nat
    BY DEF IInv, Typed, TypeOK
  <2>3. /\ At(r, C, seen[r]) \in SUBSET Elsewhere(r, seen[r])
        /\ Elsewhere(r, seen[r]) \in SUBSET Sockets
    BY <2>1, <2>2 DEF At, Elsewhere, Tallied
  <2>4. Cardinality(At(r, C, seen[r])) <= Cardinality(Elsewhere(r, seen[r]))
    BY <2>3, Smaller
  <2>5. Cardinality(At(r, C, seen[r])) \in Nat /\ Cardinality(Elsewhere(r, seen[r])) \in Nat
    <3>1. At(r, C, seen[r]) \in SUBSET Sockets
      BY <2>3
    <3> QED
      BY <2>3, <3>1, Finite
  <2>6. tally[r].connections <= Cardinality(Elsewhere(r, seen[r]))
    BY <2>1, <2>2, <2>4, <2>5 DEF Tallied, Counts
  <2>7. tally[r].users \subseteq UsersOf(Elsewhere(r, seen[r]))
    BY <2>1, <2>3 DEF Tallied, Names, UsersOf
  <2>8. ASSUME C = heard[r] \ {Asker[r]} PROVE Complete(r)
    <3>1. At(r, C, steady[r]) = Elsewhere(r, steady[r])
      BY <2>8 DEF At, Elsewhere
    <3>2. Cardinality(At(r, C, steady[r])) \in Nat
      <4>1. At(r, C, steady[r]) \in SUBSET Sockets
        BY <2>2 DEF At
      <4> QED
        BY <4>1, Finite
    <3> QED
      BY <2>1, <2>2, <3>1, <3>2 DEF Complete, Tallied, Counts, Names
  <2>9. IsFiniteSet(heard[r]) /\ Cardinality(heard[r]) \in Nat
    BY <2>2, Finite
  <2>10. ASSUME Asker[r] \in heard[r]
         PROVE  Cardinality(heard[r] \ {Asker[r]}) = Cardinality(heard[r]) - 1
                /\ IsFiniteSet(heard[r] \ {Asker[r]})
    BY <2>9, <2>10, FS_RemoveElement
  <2>11. ASSUME outcome[r] = "counted", Asker[r] \in heard[r] PROVE C = heard[r] \ {Asker[r]}
    <3>1. C \in SUBSET (heard[r] \ {Asker[r]}) /\ Cardinality(C) = Cardinality(heard[r] \ {Asker[r]})
      BY <2>1, <2>10, <2>11 DEF Tallied
    <3> QED
      BY <2>10, <2>11, <3>1, FS_Subset
  <2>12. ASSUME outcome[r] = "alone", Asker[r] \in heard[r] PROVE C = heard[r] \ {Asker[r]}
    <3>1. Cardinality(heard[r]) <= 1
      BY <2>2, <2>12 DEF StageOf
    <3>2. Cardinality(heard[r]) # 0
      BY <2>9, <2>12, FS_EmptySet
    <3>3. Cardinality(heard[r] \ {Asker[r]}) = 0
      BY <2>9, <2>10, <2>12, <3>1, <3>2
    <3>4. heard[r] \ {Asker[r]} = {}
      BY <2>10, <2>12, <3>3, FS_EmptySet
    <3> QED
      BY <2>1, <3>4 DEF Tallied
  <2> QED
    BY <2>6, <2>7, <2>8, <2>11, <2>12
<1> QED
  BY <1>1 DEF TallyTrue, TallyHonest, CompleteWhenHeard, IInv, Typed

\* What a metrics route reports of the rest of the fleet (Relay.ask, answer, collect
\* and FleetTally.add): whatever subscriptions are lost, answers dropped, late or
\* refused, sockets come and go and however many questions are open at once, no
\* socket is counted that was not open at another instance that heard the question
\* while it was, none twice, and none of another tenant; and a question the asking
\* instance heard itself that ended before its deadline misses nobody.
THEOREM TallyIsTrue == Spec => []TallyTrue
<1>1. Init => IInv
  BY InitOK
<1>2. IInv /\ [Next]_vars => IInv'
  BY NextOK
<1>3. IInv => TallyTrue
  BY IInvTrue
<1> QED
  BY <1>1, <1>2, <1>3, PTL DEF Spec

=============================================================================
