-------------------------------- MODULE Fleet --------------------------------
(***************************************************************************)
(* The metrics routes of a fleet: an instance answers with what it holds   *)
(* and what the others say they hold. Questions and answers travel over    *)
(* the bus (scaling.go: serve, attend, ask, answer, collect, add), which   *)
(* loses them when a subscription is down; a question ends when as many    *)
(* answers came as the bus said would, or at a deadline, and whatever      *)
(* comes later is for nobody.                                              *)
(*                                                                         *)
(* Every socket of a tenant is on one presence channel of that tenant, and *)
(* is somebody's tab. Each question is one request to a route: "list"      *)
(* (connections, channels) or "one" (channel, channelUsers), which first   *)
(* looks the channel up at home.                                           *)
(***************************************************************************)
EXTENDS Integers, FiniteSets

CONSTANTS
    Instances, Sockets, Requests, None,
    Home,           \* the instance that holds a socket
    Tenant,         \* the tenant of a socket
    User,           \* whose tab a socket is
    Asker,          \* the instance a request arrives at
    About,          \* the tenant of the grant it was authorized with
    Route,          \* "list" or "one"
    Backlog,        \* fleetBacklog
    Bounds          \* the bounds a behaviour may have

\* A bound: the instances that are up, the sockets that come and go, the requests
\* that arrive, the subscriptions lost and the publishes the bus refuses.
Bound == [instances : SUBSET Instances, sockets : SUBSET Sockets, requests : SUBSET Requests,
          losses : Nat, refusals : Nat]

ASSUME FleetAssumption ==
    /\ IsFiniteSet(Instances) /\ IsFiniteSet(Sockets)
    /\ Home \in [Sockets -> Instances]
    /\ Asker \in [Requests -> Instances]
    /\ Route \in [Requests -> {"list", "one"}]
    /\ Backlog \in Nat
    /\ Bounds \subseteq Bound
    /\ None \notin Instances \union Requests
    /\ None \notin {"alone", "refused", "degraded", "unknown", "counted", "deadline"}

VARIABLES
    here,           \* the sockets that are open
    answering,      \* per instance: its subscription to MetricsTopic is up
    hearing,        \* per instance: its subscription to its reply topic is up
    degraded,
    bound,          \* the bounds of this behaviour
    losses, refusals,
    questions,      \* per instance, questions the bus is handing over
    draft,          \* per instance, the answer its answering goroutine is at
    answers,        \* per instance, answers the bus is handing over
    hand,           \* per instance, the answer its collecting goroutine holds
    stage,          \* per request, where ask is
    outcome,        \* per request, why ask came back
    waiting,        \* per request, Relay.pending's channel
    left,           \* per request, answers still expected
    tally,          \* per request, FleetTally
    heard,          \* history: the instances the question was handed to
    seen, steady    \* history: sockets open at some time, and all the time, since

fleetVars == <<answering, hearing, degraded, bound, losses, refusals>>
mailVars == <<questions, draft, answers, hand>>
askVars == <<stage, outcome, waiting, left, tally>>
sinceVars == <<seen, steady>>
vars == <<here, fleetVars, mailVars, askVars, heard, sinceVars>>

Stages == {"idle", "asked", "waiting", "done"}
Outcomes == {None, "alone", "refused", "degraded", "unknown", "counted", "deadline"}
Users == {User[s] : s \in Sockets}
Draft == [request : Requests, connections : Nat]
Answer == [request : Requests, origin : Instances, connections : Nat, users : SUBSET Users]
Nothing == [connections |-> 0, users |-> {}]

\* The open sockets an instance holds for a tenant.
Held(i, t) == {s \in here : Home[s] = i /\ Tenant[s] = t}

UsersOf(sockets) == {User[s] : s \in sockets}

Init ==
    /\ bound \in Bounds
    /\ here \in SUBSET bound.sockets
    /\ answering = [i \in Instances |-> FALSE]
    /\ hearing = [i \in Instances |-> FALSE]
    /\ degraded = [i \in Instances |-> FALSE]
    /\ losses = 0
    /\ refusals = 0
    /\ questions = [i \in Instances |-> {}]
    /\ draft = [i \in Instances |-> None]
    /\ answers = [i \in Instances |-> {}]
    /\ hand = [i \in Instances |-> None]
    /\ stage = [r \in Requests |-> "idle"]
    /\ outcome = [r \in Requests |-> None]
    /\ waiting = [r \in Requests |-> {}]
    /\ left = [r \in Requests |-> 0]
    /\ tally = [r \in Requests |-> Nothing]
    /\ heard = [r \in Requests |-> {}]
    /\ seen = [r \in Requests |-> {}]
    /\ steady = [r \in Requests |-> {}]

-----------------------------------------------------------------------------
(* Sockets, and the bus                                                    *)

Open(r) == stage[r] \in {"asked", "waiting"}

\* register of the server that holds the socket.
Arrive(s) ==
    /\ s \notin here
    /\ here' = here \union {s}
    /\ seen' = [r \in Requests |-> IF Open(r) THEN seen[r] \union {s} ELSE seen[r]]
    /\ UNCHANGED <<fleetVars, mailVars, askVars, heard, steady>>

\* unregister.
Depart(s) ==
    /\ s \in here
    /\ here' = here \ {s}
    /\ steady' = [r \in Requests |-> IF Open(r) THEN steady[r] \ {s} ELSE steady[r]]
    /\ UNCHANGED <<fleetVars, mailVars, askVars, heard, seen>>

\* attend: bus.Subscribe opens one of the two subscriptions of serve. The reply
\* topic of an instance that never asks carries nothing, and is left out.
Attend(i) ==
    /\ \/ /\ ~answering[i]
          /\ answering' = [answering EXCEPT ![i] = TRUE]
          /\ UNCHANGED hearing
       \/ /\ ~hearing[i]
          /\ \E r \in bound.requests : Asker[r] = i
          /\ hearing' = [hearing EXCEPT ![i] = TRUE]
          /\ UNCHANGED answering
    /\ UNCHANGED <<here, degraded, bound, losses, refusals, mailVars, askVars, heard, sinceVars>>

\* attend: bus.Subscribe comes back and the server lives on: fail. The attempts
\* that follow end in Attend; what the bus was handing over is lost.
Lose(i) ==
    /\ losses < bound.losses
    /\ losses' = losses + 1
    /\ \/ /\ answering[i]
          /\ answering' = [answering EXCEPT ![i] = FALSE]
          /\ questions' = [questions EXCEPT ![i] = {}]
          /\ UNCHANGED <<hearing, answers>>
       \/ /\ hearing[i]
          /\ hearing' = [hearing EXCEPT ![i] = FALSE]
          /\ answers' = [answers EXCEPT ![i] = {}]
          /\ UNCHANGED <<answering, questions>>
    /\ degraded' = [degraded EXCEPT ![i] = TRUE]
    /\ UNCHANGED <<here, bound, refusals, draft, hand, askVars, heard, sinceVars>>

\* An event carried or relayed meanwhile reached the bus: recovered (module Relay).
Traffic(i) ==
    /\ degraded[i]
    /\ degraded' = [degraded EXCEPT ![i] = FALSE]
    /\ UNCHANGED <<here, answering, hearing, bound, losses, refusals, mailVars, askVars, heard, sinceVars>>

-----------------------------------------------------------------------------
(* Asking                                                                  *)

\* The end of ask, or of the route before it asked. The pending entry goes with
\* it; what is in its channel, or is put there later, is read by nobody.
Done(r, why) ==
    /\ stage' = [stage EXCEPT ![r] = "done"]
    /\ outcome' = [outcome EXCEPT ![r] = why]

\* routes.find: a channel this instance does not hold is unknown.
Found(r) == Route[r] = "one" => Held(Asker[r], About[r]) # {}

Unknown(r) ==
    /\ stage[r] = "idle"
    /\ ~Found(r)
    /\ Done(r, "unknown")
    /\ seen' = [seen EXCEPT ![r] = here]
    /\ steady' = [steady EXCEPT ![r] = here]
    /\ UNCHANGED <<here, fleetVars, mailVars, waiting, left, tally, heard>>

\* ask on a degraded relay: only what is at home.
AskNobody(r) ==
    /\ stage[r] = "idle"
    /\ Found(r)
    /\ degraded[Asker[r]]
    /\ Done(r, "degraded")
    /\ UNCHANGED <<here, fleetVars, mailVars, waiting, left, tally, heard, sinceVars>>

\* ask up to the pending entry, which exists before the question is sent.
Register(r) ==
    /\ stage[r] = "idle"
    /\ Found(r)
    /\ ~degraded[Asker[r]]
    /\ stage' = [stage EXCEPT ![r] = "asked"]
    /\ seen' = [seen EXCEPT ![r] = here]
    /\ steady' = [steady EXCEPT ![r] = here]
    /\ UNCHANGED <<here, fleetVars, mailVars, outcome, waiting, left, tally, heard>>

\* External: the subscribers of MetricsTopic when a question is published.
Listening == {i \in Instances : answering[i]}

\* Mutant: two subscriptions too many are taken for this instance's own.
ExpectedShort(n) == n - 2

\* One less than the bus answered: this instance's own subscription.
Expected(n) == n - 1

\* Mutant: a question nobody heard is waited for.
AskAnyway(r) ==
    /\ stage[r] = "asked"
    /\ heard' = [heard EXCEPT ![r] = Listening]
    /\ questions' = [i \in Instances |-> IF answering[i] THEN questions[i] \union {r} ELSE questions[i]]
    /\ degraded' = [degraded EXCEPT ![Asker[r]] = FALSE]
    /\ stage' = [stage EXCEPT ![r] = "waiting"]
    /\ left' = [left EXCEPT ![r] = Expected(Cardinality(Listening))]
    /\ UNCHANGED <<here, answering, hearing, bound, losses, refusals, draft, answers, hand, outcome, waiting, tally, sinceVars>>

\* bus.Publish of the question, and how many answers it makes ask wait for.
Ask(r) ==
    LET expected == Expected(Cardinality(Listening)) IN
    /\ stage[r] = "asked"
    /\ heard' = [heard EXCEPT ![r] = Listening]
    /\ questions' = [i \in Instances |-> IF answering[i] THEN questions[i] \union {r} ELSE questions[i]]
    /\ degraded' = [degraded EXCEPT ![Asker[r]] = FALSE]
    /\ IF expected <= 0
       THEN Done(r, "alone") /\ UNCHANGED left
       ELSE /\ stage' = [stage EXCEPT ![r] = "waiting"]
            /\ left' = [left EXCEPT ![r] = expected]
            /\ UNCHANGED outcome
    /\ UNCHANGED <<here, answering, hearing, bound, losses, refusals, draft, answers, hand, waiting, tally, sinceVars>>

\* bus.Publish refuses the question: fail.
AskRefused(r) ==
    /\ stage[r] = "asked"
    /\ refusals < bound.refusals
    /\ refusals' = refusals + 1
    /\ degraded' = [degraded EXCEPT ![Asker[r]] = TRUE]
    /\ Done(r, "refused")
    /\ UNCHANGED <<here, answering, hearing, bound, losses, mailVars, waiting, left, tally, heard, sinceVars>>

\* FleetTally.add: sockets add up, people are a set. The answer's tenant is the
\* question's, and the question's is the grant's; an instance does not answer
\* itself.
Add(r, answer) ==
    IF answer.origin = Asker[r] THEN tally[r]
    ELSE [connections |-> tally[r].connections + answer.connections,
          users |-> tally[r].users \union answer.users]

\* One turn of ask's loop: an answer taken from the pending entry.
TakeAnswer(r) ==
    /\ stage[r] = "waiting"
    /\ \E answer \in waiting[r] :
        /\ tally' = [tally EXCEPT ![r] = Add(r, answer)]
        /\ waiting' = [waiting EXCEPT ![r] = @ \ {answer}]
    /\ left' = [left EXCEPT ![r] = @ - 1]
    /\ IF left[r] = 1 THEN Done(r, "counted") ELSE UNCHANGED <<stage, outcome>>
    /\ UNCHANGED <<here, fleetVars, mailVars, heard, sinceVars>>

\* Mutant: the timer is only looked at between two answers.
DeadlineBetween(r) ==
    /\ stage[r] = "waiting"
    /\ left[r] < Expected(Cardinality(heard[r]))
    /\ Done(r, "deadline")
    /\ UNCHANGED <<here, fleetVars, mailVars, waiting, left, tally, heard, sinceVars>>

\* The other two ways out of the loop: the timer, or the end of the request.
Deadline(r) ==
    /\ stage[r] = "waiting"
    /\ Done(r, "deadline")
    /\ UNCHANGED <<here, fleetVars, mailVars, waiting, left, tally, heard, sinceVars>>

-----------------------------------------------------------------------------
(* Answering                                                               *)

\* answer of a question of this instance's own: nothing.
OwnQuestion(i, r) ==
    /\ r \in questions[i]
    /\ Asker[r] = i
    /\ draft[i] = None
    /\ questions' = [questions EXCEPT ![i] = @ \ {r}]
    /\ degraded' = [degraded EXCEPT ![i] = FALSE]
    /\ UNCHANGED <<here, answering, hearing, bound, losses, refusals, draft, answers, hand, askVars, heard, sinceVars>>

\* Mutant: an instance answers about every tenant.
AnswerAll(i, t) == {s \in here : Home[s] = i}

\* What an answer is about: the sockets of the tenant that was asked about.
AnswerAbout(i, t) == Held(i, t)

\* answer, first half: tenantConnections.
AnswerReads(i, r) ==
    /\ r \in questions[i]
    /\ Asker[r] # i
    /\ draft[i] = None
    /\ questions' = [questions EXCEPT ![i] = @ \ {r}]
    /\ draft' = [draft EXCEPT ![i] =
            [request |-> r, connections |-> Cardinality(AnswerAbout(i, About[r]))]]
    /\ degraded' = [degraded EXCEPT ![i] = FALSE]
    /\ UNCHANGED <<here, answering, hearing, bound, losses, refusals, answers, hand, askVars, heard, sinceVars>>

\* answer, second half: the channels, and the publish on the asker's own topic.
\* Nobody hears it when the asker's subscription is down.
AnswerSends(i) ==
    /\ draft[i] # None
    /\ LET r == draft[i].request
           answer == [request |-> r, origin |-> i, connections |-> draft[i].connections,
                      users |-> UsersOf(AnswerAbout(i, About[r]))]
       IN answers' = [answers EXCEPT ![Asker[r]] = IF hearing[Asker[r]] THEN @ \union {answer} ELSE @]
    /\ draft' = [draft EXCEPT ![i] = None]
    /\ degraded' = [degraded EXCEPT ![i] = FALSE]
    /\ UNCHANGED <<here, answering, hearing, bound, losses, refusals, questions, hand, askVars, heard, sinceVars>>

\* The bus refuses the answer: fail.
AnswerRefused(i) ==
    /\ draft[i] # None
    /\ refusals < bound.refusals
    /\ refusals' = refusals + 1
    /\ draft' = [draft EXCEPT ![i] = None]
    /\ degraded' = [degraded EXCEPT ![i] = TRUE]
    /\ UNCHANGED <<here, answering, hearing, bound, losses, questions, answers, hand, askVars, heard, sinceVars>>

\* Relay.pending: the question an answer names, while ask has not come back.
Pending(answer) == {r \in Requests : r = answer.request /\ Open(r)}

\* collect, under pendingMu: the entry is looked up and the lock let go.
CollectFinds(i) ==
    /\ hand[i] = None
    /\ \E answer \in answers[i] :
        /\ answers' = [answers EXCEPT ![i] = @ \ {answer}]
        /\ IF Pending(answer) = {}
           THEN UNCHANGED hand
           ELSE \E r \in Pending(answer) : hand' = [hand EXCEPT ![i] = [answer EXCEPT !.request = r]]
    /\ degraded' = [degraded EXCEPT ![i] = FALSE]
    /\ UNCHANGED <<here, answering, hearing, bound, losses, refusals, questions, draft, askVars, heard, sinceVars>>

\* Mutant: the collector waits for room.
CollectWaits(i) ==
    /\ hand[i] # None
    /\ Cardinality(waiting[hand[i].request]) < Backlog
    /\ waiting' = [waiting EXCEPT ![hand[i].request] = @ \union {hand[i]}]
    /\ hand' = [hand EXCEPT ![i] = None]
    /\ UNCHANGED <<here, fleetVars, questions, draft, answers, stage, outcome, left, tally, heard, sinceVars>>

\* collect, no lock held: the send, or the loss of an answer there is no room for.
\* ask may have come back since, and then nobody reads what is put there.
CollectPuts(i) ==
    /\ hand[i] # None
    /\ LET r == hand[i].request IN
       waiting' = IF Cardinality(waiting[r]) < Backlog
                  THEN [waiting EXCEPT ![r] = @ \union {hand[i]}]
                  ELSE waiting
    /\ hand' = [hand EXCEPT ![i] = None]
    /\ UNCHANGED <<here, fleetVars, questions, draft, answers, stage, outcome, left, tally, heard, sinceVars>>

-----------------------------------------------------------------------------
\* The goroutine of a request.
Asking(r) ==
    \/ Unknown(r)
    \/ AskNobody(r)
    \/ Register(r)
    \/ Ask(r)
    \/ AskRefused(r)
    \/ TakeAnswer(r)
    \/ Deadline(r)

\* The two goroutines of serve.
Answering(i) ==
    \/ \E r \in Requests : OwnQuestion(i, r) \/ AnswerReads(i, r)
    \/ AnswerSends(i)
    \/ AnswerRefused(i)

Collecting(i) == CollectFinds(i) \/ CollectPuts(i)

Next ==
    \/ \E s \in bound.sockets : Arrive(s) \/ Depart(s)
    \/ \E i \in bound.instances : Attend(i) \/ Lose(i) \/ Traffic(i) \/ Answering(i) \/ Collecting(i)
    \/ \E r \in bound.requests : Asking(r)

Spec == Init /\ [][Next]_vars

\* Goroutines are scheduled and a timer fires. Nothing else is owed: subscriptions
\* may stay down, sockets may come and go for ever.
FairSpec ==
    /\ Spec
    /\ \A r \in Requests : WF_vars(Ask(r) \/ AskRefused(r) \/ Deadline(r))
    /\ \A i \in Instances : WF_vars(Answering(i)) /\ WF_vars(Collecting(i))

-----------------------------------------------------------------------------
(* Properties                                                              *)

TypeOK ==
    /\ here \in SUBSET Sockets
    /\ answering \in [Instances -> BOOLEAN]
    /\ hearing \in [Instances -> BOOLEAN]
    /\ degraded \in [Instances -> BOOLEAN]
    /\ bound \in Bounds
    /\ losses \in 0..bound.losses
    /\ refusals \in 0..bound.refusals
    /\ questions \in [Instances -> SUBSET Requests]
    /\ draft \in [Instances -> Draft \union {None}]
    /\ \A i \in Instances : answers[i] \subseteq Answer
    /\ hand \in [Instances -> Answer \union {None}]
    /\ stage \in [Requests -> Stages]
    /\ outcome \in [Requests -> Outcomes]
    /\ \A r \in Requests : waiting[r] \subseteq Answer
    /\ left \in [Requests -> Nat]
    /\ tally \in [Requests -> [connections : Nat, users : SUBSET Users]]
    /\ heard \in [Requests -> SUBSET Instances]
    /\ seen \in [Requests -> SUBSET Sockets]
    /\ steady \in [Requests -> SUBSET Sockets]

\* The sockets of the tenant at the other instances that heard a question.
Elsewhere(r, sockets) ==
    {s \in sockets : Home[s] \in heard[r] \ {Asker[r]} /\ Tenant[s] = About[r]}

\* What the fleet is said to hold was there after the question was asked: no socket
\* counted twice, none of another tenant, none at home, and no answer to an earlier
\* question passed off as an answer to this one.
TallyHonest ==
    \A r \in Requests :
        /\ tally[r].connections <= Cardinality(Elsewhere(r, seen[r]))
        /\ tally[r].users \subseteq UsersOf(Elsewhere(r, seen[r]))

Complete(r) ==
    /\ tally[r].connections >= Cardinality(Elsewhere(r, steady[r]))
    /\ UsersOf(Elsewhere(r, steady[r])) \subseteq tally[r].users

\* A question this instance heard itself and that ended without the deadline has
\* every answer: whoever was connected elsewhere all along is in the reply.
CompleteWhenHeard ==
    \A r \in Requests :
        (outcome[r] \in {"counted", "alone"} /\ Asker[r] \in heard[r]) => Complete(r)

\* "this instance's own answering subscription included, so the number of answers
\* to expect is one less ... When that many have arrived there is nobody left to
\* wait for" (ask): whatever the subscriptions, an early end is a complete one.
CompleteWhenCounted ==
    \A r \in Requests : outcome[r] \in {"counted", "alone"} => Complete(r)

\* "A channel every subscriber of which is on another instance is still a channel
\* this tenant has" (routes.channels): asking about it does not find it unknown.
HeldElsewhereIsKnown ==
    \A r \in Requests : outcome[r] = "unknown" =>
        {s \in steady[r] : Tenant[s] = About[r]} = {}

\* A request that asked the fleet is answered, whoever is gone or silent.
AskEnds == \A r \in Requests : (stage[r] = "asked") ~> (stage[r] = "done")

\* The collecting goroutine is never held up by a question that is over: a send
\* into an entry nobody reads any more does not block it.
CollectorFree == \A i \in Instances : []<>(hand[i] = None)

-----------------------------------------------------------------------------
(* The properties the runs check                                            *)

\* A reply is of what the fleet held about what was asked: nothing in it that was
\* not there, and nothing missing when every instance that heard it answered.
TallyTrue == TypeOK /\ TallyHonest /\ CompleteWhenHeard

\* Every question ends, and a question that is over holds nobody up.
QuestionsEnd == AskEnds /\ CollectorFree

=============================================================================
