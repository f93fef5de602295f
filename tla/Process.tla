------------------------------- MODULE Process -------------------------------
(***************************************************************************)
(* The process of src/cmd/joaju around the server: the limit of sockets    *)
(* per client address, which reads the client out of what trusted proxies  *)
(* forwarded, and the shutdown a signal starts, which gives the requests   *)
(* and then the sockets what is left of one deadline. The server itself is *)
(* Server.tla; here a socket is a request that stays.                      *)
(***************************************************************************)
EXTENDS Integers, Sequences, FiniteSets

CONSTANTS
    Requests,  \* the requests that may arrive
    Clients,   \* the addresses of clients
    Proxies,   \* the addresses of proxies, trusted or not
    Trusted,   \* TRUSTED_PROXIES
    Asks,      \* what may be asked, see AskType
    Limit      \* MAX_CONNECTIONS_PER_ADDRESS, 0 for no limit

Garbage == "garbage"
Nobody == "nobody"
Addresses == Clients \union Proxies

\* A request: a socket or a call of the API, the client it is from, the proxies
\* it came through in their order, what the client wrote in X-Forwarded-For, and
\* whether the peer net/http reports for it is an address.
AskType(q) ==
    /\ q.kind \in {"socket", "api"}
    /\ q.client \in Clients
    /\ q.via \in Seq(Proxies)
    /\ q.forged \in Seq(Addresses \union {Garbage})
    /\ q.addressed \in BOOLEAN

ASSUME ProcessAssumption ==
    /\ IsFiniteSet(Requests)
    /\ Trusted \subseteq Proxies
    /\ Clients \intersect Proxies = {}
    /\ {Garbage, Nobody} \intersect Addresses = {}
    /\ \A q \in Asks : AskType(q)
    /\ Limit \in Nat

VARIABLES
    open,      \* addressLimit.open: sockets per address, for those that hold one
    at,        \* per request: "none", "arrived", "handler", "answered", "socket",
               \* "leaving" or "done"
    asked,     \* per request: what it asks for and the way it came
    counted,   \* per request: the address it is counted against
    phase,     \* run: "serving", "shutdown", "closing" or "exited"
    closed,    \* Server.closed
    expired,   \* the deadline of the shutdown has passed
    failed     \* run returned an error, or a signal killed the process

vars == <<open, at, asked, counted, phase, closed, expired, failed>>

run == <<phase, closed, expired, failed>>

NotAsked ==
    [kind |-> "none", client |-> Nobody, via |-> <<>>, forged |-> <<>>, addressed |-> FALSE]

Init ==
    /\ open = [a \in {} |-> 0]
    /\ at = [r \in Requests |-> "none"]
    /\ asked = [r \in Requests |-> NotAsked]
    /\ counted = [r \in Requests |-> Nobody]
    /\ phase = "serving"
    /\ closed = FALSE
    /\ expired = FALSE
    /\ failed = FALSE

-----------------------------------------------------------------------------
(* The client of a request                                                 *)

\* The peer of the TCP connection, and the header as it arrives: every proxy
\* appended the address it was called from.
Peer(q) == IF q.via = <<>> THEN q.client ELSE q.via[Len(q.via)]

forwardedFor(q) ==
    IF q.via = <<>> THEN q.forged
    ELSE q.forged \o <<q.client>> \o SubSeq(q.via, 1, Len(q.via) - 1)

Last(S) == CHOOSE i \in S : \A j \in S : j <= i

\* Mutant: the header is read from the left.
ClientFromLeft(q) ==
    LET hops == forwardedFor(q) IN
    IF Peer(q) \notin Trusted \/ hops = <<>> \/ hops[1] = Garbage THEN Peer(q) ELSE hops[1]

\* client: the peer, or, when that is a trusted proxy, the first hop from the
\* right that is not one; a hop that is no address ends the reading.
Client(q) ==
    LET hops == forwardedFor(q)
        strange == {i \in DOMAIN hops : hops[i] \notin Trusted}
        nearest(i) == IF i > Len(hops) THEN Peer(q) ELSE hops[i]
    IN IF Peer(q) \notin Trusted THEN Peer(q)
       ELSE IF strange = {} THEN nearest(1)
       ELSE IF hops[Last(strange)] = Garbage THEN nearest(Last(strange) + 1)
       ELSE hops[Last(strange)]

-----------------------------------------------------------------------------
(* The limit                                                               *)

\* net/http hands on a request while the process listens.
Arrives(r, q) ==
    /\ phase = "serving"
    /\ at[r] = "none"
    /\ at' = [at EXCEPT ![r] = "arrived"]
    /\ asked' = [asked EXCEPT ![r] = q]
    /\ UNCHANGED <<open, counted, run>>

\* What ServeHTTP does not count: anything while there is no limit, what is not a
\* socket, and a socket whose peer net/http could not report.
Uncounted(r) == Limit = 0 \/ asked[r].kind # "socket" \/ ~asked[r].addressed

Held(a) == IF a \in DOMAIN open THEN open[a] ELSE 0

Raised(a) == [b \in DOMAIN open \union {a} |-> IF b = a THEN Held(a) + 1 ELSE open[b]]

\* Mutant: the limit is what an address may hold besides this socket.
TakeOneMore(r) ==
    LET a == Client(asked[r]) IN
    /\ at[r] = "arrived"
    /\ ~Uncounted(r)
    /\ IF Held(a) > Limit
       THEN /\ at' = [at EXCEPT ![r] = "done"]
            /\ UNCHANGED <<open, counted>>
       ELSE /\ at' = [at EXCEPT ![r] = "handler"]
            /\ open' = Raised(a)
            /\ counted' = [counted EXCEPT ![r] = a]
    /\ UNCHANGED <<asked, run>>

\* ServeHTTP with take: a socket is counted, unless its address holds the limit.
Take(r) ==
    LET a == Client(asked[r]) IN
    /\ at[r] = "arrived"
    /\ ~Uncounted(r)
    /\ IF Held(a) >= Limit
       THEN /\ at' = [at EXCEPT ![r] = "done"]
            /\ UNCHANGED <<open, counted>>
       ELSE /\ at' = [at EXCEPT ![r] = "handler"]
            /\ open' = Raised(a)
            /\ counted' = [counted EXCEPT ![r] = a]
    /\ UNCHANGED <<asked, run>>

\* ServeHTTP of what is not counted: it is handed on.
Pass(r) ==
    /\ at[r] = "arrived"
    /\ Uncounted(r)
    /\ at' = [at EXCEPT ![r] = "handler"]
    /\ UNCHANGED <<open, asked, counted, run>>

\* The handler upgrades the request: from here on net/http does not know it.
Upgrade(r) ==
    /\ at[r] = "handler"
    /\ asked[r].kind = "socket"
    /\ ~closed
    /\ at' = [at EXCEPT ![r] = "socket"]
    /\ UNCHANGED <<open, asked, counted, run>>

\* The handler returns: the socket ended, the request was answered or refused,
\* or the handler panicked.
Return(r) ==
    /\ at[r] \in {"handler", "socket"}
    /\ at' = [at EXCEPT ![r] = IF @ = "socket" THEN "leaving" ELSE "answered"]
    /\ UNCHANGED <<open, asked, counted, run>>

\* Mutant: only a socket gives its slot back.
ReleaseSockets(r) ==
    LET a == counted[r] IN
    /\ at[r] = "leaving"
    /\ at' = [at EXCEPT ![r] = "done"]
    /\ open' = IF Held(a) <= 1 THEN [b \in DOMAIN open \ {a} |-> open[b]]
               ELSE [open EXCEPT ![a] = @ - 1]
    /\ UNCHANGED <<asked, counted, run>>

\* Mutant: an address keeps its entry, and the entry its last socket.
ReleaseKeeps(r) ==
    /\ at[r] \in {"answered", "leaving"}
    /\ at' = [at EXCEPT ![r] = "done"]
    /\ IF counted[r] = Nobody \/ Held(counted[r]) <= 1
       THEN UNCHANGED open
       ELSE open' = [open EXCEPT ![counted[r]] = @ - 1]
    /\ UNCHANGED <<asked, counted, run>>

\* The deferred release: one socket fewer, and no entry for an address of none.
Release(r) ==
    LET a == counted[r] IN
    /\ at[r] \in {"answered", "leaving"}
    /\ at' = [at EXCEPT ![r] = "done"]
    /\ open' = CASE a = Nobody -> open
                 [] a # Nobody /\ Held(a) <= 1 -> [b \in DOMAIN open \ {a} |-> open[b]]
                 [] OTHER -> [open EXCEPT ![a] = @ - 1]
    /\ UNCHANGED <<asked, counted, run>>

-----------------------------------------------------------------------------
(* The shutdown                                                            *)

conns == <<open, at, asked, counted>>

\* SIGINT or SIGTERM: the listener closes and http.Server.Shutdown begins.
Signal ==
    /\ phase = "serving"
    /\ phase' = "shutdown"
    /\ UNCHANGED <<conns, closed, expired, failed>>

\* A second signal: the first one put the default handling back before the
\* shutdown began, so that this one kills the process.
SecondSignal ==
    /\ phase \in {"shutdown", "closing"}
    /\ phase' = "exited"
    /\ failed' = TRUE
    /\ UNCHANGED <<conns, closed, expired>>

\* The listener stops by itself, with no signal: run returns its error.
ListenerStops ==
    /\ phase = "serving"
    /\ phase' = "exited"
    /\ failed' = TRUE
    /\ UNCHANGED <<conns, closed, expired>>

\* The requests net/http waits for: everything that was not upgraded.
InFlight == {r \in Requests : at[r] \in {"arrived", "handler", "answered"}}

Deadline ==
    /\ phase \in {"shutdown", "closing"}
    /\ ~expired
    /\ expired' = TRUE
    /\ UNCHANGED <<conns, phase, closed, failed>>

\* Mutant: the shutdown does not wait for the requests in flight.
ShutdownReturnsAtOnce ==
    /\ phase = "shutdown"
    /\ phase' = "closing"
    /\ closed' = TRUE
    /\ failed' = FALSE
    /\ UNCHANGED <<conns, expired>>

\* Shutdown returns when nothing is in flight or when the time is up; then
\* Server.Close refuses new sockets and terminates those there are.
ShutdownReturns ==
    /\ phase = "shutdown"
    /\ InFlight = {} \/ expired
    /\ phase' = "closing"
    /\ closed' = TRUE
    /\ failed' = (InFlight # {})
    /\ UNCHANGED <<conns, expired>>

\* The handlers of sockets, which Server.Close waits for.
Workers == {r \in Requests : asked[r].kind = "socket" /\ at[r] \in {"handler", "socket"}}

\* Mutant: nothing ends the wait for the sockets.
ExitOnceGone ==
    /\ phase = "closing"
    /\ Workers = {}
    /\ phase' = "exited"
    /\ UNCHANGED <<conns, closed, expired, failed>>

\* Close returns when the sockets are gone or when the time is up, and so does run.
Exit ==
    /\ phase = "closing"
    /\ Workers = {} \/ expired
    /\ phase' = "exited"
    /\ UNCHANGED <<conns, closed, expired, failed>>

-----------------------------------------------------------------------------
Alive == phase # "exited"

Next ==
    \/ \E r \in Requests, q \in Asks : Arrives(r, q)
    \/ \E r \in Requests : Alive /\ (Take(r) \/ Pass(r) \/ Upgrade(r) \/ Return(r) \/ Release(r))
    \/ Signal
    \/ SecondSignal
    \/ ListenerStops
    \/ Deadline
    \/ ShutdownReturns
    \/ Exit

\* Goroutines run and timers fire; a handler may take for ever, and no signal
\* has to come. A socket that was terminated may still refuse to go.
Fairness ==
    /\ WF_vars(Deadline)
    /\ WF_vars(ShutdownReturns)
    /\ WF_vars(Exit)
    /\ \A r \in Requests : WF_vars(Alive /\ Release(r))

Spec == Init /\ [][Next]_vars /\ Fairness

-----------------------------------------------------------------------------
(* Properties                                                              *)

\* The map holds what is positive and within the limit, and nothing else.
TypeOK ==
    /\ DOMAIN open \subseteq Addresses
    /\ \A a \in DOMAIN open : open[a] \in 1..Limit
    /\ at \in [Requests -> {"none", "arrived", "handler", "answered", "socket", "leaving", "done"}]
    /\ asked \in [Requests -> Asks \union {NotAsked}]
    /\ counted \in [Requests -> Addresses \union {Nobody}]
    /\ phase \in {"serving", "shutdown", "closing", "exited"}
    /\ {closed, expired, failed} \subseteq BOOLEAN

Holding(a) == {r \in Requests : counted[r] = a /\ at[r] \in {"handler", "answered", "socket", "leaving"}}

\* The count of an address is the number of requests that hold one of its
\* slots, whatever their handlers did; an address that holds none is forgotten.
CountExact ==
    /\ \A a \in Addresses : Held(a) = Cardinality(Holding(a))
    /\ DOMAIN open = {a \in Addresses : Holding(a) # {}}

\* The address a request really came from, as far as trusted proxies vouch: the
\* client, or the last proxy on the way that is not trusted.
Vouched(q) ==
    LET strange == {i \in DOMAIN q.via : q.via[i] \notin Trusted} IN
    IF strange = {} THEN q.client ELSE q.via[Last(strange)]

\* The sockets of an address, as far as net/http knows their peers.
SocketsOf(a) ==
    {r \in Requests : at[r] = "socket" /\ asked[r].addressed /\ Vouched(asked[r]) = a}

\* Where there is a limit no address holds more sockets, and none fills another's
\* limit, whatever it writes in X-Forwarded-For.
LimitPerAddress ==
    Limit > 0 =>
    \A a \in Addresses :
       /\ Cardinality(SocketsOf(a)) <= Limit
       /\ \A r \in SocketsOf(a) : counted[r] = a

\* A run that returns without an error has answered every call that arrived
\* before the signal.
AnsweredBeforeExit ==
    phase = "exited" /\ ~failed => \A r \in Requests : at[r] \notin {"arrived", "handler"}

\* A signal ends the process, however long a request or a socket takes.
SignalEnds == (phase = "shutdown") ~> (phase = "exited")

\* A socket that is gone gives its slot back, so that an address at its limit
\* is not there for good.
SlotReturned ==
    \A r \in Requests : (at[r] \in {"answered", "leaving"}) ~> (at[r] = "done" \/ phase = "exited")

-----------------------------------------------------------------------------
(* The properties the runs check                                            *)

\* Every slot is held by one request of the address it is counted against, and no
\* address holds more than the limit or fills another's.
SlotsExact == TypeOK /\ CountExact /\ LimitPerAddress

\* A signal ends the process, what arrived before it was answered unless the
\* deadline cut it off, and a socket that is gone gives its slot back.
ProcessEnds == []AnsweredBeforeExit /\ SignalEnds /\ SlotReturned

=============================================================================
