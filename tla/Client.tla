------------------------------- MODULE Client -------------------------------
(***************************************************************************)
(* The browser client, client/joaju.js: one connection object, the sockets *)
(* it dials one after the other, its three timers, the authorization       *)
(* requests of guarded channels, and the page that calls it.               *)
(*                                                                         *)
(* A task of the browser (a call of the page, a timer, a frame, the end of *)
(* a socket, an answer of the authorization endpoint) runs to its end      *)
(* before the next one, so each is one action; tasks come in any order.    *)
(* The server is what the protocol of the other modules does with a frame. *)
(* Delays are left out, and with them what only changes them: the backoff, *)
(* the attempts and the codes that ask the client to come back at once.    *)
(***************************************************************************)
EXTENDS Naturals, Sequences, SequencesExt, FiniteSets

CONSTANTS
    Names,          \* channels
    Guarded,        \* those that need the application's signature
    MaxSockets,     \* bound: sockets dialled, in any behaviour
    MaxCalls,       \* bound: calls of the page, in any behaviour
    Bounds,         \* the pages looked at, and the bounds of each
    None

\* names: the channels the page uses. sockets, calls, faults: bounds on sockets
\* dialled, calls of the page and what goes wrong between the two ends. aborts: the
\* environment has an AbortController. reentrant: the page may call connect from its
\* listeners of "disconnected" and of "state".
BoundType == [names : SUBSET Names, sockets : 1..MaxSockets, calls : 0..MaxCalls,
              faults : Nat, aborts : BOOLEAN, reentrant : BOOLEAN]

ASSUME ClientAssumption ==
    /\ IsFiniteSet(Names) /\ Guarded \subseteq Names
    /\ MaxCalls \in Nat /\ MaxSockets \in Nat \ {0}
    /\ Bounds \subseteq BoundType
    /\ None \notin Nat \union Names

VARIABLES
    wanted,         \* _wanted
    state,
    sock,           \* _socket
    sid,            \* socketId: the socket it was minted for
    retry,          \* handle: _retryTimer is set. due: timers of _retry that will fire
    activity,       \* _activityTimer is set
    pong,           \* _pongTimer is set
    recent,         \* _refusedCode is set and FATAL_WINDOW has not passed
    held,           \* _channels: per name, which object, 0 for none
    made,           \* objects made per name
    confirmed,      \* channel.subscribed: None, or the socket that confirmed it
    auths,          \* authorization requests in flight
    status,         \* readyState per socket
    silent,         \* history: the network stopped carrying a socket, untold,
                    \* "early", before its first frame was looked at, or "late"
    down,           \* per socket, what the browser will hand over
    conn,           \* per socket, the server's end
    up,             \* per socket, frames on the way to the server
    seats,          \* per socket, the channels the server seats it on
    denied,         \* history: per socket, channels refused or not authorized
    turned,         \* history: sockets the server refused as connections
    calls,
    faults,
    bound           \* the member of Bounds this behaviour keeps to

page == <<wanted, held, made, confirmed>>
timers == <<retry, activity, pong>>
link == <<status, silent, down, conn, up, seats>>
history == <<denied, turned>>
bounds == <<calls, faults, bound>>
vars == <<page, state, sock, sid, timers, recent, auths, link, history, bounds>>

Sockets == 1..MaxSockets
States == {"initialized", "connecting", "connected", "unavailable", "disconnected", "failed"}
Frames == [kind : {"confirm"}, name : Names]
              \union [kind : {"established", "refused", "denied", "pong", "close", "fatal"}, name : {None}]
Requests == [kind : {"subscribe", "unsubscribe"}, name : Names, auth : Sockets \union {None}]
                \union [kind : {"ping"}, name : {None}, auth : {None}]
\* Two requests for one object and one socket are told apart by a number.
Auths == [name : Names, obj : 1..MaxCalls, socket : Sockets, nr : 1..MaxCalls]

Init ==
    /\ wanted = FALSE
    /\ state = "initialized"
    /\ sock = None
    /\ sid = None
    /\ retry = [handle |-> FALSE, due |-> 0]
    /\ activity = FALSE /\ pong = FALSE
    /\ recent = FALSE
    /\ held = [n \in Names |-> 0]
    /\ made = [n \in Names |-> 0]
    /\ confirmed = [n \in Names |-> None]
    /\ auths = {}
    /\ status = [s \in Sockets |-> "none"]
    /\ silent = [s \in Sockets |-> "no"]
    /\ down = [s \in Sockets |-> <<>>]
    /\ conn = [s \in Sockets |-> "none"]
    /\ up = [s \in Sockets |-> <<>>]
    /\ seats = [s \in Sockets |-> {}]
    /\ denied = [s \in Sockets |-> {}]
    /\ turned = {}
    /\ calls = 0
    /\ faults = 0
    /\ bound \in Bounds

Frame(kind, n) == [kind |-> kind, name |-> n]
Request(kind, n, s) == [kind |-> kind, name |-> n, auth |-> s]
Held == {n \in Names : held[n] # 0}

-----------------------------------------------------------------------------
(* What the client's functions share                                       *)

\* new Socket: what _open dials, s, replaces the socket there was. free: the state
\* changes to "connecting", and a listener told so that calls connect finds neither a
\* socket nor a timer. It then dials one first, t.
Fresh == {s \in 1..bound.sockets : status[s] = "none"}
Dial(t, s, free, before) ==
    /\ t \in Fresh /\ \A u \in Fresh : t <= u
    /\ \/ s = t
       \/ /\ bound.reentrant /\ free
          /\ s \in Fresh \ {t} /\ \A u \in Fresh \ {t} : s <= u
    /\ sock' = s
    /\ status' = [before EXCEPT ![t] = "connecting", ![s] = "connecting"]

\* _open.
Open ==
    /\ \E t, s \in Sockets : Dial(t, s, state # "connecting" /\ sock = None, status)
    /\ state' = "connecting"

\* The handle is of the timer set last: _retry sets one more without clearing the one
\* before, _clearRetry stops only that one, and whichever fires forgets the handle.
RetrySet == [handle |-> TRUE, due |-> retry.due + 1]
RetryFired == [handle |-> FALSE, due |-> retry.due - 1]
RetryCleared == IF retry.handle THEN RetryFired ELSE retry

\* _send on the socket of the moment: dropped unless the browser calls it open,
\* lost when the other end is gone.
Sent(s, frames) ==
    IF status[s] = "open" /\ conn[s] = "open" /\ silent[s] = "no" THEN up[s] \o frames ELSE up[s]

\* _cancelAuthorizations, where the environment can abort a request.
Cancelled == IF bound.aborts THEN {} ELSE auths

\* _join of some channels on socket s: a subscription for a public one, a request
\* to the authorization endpoint for a guarded one.
Subscriptions(S) ==
    LET open == SetToSeq(S \ Guarded)
    IN [i \in DOMAIN open |-> Request("subscribe", open[i], None)]

Asking(S, s, objects) ==
    {a \in Auths : /\ a.name \in S \intersect Guarded
                   /\ a.obj = objects[a.name]
                   /\ a.socket = s
                   /\ a \notin auths
                   /\ \A k \in 1..(a.nr - 1) : [a EXCEPT !.nr = k] \in auths}

-----------------------------------------------------------------------------
(* The page                                                                *)

Called ==
    /\ calls < bound.calls
    /\ calls' = calls + 1
    /\ UNCHANGED <<faults, bound>>

\* Mutant: a retry that is due does not count.
ConnectAnyway ==
    /\ Called
    /\ wanted' = TRUE
    /\ IF sock # None
       THEN UNCHANGED <<sock, status, state>>
       ELSE Open
    /\ UNCHANGED <<held, made, confirmed, sid, timers, recent, auths, silent, down, conn, up, seats, history>>

\* connect: nothing but the wish, when a socket is there or on its way.
Connect ==
    /\ Called
    /\ wanted' = TRUE
    /\ IF sock # None \/ retry.handle
       THEN UNCHANGED <<sock, status, state>>
       ELSE Open
    /\ UNCHANGED <<held, made, confirmed, sid, timers, recent, auths, silent, down, conn, up, seats, history>>

\* Mutant: only an established socket is closed.
DisconnectEstablished ==
    /\ Called
    /\ wanted' = FALSE
    /\ retry' = RetryCleared
    /\ auths' = Cancelled
    /\ IF sid = None
       THEN state' = "disconnected" /\ UNCHANGED status
       ELSE status' = [status EXCEPT ![sock] = "closing"] /\ UNCHANGED state
    /\ UNCHANGED <<held, made, confirmed, sock, sid, activity, pong, recent, silent, down, conn, up, seats, history>>

\* disconnect: the end of the socket is seen in its onclose.
Disconnect ==
    /\ Called
    /\ wanted' = FALSE
    /\ retry' = RetryCleared
    /\ auths' = Cancelled
    /\ IF sock = None
       THEN state' = "disconnected" /\ UNCHANGED status
       ELSE status' = [status EXCEPT ![sock] = "closing"] /\ UNCHANGED state
    /\ UNCHANGED <<held, made, confirmed, sock, sid, activity, pong, recent, silent, down, conn, up, seats, history>>

\* subscribe: the object there is, or a new one; joined if there is a socket id.
Subscribe(n) ==
    /\ Called
    /\ LET obj == IF held[n] = 0 THEN made[n] + 1 ELSE held[n] IN
       /\ held' = [held EXCEPT ![n] = obj]
       /\ made' = [made EXCEPT ![n] = IF held[n] = 0 THEN obj ELSE @]
       /\ IF sid = None
          THEN UNCHANGED <<auths, up>>
          ELSE /\ auths' = auths \union Asking({n}, sid, held')
               /\ up' = [up EXCEPT ![sock] = Sent(sock, Subscriptions({n}))]
    /\ UNCHANGED <<wanted, confirmed, state, sock, sid, timers, recent, status, silent, down, conn, seats, history>>

\* unsubscribe: the object is forgotten, and the server told.
Unsubscribe(n) ==
    /\ Called
    /\ held[n] # 0
    /\ held' = [held EXCEPT ![n] = 0]
    /\ confirmed' = [confirmed EXCEPT ![n] = None]
    /\ up' = IF sid = None THEN up
             ELSE [up EXCEPT ![sock] = Sent(sock, <<Request("unsubscribe", n, None)>>)]
    /\ UNCHANGED <<wanted, made, state, sock, sid, timers, recent, auths, status, silent, down, conn, seats, history>>

-----------------------------------------------------------------------------
(* The socket's events                                                     *)

\* Mutant: frames are looked at whichever socket they come from.
HeardAny(s) == status[s] = "open"

\* onmessage: frames of a socket that was replaced are not looked at, and the
\* browser hands none over once the socket is closing.
Heard(s) == sock = s /\ status[s] = "open"

\* _touch.
Touch == activity' = TRUE /\ pong' = FALSE

\* _established: every channel is joined again on the new socket.
Established(s) ==
    /\ sid' = s
    /\ recent' = FALSE
    /\ state' = "connected"
    /\ confirmed' = [n \in Names |-> None]
    /\ auths' = auths \union Asking(Held, s, held)
    /\ up' = [up EXCEPT ![s] = Sent(s, Subscriptions(Held))]

\* _receive, up to the channel's own events.
Receive(s) ==
    /\ down[s] # <<>>
    /\ Head(down[s]).kind \notin {"close", "fatal"}
    /\ down' = [down EXCEPT ![s] = Tail(@)]
    /\ IF ~Heard(s)
       THEN UNCHANGED <<state, sid, activity, pong, recent, confirmed, auths, up>>
       ELSE LET f == Head(down[s]) IN
            /\ Touch
            /\ CASE f.kind = "established" -> Established(s)
                 [] f.kind \in {"refused", "denied"} ->
                        recent' = TRUE /\ UNCHANGED <<state, sid, confirmed, auths, up>>
                 [] f.kind = "confirm" ->
                        /\ confirmed' = IF held[f.name] = 0 THEN confirmed
                                        ELSE [confirmed EXCEPT ![f.name] = s]
                        /\ UNCHANGED <<state, sid, recent, auths, up>>
                 [] f.kind = "pong" -> UNCHANGED <<state, sid, recent, confirmed, auths, up>>
    /\ UNCHANGED <<wanted, held, made, sock, retry, status, silent, conn, seats, history, bounds>>

\* _fatal: the close says not to come back, or a refusal did a moment ago.
Fatal(kind) == kind = "fatal" \/ recent

\* Mutant: the channels keep what the lost socket told them.
ForgetNothing == confirmed' = confirmed

\* What _closed does to the channels: _reset.
Forget == confirmed' = [n \in Names |-> None]

\* Mutant: a state of another client's vocabulary.
RetryReconnecting ==
    /\ retry' = RetrySet
    /\ state' = "reconnecting"

\* Mutant: the state says so and no timer is started.
RetryStateOnly ==
    /\ UNCHANGED retry
    /\ state' = "unavailable"

\* _retry.
Retry ==
    /\ retry' = RetrySet
    /\ state' = "unavailable"

\* What _closed comes to after its listeners.
GivesUpOrRetries(kind) == IF Fatal(kind) THEN state' = "failed" /\ UNCHANGED retry ELSE Retry

\* No listener called connect.
ComesBackOrNot(s, kind) ==
    /\ sock' = None
    /\ status' = [status EXCEPT ![s] = "closed"]
    /\ IF Fatal(kind) \/ wanted THEN GivesUpOrRetries(kind)
       ELSE state' = "disconnected" /\ UNCHANGED retry
    /\ UNCHANGED wanted

\* A listener of "disconnected" called connect, which opens a socket unless a timer is
\* set, and _closed goes on to what it was about to do.
ConnectedMeanwhile(s, kind) ==
    /\ bound.reentrant
    /\ wanted' = TRUE
    /\ LET before == [status EXCEPT ![s] = "closed"] IN
       IF retry.handle THEN sock' = None /\ status' = before
       ELSE \E t, u \in Sockets : Dial(t, u, TRUE, before)
    /\ GivesUpOrRetries(kind)

\* A listener of "unavailable" called connect, which found no socket and no timer:
\* it opened a socket, and _retry goes on and sets the timer.
ConnectedAtRetry(s, kind) ==
    /\ bound.reentrant
    /\ ~Fatal(kind) /\ wanted /\ ~retry.handle
    /\ \E t, u \in Sockets : Dial(t, u, TRUE, [status EXCEPT ![s] = "closed"])
    /\ state' = "connecting"
    /\ retry' = RetrySet
    /\ UNCHANGED wanted

\* onclose and _closed.
Closed(s) ==
    /\ down[s] # <<>>
    /\ Head(down[s]).kind \in {"close", "fatal"}
    /\ down' = [down EXCEPT ![s] = Tail(@)]
    /\ IF sock # s
       THEN /\ status' = [status EXCEPT ![s] = "closed"]
            /\ UNCHANGED <<wanted, confirmed, state, sock, sid, timers, auths>>
       ELSE /\ sid' = None
            /\ activity' = FALSE /\ pong' = FALSE
            /\ auths' = Cancelled
            /\ Forget
            /\ LET kind == Head(down[s]).kind IN
               ComesBackOrNot(s, kind) \/ ConnectedMeanwhile(s, kind) \/ ConnectedAtRetry(s, kind)
    /\ UNCHANGED <<held, made, recent, silent, conn, up, seats, history, bounds>>

-----------------------------------------------------------------------------
(* Timers and authorization answers                                        *)

\* A timer of _retry. It opens a socket, whatever there is by now.
RetryFires ==
    /\ retry.due > 0
    /\ retry' = RetryFired
    /\ IF wanted THEN Open ELSE UNCHANGED <<sock, status, state>>
    /\ UNCHANGED <<page, sid, activity, pong, recent, auths, silent, down, conn, up, seats, history, bounds>>

\* The timer of _touch, and _ping.
ActivityFires ==
    /\ activity
    /\ activity' = FALSE
    /\ IF sock # None /\ status[sock] = "open"
       THEN /\ pong' = TRUE
            /\ up' = [up EXCEPT ![sock] = Sent(sock, <<Request("ping", None, None)>>)]
       ELSE UNCHANGED <<pong, up>>
    /\ UNCHANGED <<page, state, sock, sid, retry, recent, auths, status, silent, down, conn, seats, history, bounds>>

\* Mutant: a missing pong is noted and nothing else.
PongFiresOnly ==
    /\ pong
    /\ pong' = FALSE
    /\ UNCHANGED <<page, state, sock, sid, retry, activity, recent, auths, link, history, bounds>>

\* The timer of _ping: the socket is closed. It fires on a socket that is gone,
\* and on one whose pong is late.
PongFires ==
    /\ pong
    /\ pong' = FALSE
    /\ IF sock # None /\ conn[sock] = "open" THEN faults < bound.faults /\ faults' = faults + 1
       ELSE UNCHANGED faults
    /\ status' = IF sock = None THEN status ELSE [status EXCEPT ![sock] = "closing"]
    /\ UNCHANGED <<page, state, sock, sid, retry, activity, recent, auths, silent, down, conn, up, seats, history, calls, bound>>

\* FATAL_WINDOW passes.
WindowPasses ==
    /\ recent
    /\ recent' = FALSE
    /\ UNCHANGED <<page, state, sock, sid, timers, auths, link, history, bounds>>

\* Mutant: an answer is used for whatever socket there is now.
CurrentAny(a) == sid # None /\ held[a.name] = a.obj

\* Mutant: an answer is used whether or not the page still wants the channel.
CurrentSocket(a) == sid = a.socket

\* What a late answer is held against: the socket it is for, and the object.
Current(a) == sid = a.socket /\ held[a.name] = a.obj

\* The endpoint answers with a signature for the socket that was named to it.
AuthAnswers(a) ==
    /\ a \in auths
    /\ auths' = auths \ {a}
    /\ up' = IF Current(a)
             THEN [up EXCEPT ![sock] = Sent(sock, <<Request("subscribe", a.name, a.socket)>>)]
             ELSE up
    /\ UNCHANGED <<page, state, sock, sid, timers, recent, status, silent, down, conn, seats, history, bounds>>

\* The endpoint refuses, or authTimeout passes: the page is told, and that is all.
AuthFails(a) ==
    /\ a \in auths
    /\ auths' = auths \ {a}
    /\ denied' = [denied EXCEPT ![a.socket] = @ \union {a.name}]
    /\ UNCHANGED <<page, state, sock, sid, timers, recent, link, turned, bounds>>

-----------------------------------------------------------------------------
(* The server, and the network                                             *)

\* The server takes the socket: its first frame carries the socket id.
Accept(s) ==
    /\ status[s] = "connecting"
    /\ conn[s] = "none"
    /\ status' = [status EXCEPT ![s] = "open"]
    /\ conn' = [conn EXCEPT ![s] = "open"]
    /\ down' = [down EXCEPT ![s] = <<Frame("established", None)>>]
    /\ UNCHANGED <<page, state, sock, sid, timers, recent, auths, silent, up, seats, history, bounds>>

Fault ==
    /\ faults < bound.faults
    /\ faults' = faults + 1
    /\ UNCHANGED <<calls, bound>>

\* The connection limit: an error and the end of the socket in one breath.
Refuse(s) ==
    /\ Fault
    /\ status[s] = "connecting"
    /\ conn[s] = "none"
    /\ status' = [status EXCEPT ![s] = "open"]
    /\ conn' = [conn EXCEPT ![s] = "gone"]
    /\ down' = [down EXCEPT ![s] = <<Frame("refused", None), Frame("close", None)>>]
    /\ turned' = turned \union {s}
    /\ UNCHANGED <<page, state, sock, sid, timers, recent, auths, silent, up, seats, denied>>

\* What Message does with the next frame. A subscription to a guarded channel
\* needs a signature for this socket, and the policy may say no to any.
Serve(s) ==
    /\ conn[s] = "open"
    /\ up[s] # <<>>
    /\ up' = [up EXCEPT ![s] = Tail(@)]
    /\ LET f == Head(up[s]) IN
       \/ /\ f.kind = "subscribe"
          /\ f.name \in Guarded => f.auth = s
          /\ seats' = [seats EXCEPT ![s] = @ \union {f.name}]
          /\ down' = [down EXCEPT ![s] = Append(@, Frame("confirm", f.name))]
          /\ UNCHANGED denied
       \/ /\ f.kind = "subscribe"
          /\ denied' = [denied EXCEPT ![s] = @ \union {f.name}]
          /\ down' = [down EXCEPT ![s] = Append(@, Frame("denied", None))]
          /\ UNCHANGED seats
       \/ /\ f.kind = "unsubscribe"
          /\ seats' = [seats EXCEPT ![s] = @ \ {f.name}]
          /\ UNCHANGED <<down, denied>>
       \/ /\ f.kind = "ping"
          /\ down' = [down EXCEPT ![s] = Append(@, Frame("pong", None))]
          /\ UNCHANGED <<seats, denied>>
    /\ UNCHANGED <<page, state, sock, sid, timers, recent, auths, status, silent, conn, turned, bounds>>

\* The server's end of a socket is gone, with its seats and what was on the way.
Gone(s) ==
    /\ conn' = [conn EXCEPT ![s] = "gone"]
    /\ up' = [up EXCEPT ![s] = <<>>]
    /\ seats' = [seats EXCEPT ![s] = {}]

\* The server ends the socket; a server of the same protocol may give the reason
\* in the close code.
ServerCloses(s) ==
    /\ Fault
    /\ conn[s] = "open"
    /\ \E kind \in {"close", "fatal"} :
        /\ down' = [down EXCEPT ![s] = Append(@, Frame(kind, None))]
        /\ turned' = IF kind = "fatal" THEN turned \union {s} ELSE turned
    /\ Gone(s)
    /\ UNCHANGED <<page, state, sock, sid, timers, recent, auths, status, silent, denied>>

\* The connection breaks, or could not be made: frames on the way may be lost.
Drop(s) ==
    /\ Fault
    /\ status[s] \in {"connecting", "open"}
    /\ conn[s] # "gone"
    /\ \E k \in 0..Len(down[s]) :
        down' = [down EXCEPT ![s] = Append(SubSeq(@, 1, k), Frame("close", None))]
    /\ Gone(s)
    /\ UNCHANGED <<page, state, sock, sid, timers, recent, auths, status, silent, history>>

\* The connection carries nothing any more and neither end is told.
Silence(s) ==
    /\ Fault
    /\ status[s] = "open"
    /\ conn[s] = "open"
    /\ silent' = [silent EXCEPT ![s] = IF sid = s THEN "late" ELSE "early"]
    /\ down' = [down EXCEPT ![s] = <<>>]
    /\ Gone(s)
    /\ UNCHANGED <<page, state, sock, sid, timers, recent, auths, status, history>>

\* The browser is done closing a socket, answered or not.
CloseCompletes(s) ==
    /\ status[s] = "closing"
    /\ \A i \in DOMAIN down[s] : down[s][i].kind \notin {"close", "fatal"}
    /\ down' = [down EXCEPT ![s] = Append(@, Frame("close", None))]
    /\ Gone(s)
    /\ UNCHANGED <<page, state, sock, sid, timers, recent, auths, status, silent, history, bounds>>

-----------------------------------------------------------------------------
Next ==
    \/ Connect \/ Disconnect
    \/ \E n \in bound.names : Subscribe(n) \/ Unsubscribe(n)
    \/ RetryFires \/ ActivityFires \/ PongFires \/ WindowPasses
    \/ \E a \in auths : AuthAnswers(a) \/ AuthFails(a)
    \/ \E s \in Sockets :
        \/ Receive(s) \/ Closed(s) \/ Accept(s) \/ Refuse(s) \/ Serve(s)
        \/ ServerCloses(s) \/ Drop(s) \/ Silence(s) \/ CloseCompletes(s)

Spec == Init /\ [][Next]_vars

\* The browser runs what is due, a server that is there takes sockets and answers
\* frames, and the endpoint answers or times out. The page need not call again,
\* and nothing has to go wrong.
FairSpec ==
    /\ Spec
    /\ WF_vars(RetryFires) /\ WF_vars(ActivityFires) /\ WF_vars(PongFires)
    /\ WF_vars(\E a \in auths : AuthAnswers(a) \/ AuthFails(a))
    /\ \A s \in Sockets :
        /\ WF_vars(Receive(s) \/ Closed(s))
        /\ WF_vars(Accept(s))
        /\ WF_vars(Serve(s))
        /\ WF_vars(CloseCompletes(s))

-----------------------------------------------------------------------------
(* Properties                                                              *)

TypeOK ==
    /\ {wanted, activity, pong, recent} \subseteq BOOLEAN
    /\ retry \in [handle : BOOLEAN, due : Nat]
    /\ retry.handle => retry.due > 0
    /\ state \in States
    /\ sock \in Sockets \union {None}
    /\ sid \in Sockets \union {None}
    /\ held \in [Names -> 0..MaxCalls]
    /\ made \in [Names -> 0..MaxCalls]
    /\ confirmed \in [Names -> Sockets \union {None}]
    /\ auths \subseteq Auths
    /\ status \in [Sockets -> {"none", "connecting", "open", "closing", "closed"}]
    /\ silent \in [Sockets -> {"no", "early", "late"}]
    /\ down \in [Sockets -> Seq(Frames)]
    /\ up \in [Sockets -> Seq(Requests)]
    /\ conn \in [Sockets -> {"none", "open", "gone"}]
    /\ seats \in [Sockets -> SUBSET Names]
    /\ denied \in [Sockets -> SUBSET Names]
    /\ turned \subseteq Sockets
    /\ bound \in Bounds
    /\ calls \in 0..bound.calls
    /\ faults \in 0..bound.faults

\* "Joaju is one connection to one server": no socket the client dialled is open
\* behind the one it uses, and no retry is due while it uses one.
Alone ==
    /\ \A s \in Sockets \ {sock} : status[s] \in {"none", "closed"}
    /\ retry.due > 0 => sock = None

\* Whatever the page calls and whichever timer fires, the client has one socket;
\* except where a listener calls connect, and there it may have several.
OneSocket == ~bound.reentrant => Alone

\* A channel the page sees as subscribed was confirmed over the socket it has
\* now: nothing a lost socket said outlives it.
NothingOutlives ==
    \A n \in Names : confirmed[n] # None => (confirmed[n] = sid /\ held[n] # 0)

\* A signature covers a socket id. A subscription never carries one that was asked
\* for another socket, however late the endpoint answers.
SignedForItsSocket ==
    ~bound.reentrant =>
        \A s \in Sockets : \A i \in DOMAIN up[s] :
            up[s][i].kind = "subscribe" => up[s][i].auth \in {s, None}

\* Nothing is on its way in either direction.
AtRest ==
    /\ sid # None /\ sock = sid
    /\ status[sid] = "open" /\ conn[sid] = "open"
    /\ up[sid] = <<>> /\ down[sid] = <<>>
    /\ \A a \in auths : a.socket # sid

\* Once nothing is on its way, the page and the server agree: the server seats
\* this socket on channels the page holds and on no other, one that is missing was
\* refused or not authorized, and the page knows of every seat. Subscribing,
\* leaving and coming back while answers are in flight does not change that.
PageAgrees ==
    AtRest =>
        /\ seats[sid] \subseteq Held
        /\ Held \ seats[sid] \subseteq denied[sid]
        /\ \A n \in seats[sid] : confirmed[n] = sid

Working == state = "connected" /\ sock # None /\ conn[sock] = "open"

\* A page that wants a connection gets it back after every fault, unless it
\* changes its mind, the client was told not to come back, or its socket went
\* silent before the first frame, when no timer runs that would notice.
ComesBack ==
    (wanted /\ ~bound.reentrant)
        ~> (Working \/ ~wanted \/ state = "failed" \/ \E s \in Sockets : silent[s] = "early")

Silenced(when) == \E s \in Sockets : silent[s] = when /\ status[s] # "closed"

\* A socket that worked and that the network silently stopped carrying is given up.
SilenceNoticed == (Silenced("late") /\ ~bound.reentrant) ~> ~Silenced("late")

\* "A client that only reconnected on close would sit there forever": a socket
\* that went silent before its first frame is given up too.
EarlySilenceNoticed == (Silenced("early") /\ ~bound.reentrant) ~> ~Silenced("early")

\* After disconnect no socket stays open, unless the page connects again.
DisconnectEnds ==
    (~wanted /\ ~bound.reentrant)
        ~> (wanted \/ \A s \in Sockets : status[s] \in {"none", "closed"})

\* "A refusal the connection did not survive is a refusal about the connection":
\* a client gives up for good only when the server refused the connection.
FailedMeansRefused == state = "failed" => turned # {}

\* "until it says yes nothing is subscribed to anything": a channel the page sees
\* as subscribed, with nothing on its way, is one the server seats it on.
SubscribedMeansSeated ==
    AtRest => \A n \in Names : confirmed[n] # None => n \in seats[sid]

-----------------------------------------------------------------------------
(* The properties the runs check                                            *)

\* The client is one connection: one socket, whose words do not outlive it and
\* which is the one its signatures are for.
OneConnection == TypeOK /\ OneSocket /\ NothingOutlives /\ SignedForItsSocket

\* A connection that is wanted comes back, one that carries nothing is given up
\* and one that is not wanted ends.
ConnectionsSettle == ComesBack /\ SilenceNoticed /\ DisconnectEnds

=============================================================================
