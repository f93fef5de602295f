----------------------------- MODULE Handshake -----------------------------
(***************************************************************************)
(* The opening handshake: Dialer.Dial of ws/client.go on one end,          *)
(* Upgrader.Upgrade of ws/server.go on the other, the checks of            *)
(* ws/handshake.go, and what may stand between them.                       *)
(*                                                                         *)
(* Bytes arrive in segments, and a read of a buffered reader takes as many *)
(* of them as have arrived: a frame that follows the 101 may come with it. *)
(* A segment is a request, a response, one part of a body or a frame.      *)
(* Buffer sizes, TLS and the text of headers are left out; a header is what *)
(* the checks tell apart.                                                  *)
(***************************************************************************)
EXTENDS Naturals, Sequences

CONSTANTS
    Timeout,        \* HandshakeTimeout of both ends, 0 for none
    Schemes,        \* schemes the caller dials
    Origins,        \* Origin the caller sets: "none", "same" or "other"
    Detours,        \* what a proxy, or another client, makes of a request
    Canned,         \* what it may answer instead of the server
    OwnReaders,     \* whether the Upgrader has a ReadBufferSize of its own
    MaxTime,        \* bound: the clock
    MaxFrames,      \* bound: frames each end writes
    MaxLosses,      \* bound: connections lost
    None

HandshakeAssumption ==
    /\ {Timeout, MaxTime, MaxFrames, MaxLosses} \subseteq Nat
    /\ Origins \subseteq {"none", "same", "other"}
    /\ Detours \subseteq {"list", "strip", "method", "upgrade", "version", "key", "early", "http2"}
    /\ Canned \subseteq {"stale", "plain", "extension", "page"}
    /\ OwnReaders \subseteq BOOLEAN
    /\ None \notin Nat

VARIABLES
    now,
    cl,             \* where Dial is
    cnet,           \* the dialer's net.Conn
    cdl,            \* its deadline
    cbuf,           \* its buffered reader
    asked,          \* what the dialer wrote: its origin
    response,       \* the response handed to the caller
    up,             \* segments on the way to the server
    down,           \* segments on the way to the dialer
    sv,             \* where Upgrade is
    snet,           \* the server's net.Conn, "http" while net/http owns it
    sdl,            \* its write deadline
    sbuf,           \* its buffered reader
    key,            \* the Sec-WebSocket-Key being answered
    cwrote, swrote, \* what each end wrote after its part of the handshake
    cread, sread,   \* frames read by each Conn
    said,           \* history: the server answered the request it took
    losses

client == <<cl, cnet, cdl, cbuf, asked, response>>
server == <<sv, snet, sdl, sbuf, key, said>>
talk == <<cwrote, swrote, cread, sread>>
vars == <<now, client, up, down, server, talk, losses>>

Response == [status : {101, 200, 400, 403, 405, 426, 500}, upgrade : BOOLEAN,
             accept : {"own", "stale", "none"}, extension : BOOLEAN]
Segment(kind, what) == [kind |-> kind, what |-> what]
Early == 0      \* bytes sent before the 101
What(segments) == [i \in DOMAIN segments |-> segments[i].what]

Init ==
    /\ now = 0
    /\ cl = "idle" /\ cnet = "none" /\ cdl = None /\ cbuf = <<>> /\ asked = None /\ response = None
    /\ up = <<>> /\ down = <<>>
    /\ sv = "idle" /\ snet = "http" /\ sdl = None /\ sbuf = <<>> /\ key = None /\ said = FALSE
    /\ cwrote = <<>> /\ swrote = <<>> /\ cread = <<>> /\ sread = <<>>
    /\ losses = 0

InTime(deadline) == deadline # None => now < deadline
Deadline == IF Timeout = 0 THEN None ELSE now + Timeout

-----------------------------------------------------------------------------
(* The dialer                                                              *)

\* Mutant: the connection is left open on the way out.
DialFailsOpen(r) ==
    /\ cl' = "failed"
    /\ response' = r
    /\ UNCHANGED <<cnet, cdl>>

\* A dial that fails leaves nothing open, and hands over the response if any.
DialFails(r) ==
    /\ cl' = "failed"
    /\ response' = r
    /\ cnet' = IF cnet = "up" THEN "closed" ELSE cnet
    /\ UNCHANGED cdl

\* Dial up to connect: the scheme, and a connection within HandshakeTimeout.
Dial(scheme) ==
    /\ cl = "idle"
    /\ IF scheme \in {"ws", "wss"}
       THEN cl' = "connecting" /\ cdl' = Deadline /\ UNCHANGED <<cnet, response>>
       ELSE DialFails(None)
    /\ UNCHANGED <<now, cbuf, asked, up, down, server, talk, losses>>

ConnectFails ==
    /\ cl = "connecting"
    /\ DialFails(None)
    /\ UNCHANGED <<now, cbuf, asked, up, down, server, talk, losses>>

\* Mutant: the deadline ends with the connecting.
ConnectUntimed ==
    /\ cl = "connecting"
    /\ InTime(cdl)
    /\ cl' = "requesting"
    /\ cnet' = "up"
    /\ cdl' = None
    /\ UNCHANGED <<now, cbuf, asked, response, up, down, server, talk, losses>>

\* connect answers, and the deadline of the request and the response is set.
Connect ==
    /\ cl = "connecting"
    /\ InTime(cdl)
    /\ cl' = "requesting"
    /\ cnet' = "up"
    /\ cdl' = Deadline
    /\ UNCHANGED <<now, cbuf, asked, response, up, down, server, talk, losses>>

\* What Dial writes: the protocol's own headers, whatever the caller gave for
\* them, and the caller's others. The key "none" is one that is missing or is
\* not sixteen bytes.
Asked(origin) ==
    [method |-> "GET", connection |-> <<<<"upgrade">>>>, upgrade |-> "websocket", version |-> 13,
     origin |-> origin, key |-> "own", http2 |-> FALSE]

\* What a proxy makes of it.
Detoured(r, detour) ==
    CASE detour = "list" -> [r EXCEPT !.connection = <<<<"keep-alive", "upgrade">>>>]
      [] detour = "strip" -> [r EXCEPT !.connection = <<<<"close">>>>]
      [] detour = "method" -> [r EXCEPT !.method = "POST"]
      [] detour = "upgrade" -> [r EXCEPT !.upgrade = "h2c"]
      [] detour = "version" -> [r EXCEPT !.version = 8]
      [] detour = "key" -> [r EXCEPT !.key = "none"]
      [] detour = "http2" -> [r EXCEPT !.http2 = TRUE]
      [] OTHER -> r

WriteRequest(origin) ==
    /\ cl = "requesting"
    /\ InTime(cdl)
    /\ cl' = "waiting"
    /\ asked' = origin
    /\ \E detour \in Detours \union {"none"} :
        /\ cwrote' = IF detour = "early" THEN <<Early>> ELSE <<>>
        /\ up' = <<Segment("request", Detoured(Asked(origin), detour))>>
                 \o [i \in DOMAIN cwrote' |-> Segment("frame", Early)]
    /\ UNCHANGED <<now, cnet, cdl, cbuf, response, down, server, swrote, cread, sread, losses>>

\* Mutant: any 101 will do.
VerifyAcceptAny(r) == r.upgrade

\* verifyAccept: the headers, the answer to our own key, and no extension.
VerifyAccept(r) == r.upgrade /\ r.accept = "own" /\ ~r.extension

\* The deadline is lifted, and the Conn goes on with the reader of the response.
Dialed(rest) ==
    /\ cl' = "open"
    /\ cdl' = None
    /\ cbuf' = rest
    /\ UNCHANGED cnet

\* ReadResponse takes what has arrived, and Dial decides. A deadline that cannot be
\* lifted ends the dial, with the response all the same.
ReadResponse ==
    /\ cl = "waiting"
    /\ InTime(cdl)
    /\ down # <<>>
    /\ \E k \in 1..Len(down) :
        LET r == Head(down).what
            rest == SubSeq(down, 2, k)
        IN /\ down' = SubSeq(down, k + 1, Len(down))
           /\ IF r.status = 101 /\ VerifyAccept(r)
              THEN \/ Dialed(rest) /\ response' = r
                   \/ Timeout > 0 /\ DialFails(r) /\ cbuf' = rest
              ELSE DialFails(r) /\ cbuf' = rest
    /\ UNCHANGED <<now, asked, up, server, talk, losses>>

\* The deadline could not be set, the request not be written or the response not
\* be read: the deadline, or the connection.
HandshakeFails ==
    /\ cl \in {"requesting", "waiting"}
    /\ \/ ~InTime(cdl) \/ (cnet = "lost" /\ down = <<>>)
       \/ cl = "requesting" /\ Timeout > 0
    /\ DialFails(None)
    /\ UNCHANGED <<now, cbuf, asked, up, down, server, talk, losses>>

-----------------------------------------------------------------------------
(* The upgrader                                                            *)

\* headerContainsToken: Connection is a list, over several lines perhaps.
ContainsToken(values, token) == \E i \in DOMAIN values : \E j \in DOMAIN values[i] : values[i][j] = token

SameOrigin(r) == r.origin \in {"none", "same"}

\* The checks, in their order; 101 goes on.
Checked(r) ==
    IF r.method # "GET" THEN 405
    ELSE IF ~ContainsToken(r.connection, "upgrade") THEN 400
    ELSE IF r.upgrade # "websocket" THEN 400
    ELSE IF r.version # 13 THEN 426
    ELSE IF ~SameOrigin(r) THEN 403
    ELSE IF r.key = "none" THEN 400
    ELSE IF r.http2 THEN 500
    ELSE 101

Refusal(status) == [status |-> status, upgrade |-> FALSE, accept |-> "none", extension |-> FALSE]
Accepted == [status |-> 101, upgrade |-> TRUE, accept |-> key, extension |-> FALSE]

\* The request arrives; it is refused with a status and a sentence, or the
\* connection is hijacked with what its reader holds.
Upgrade ==
    /\ sv = "idle"
    /\ up # <<>> /\ Head(up).kind = "request"
    /\ LET r == Head(up).what IN
       IF Checked(r) # 101
       THEN /\ sv' = "refused"
            /\ said' = TRUE
            /\ down' = down \o <<Segment("response", Refusal(Checked(r))), Segment("body", None)>>
            /\ up' = Tail(up)
            /\ UNCHANGED <<snet, sbuf, key>>
       ELSE /\ sv' = "hijacked"
            /\ snet' = "up"
            /\ key' = r.key
            /\ \E k \in 1..Len(up) : /\ sbuf' = SubSeq(up, 2, k)
                                     /\ up' = SubSeq(up, k + 1, Len(up))
            /\ UNCHANGED <<down, said>>
    /\ UNCHANGED <<now, client, sdl, talk, losses>>

\* Mutant: what came too early is the first thing to be read.
PrematureNever == FALSE

\* brw.Reader.Buffered() > 0.
Premature == sbuf # <<>>

UpgradeFails ==
    /\ sv' = "failed"
    /\ snet' = "closed"
    /\ UNCHANGED sdl

\* After the hijack: bytes before the 101 end it, with no answer; otherwise the
\* write deadline, which may not be taken either.
TakeOver ==
    /\ sv = "hijacked"
    /\ \/ Premature /\ UpgradeFails
       \/ ~Premature /\ sv' = "answering" /\ sdl' = Deadline /\ UNCHANGED snet
       \/ ~Premature /\ Timeout > 0 /\ UpgradeFails
    /\ UNCHANGED <<now, client, up, down, sbuf, key, said, talk, losses>>

\* Mutant: the deadline of the 101 is left for the frames.
LiftNothing == sv' = "open" /\ UNCHANGED <<snet, sdl>>

\* The handshake's write deadline is lifted; where that fails the connection is
\* closed, with the 101 on its way.
Lift ==
    \/ sv' = "open" /\ sdl' = None /\ UNCHANGED snet
    \/ Timeout > 0 /\ sv' = "cut" /\ snet' = "closed" /\ UNCHANGED sdl

\* writeAccept, the deadline lifted, and the reader the Conn gets.
WriteAccept ==
    /\ sv = "answering"
    /\ InTime(sdl)
    /\ down' = IF cnet = "up" THEN Append(down, Segment("response", Accepted)) ELSE down
    /\ Lift
    /\ said' = TRUE
    /\ \E own \in OwnReaders : sbuf' = IF own THEN <<>> ELSE sbuf
    /\ UNCHANGED <<now, client, up, key, talk, losses>>

WriteAcceptFails ==
    /\ sv = "answering"
    /\ ~InTime(sdl) \/ cnet # "up"
    /\ UpgradeFails
    /\ UNCHANGED <<now, client, up, down, sbuf, key, said, talk, losses>>

-----------------------------------------------------------------------------
(* What stands between, time, and the conversation that follows            *)

\* A proxy or a cache answers in the server's place.
Intercept(what) ==
    /\ sv = "idle"
    /\ up # <<>> /\ Head(up).kind = "request"
    /\ sv' = "bypassed"
    /\ up' = <<>>
    /\ down' = CASE what = "page" -> <<Segment("response", Refusal(200)), Segment("body", None)>>
                 [] what = "plain" -> <<Segment("response", Refusal(101))>>
                 [] what = "stale" -> <<Segment("response",
                        [status |-> 101, upgrade |-> TRUE, accept |-> "stale", extension |-> FALSE])>>
                 [] what = "extension" -> <<Segment("response",
                        [status |-> 101, upgrade |-> TRUE, accept |-> "own", extension |-> TRUE])>>
    /\ UNCHANGED <<now, client, snet, sdl, sbuf, key, said, talk, losses>>

\* The connection breaks. What has not arrived is lost.
Lose ==
    /\ losses < MaxLosses
    /\ cnet = "up"
    /\ losses' = losses + 1
    /\ cnet' = "lost"
    /\ up' = <<>>
    /\ \E k \in 0..Len(down) : down' = SubSeq(down, 1, k)
    /\ UNCHANGED <<now, cl, cdl, cbuf, asked, response, server, talk>>

\* A timer of the dialer that is due fires before time goes on.
Tick ==
    /\ now < MaxTime
    /\ cl # "idle"
    /\ cl \in {"connecting", "requesting", "waiting"} => InTime(cdl)
    /\ now' = now + 1
    /\ UNCHANGED <<client, up, down, server, talk, losses>>

\* A Conn writes a frame. Past a deadline the write fails, and the Conn with it.
ClientWrites ==
    /\ cl = "open" /\ cnet = "up"
    /\ Len(cwrote) < MaxFrames
    /\ IF InTime(cdl)
       THEN /\ cwrote' = Append(cwrote, Len(cwrote) + 1)
            /\ up' = IF snet = "up" THEN Append(up, Segment("frame", Len(cwrote) + 1)) ELSE up
            /\ UNCHANGED cl
       ELSE cl' = "broken" /\ UNCHANGED <<cwrote, up>>
    /\ UNCHANGED <<now, cnet, cdl, cbuf, asked, response, down, server, swrote, cread, sread, losses>>

ServerWrites ==
    /\ sv = "open" /\ cnet = "up"
    /\ Len(swrote) < MaxFrames
    /\ IF InTime(sdl)
       THEN /\ swrote' = Append(swrote, Len(swrote) + 1)
            /\ down' = Append(down, Segment("frame", Len(swrote) + 1))
            /\ UNCHANGED sv
       ELSE sv' = "broken" /\ UNCHANGED <<swrote, down>>
    /\ UNCHANGED <<now, client, up, snet, sdl, sbuf, key, said, cwrote, cread, sread, losses>>

\* A Conn reads a frame: what its reader holds, then what has arrived.
ClientReads ==
    /\ cl = "open"
    /\ cbuf \o down # <<>>
    /\ IF InTime(cdl)
       THEN /\ cread' = Append(cread, Head(cbuf \o down).what)
            /\ cbuf' = IF cbuf = <<>> THEN <<>> ELSE Tail(cbuf)
            /\ down' = IF cbuf = <<>> THEN Tail(down) ELSE down
            /\ UNCHANGED cl
       ELSE cl' = "broken" /\ UNCHANGED <<cread, cbuf, down>>
    /\ UNCHANGED <<now, cnet, cdl, asked, response, up, server, cwrote, swrote, sread, losses>>

ServerReads ==
    /\ sv = "open"
    /\ sbuf \o up # <<>>
    /\ sread' = Append(sread, Head(sbuf \o up).what)
    /\ sbuf' = IF sbuf = <<>> THEN <<>> ELSE Tail(sbuf)
    /\ up' = IF sbuf = <<>> THEN Tail(up) ELSE up
    /\ UNCHANGED <<now, client, down, sv, snet, sdl, key, said, cwrote, swrote, cread, losses>>

Next ==
    \/ \E scheme \in Schemes : Dial(scheme)
    \/ ConnectFails \/ Connect
    \/ \E origin \in Origins : WriteRequest(origin)
    \/ ReadResponse \/ HandshakeFails
    \/ Upgrade \/ TakeOver \/ WriteAccept \/ WriteAcceptFails
    \/ \E what \in Canned : Intercept(what)
    \/ Lose \/ Tick
    \/ ClientWrites \/ ServerWrites \/ ClientReads \/ ServerReads

Spec == Init /\ [][Next]_vars

\* Time passes, Dial does what it can, and a frame that has arrived is read.
\* Nothing is asked of the server or of the network.
Fairness ==
    /\ WF_vars(Tick)
    /\ WF_vars(Connect \/ ConnectFails)
    /\ WF_vars(\E origin \in Origins : WriteRequest(origin))
    /\ WF_vars(ReadResponse \/ HandshakeFails)

FairSpec == Spec /\ Fairness

-----------------------------------------------------------------------------
(* Properties                                                              *)

Time == 0..(MaxTime + Timeout) \union {None}
Segments ==
    {Segment("request", r) : r \in {Detoured(Asked(o), d) : o \in Origins, d \in Detours \union {"none"}}}
    \union {Segment("response", r) : r \in Response}
    \union {Segment("frame", f) : f \in 0..MaxFrames}
    \union {Segment("body", None)}

TypeOK ==
    /\ now \in 0..MaxTime
    /\ cl \in {"idle", "connecting", "requesting", "waiting", "open", "broken", "failed"}
    /\ cnet \in {"none", "up", "lost", "closed"}
    /\ {cdl, sdl} \subseteq Time
    /\ asked \in Origins \union {None}
    /\ response \in Response \union {None}
    /\ sv \in {"idle", "bypassed", "refused", "hijacked", "answering", "open", "broken", "cut", "failed"}
    /\ snet \in {"http", "up", "closed"}
    /\ \A q \in {up, down, cbuf, sbuf} : \A i \in DOMAIN q : q[i] \in Segments
    /\ key \in {"own", None}
    /\ said \in BOOLEAN
    /\ \A q \in {cwrote, swrote, cread, sread} : q \in Seq(0..MaxFrames)
    /\ losses \in 0..MaxLosses

\* "The accept header is the only proof that what is on the other end actually
\* read our key": a dial that succeeded met an Upgrade that answered this very
\* request, whatever a proxy or a cache says in its place. An Upgrade that failed
\* after its 101 has closed the connection the dial holds.
DialedMeansUpgraded ==
    cl \in {"open", "broken"} => sv \in {"open", "broken"} \/ (sv = "cut" /\ said)

\* However a handshake fails, at whichever step and on whichever end, the
\* connection that end held is closed.
NothingLeftOpen ==
    /\ cl = "failed" => cnet # "up"
    /\ sv \in {"failed", "cut"} => snet # "up"

\* From the first frame on nothing is lost, doubled or reordered: what one end
\* wrote is what the other read, what its reader holds and what is on the way,
\* also when the first frames came in one segment with the 101, and when bytes
\* came too early for a reader the Conn does not keep.
FirstFramesKept ==
    cl = "open" /\ sv = "open" /\ losses = 0 =>
        /\ swrote = cread \o What(cbuf \o down)
        /\ cwrote = sread \o What(sbuf \o up)

\* No conversation is ended by the clock of its handshake, however long after.
ConversationsLast == cl # "broken" /\ sv # "broken"

\* A dial that succeeded met an Upgrade that answered this very request, and from
\* the first frame on nothing is lost, doubled or reordered; a handshake that failed
\* leaves no connection open, and one that did not leaves no clock behind.
HandshakeSound ==
    /\ TypeOK /\ DialedMeansUpgraded /\ NothingLeftOpen
    /\ FirstFramesKept /\ ConversationsLast

\* With a HandshakeTimeout a dial ends, although neither the network nor the
\* server ever has to answer.
DialEnds == cl = "connecting" ~> cl \in {"open", "broken", "failed"}

\* "HandshakeTimeout bounds the whole dial: connect, request, response."
WholeDialBounded == cl \in {"connecting", "requesting", "waiting"} => now <= Timeout

\* "the response goes back with its body intact, so the caller can read why."
BodyIntact ==
    cl = "failed" /\ response # None /\ losses = 0 /\ response.status # 101 => cbuf # <<>>

\* "On any failure the client has already been answered with a status and a
\* one-line body saying which check failed"
FailureAnswered == sv = "failed" /\ losses = 0 /\ cl = "waiting" => said

=============================================================================
