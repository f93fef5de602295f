-------------------------------- MODULE Conn --------------------------------
(***************************************************************************)
(* One WebSocket connection of src/ws/conn.go: the goroutine that reads    *)
(* messages out of frames, answering control frames as it goes, and the    *)
(* goroutines that write on the same connection under its mutex. The peer  *)
(* sends what frames it likes. A piece of payload is a whole rune, the     *)
(* first or the last half of one, or a byte that belongs to none.          *)
(***************************************************************************)
EXTENDS Integers, Sequences, FiniteSets

CONSTANTS
    Writers,     \* the goroutines that write messages
    Reader,      \* the goroutine that reads them
    Limit,       \* readLimit; 0 is none
    MaxControl,  \* maxControlPayload
    Payloads,    \* the payloads of data frames: sequences of pieces
    Pings,       \* the payloads of pings
    Closes,      \* the payloads of the peer's close frames
    Written,     \* the opcodes the writers write
    MaxFrames,   \* bound: the frames of the peer
    MaxWrites    \* bound: the messages a writer writes

Nobody == "nobody"
Goroutines == Writers \union {Reader}
Pieces == {"rune", "half", "rest", "bad"}

ConnAssumption ==
    /\ Reader \notin Writers
    /\ Nobody \notin Goroutines
    /\ Limit \in Nat /\ MaxControl \in Nat
    /\ \A p \in Payloads : p \in Seq(Pieces)
    /\ Closes \subseteq {"empty", "halfcode", "badcode", "badtext", "normal", "away"}
    /\ Written \subseteq {"text", "binary", "close", "ping", "pong"}
    /\ MaxFrames \in Nat /\ MaxWrites \in Nat

VARIABLES
    consumed,    \* history: what ReadFrame was given, in order
    message,     \* ReadMessage's message so far
    opcode,      \* its type
    fragOpcode,  \* the type of the open message, "none" between messages
    validator,   \* "clean", "owing" (inside a rune) or "bad"
    readErr,     \* the error every later ReadMessage returns
    returned,    \* history: the messages returned
    mu,          \* the holder of the write mutex
    closeSent,
    sending,     \* per goroutine, the frame it writes and how far it is
    outcome,     \* the error the reader ends with once its frame is written
    out,         \* what was written: headers and payloads, each with its writer
    broken,      \* the socket takes no more: it failed or it was closed
    writes       \* how many messages each writer wrote

vars == <<consumed, message, opcode, fragOpcode, validator, readErr,
          returned, mu, closeSent, sending, outcome, out, broken, writes>>

reading == <<consumed, message, opcode, fragOpcode, validator, returned>>
writing == <<mu, closeSent, out, broken>>

Frame(op, final, payload) == [opcode |-> op, final |-> final, payload |-> payload]
Quiet == [at |-> "idle", frame |-> Frame("none", TRUE, <<>>)]

Init ==
    /\ consumed = <<>>
    /\ message = <<>>
    /\ opcode = "none"
    /\ fragOpcode = "none"
    /\ validator = "clean"
    /\ readErr = "none"
    /\ returned = <<>>
    /\ mu = Nobody
    /\ closeSent = FALSE
    /\ sending = [g \in Goroutines |-> Quiet]
    /\ outcome = "none"
    /\ out = <<>>
    /\ broken = FALSE
    /\ writes = [w \in Writers |-> 0]

-----------------------------------------------------------------------------
(* The peer                                                                *)

Control(op) == op \in {"close", "ping", "pong"}

DataFrames == {Frame(op, fin, p) : op \in {"text", "binary", "continuation"},
                                   fin \in BOOLEAN, p \in Payloads}
ControlFrames == {Frame("close", TRUE, <<c>>) : c \in Closes}
                   \union {Frame(op, TRUE, <<p>>) : op \in {"ping", "pong"}, p \in Pings}

\* What ReadFrame returns besides a frame: an error of the header (Frame.tla
\* says which) and the end of the stream.
Faults == {Frame("fault", TRUE, <<e>>) : e \in {"ErrReservedBits", "EOF"}}

-----------------------------------------------------------------------------
(* The writers                                                             *)

Starts(g, f) == sending' = [sending EXCEPT ![g] = [at |-> "lock", frame |-> f]]

Stops(g) == sending' = [sending EXCEPT ![g] = Quiet]

\* WriteMessage.
WriteMessage(w, op) ==
    /\ sending[w] = Quiet
    /\ writes[w] < MaxWrites
    /\ writes' = [writes EXCEPT ![w] = @ + 1]
    /\ Starts(w, Frame(op, TRUE, <<"normal">>))
    /\ UNCHANGED <<reading, writing, readErr, outcome>>

\* Mutant: nothing waits for the mutex.
LockFree(g) ==
    /\ sending[g].at = "lock"
    /\ IF closeSent
       THEN /\ Stops(g)
            /\ UNCHANGED <<mu, closeSent>>
       ELSE /\ mu' = g
            /\ closeSent' = (sending[g].frame.opcode = "close")
            /\ sending' = [sending EXCEPT ![g].at = "header"]
    /\ UNCHANGED <<reading, readErr, outcome, out, broken, writes>>

\* Mutant: only data is refused after a close.
LockData(g) ==
    /\ sending[g].at = "lock"
    /\ mu = Nobody
    /\ IF closeSent /\ ~Control(sending[g].frame.opcode)
       THEN /\ Stops(g)
            /\ UNCHANGED <<mu, closeSent>>
       ELSE /\ mu' = g
            /\ closeSent' = (closeSent \/ sending[g].frame.opcode = "close")
            /\ sending' = [sending EXCEPT ![g].at = "header"]
    /\ UNCHANGED <<reading, readErr, outcome, out, broken, writes>>

\* write takes the mutex, and returns at once when the close was sent.
Lock(g) ==
    /\ sending[g].at = "lock"
    /\ mu = Nobody
    /\ IF closeSent
       THEN /\ Stops(g)
            /\ UNCHANGED <<mu, closeSent>>
       ELSE /\ mu' = g
            /\ closeSent' = (sending[g].frame.opcode = "close")
            /\ sending' = [sending EXCEPT ![g].at = "header"]
    /\ UNCHANGED <<reading, readErr, outcome, out, broken, writes>>

\* WriteFrame refuses a control frame over maxControlPayload, which a writer may hand
\* it: nothing goes out, and a close counts as sent. The reader's own are no longer
\* than what it read.
Oversize(g) ==
    /\ g \in Writers
    /\ sending[g].at = "lock"
    /\ Control(sending[g].frame.opcode)
    /\ mu = Nobody
    /\ ~closeSent
    /\ closeSent' = (sending[g].frame.opcode = "close")
    /\ Stops(g)
    /\ UNCHANGED <<reading, readErr, mu, outcome, out, broken, writes>>

\* WriteFrame's header, and then its payload and the flush; the mutex is
\* released when write returns.
Part(g, part) == [part |-> part, by |-> g, frame |-> sending[g].frame]

WriteHeader(g) ==
    /\ sending[g].at = "header"
    /\ ~broken
    /\ out' = Append(out, Part(g, "header"))
    /\ sending' = [sending EXCEPT ![g].at = "payload"]
    /\ UNCHANGED <<reading, readErr, mu, closeSent, outcome, broken, writes>>

WritePayload(g) ==
    /\ sending[g].at = "payload"
    /\ ~broken
    /\ out' = Append(out, Part(g, "payload"))
    /\ mu' = Nobody
    /\ Stops(g)
    /\ UNCHANGED <<reading, readErr, closeSent, outcome, broken, writes>>

\* Mutant: an error returns past the unlock.
WriteFailsHolding(g) ==
    /\ sending[g].at \in {"header", "payload"}
    /\ broken' = TRUE
    /\ Stops(g)
    /\ UNCHANGED <<reading, readErr, mu, closeSent, outcome, out, writes>>

\* The socket refuses the write, for good.
WriteFails(g) ==
    /\ sending[g].at \in {"header", "payload"}
    /\ broken' = TRUE
    /\ mu' = Nobody
    /\ Stops(g)
    /\ UNCHANGED <<reading, readErr, closeSent, outcome, out, writes>>

-----------------------------------------------------------------------------
(* The reader                                                              *)

\* What the elements of p make of v, one after the other.
Folded(step, v, p) ==
    LET after[i \in 0..Len(p)] == IF i = 0 THEN v ELSE step[after[i - 1]][p[i]]
    IN after[Len(p)]

\* What a piece makes of the validator's state, and what a payload does.
Rune ==
    [v \in {"clean", "owing", "bad"} |-> [piece \in Pieces |->
       CASE v = "clean" /\ piece = "rune" -> "clean"
         [] v = "clean" /\ piece = "half" -> "owing"
         [] v = "owing" /\ piece = "rest" -> "clean"
         [] OTHER -> "bad"]]

Validated(v, p) == Folded(Rune, v, p)

\* CloseError, the error of a close the peer sent with this payload.
Closed(payload) == CASE payload = "empty" -> "CloseError 1005"
                     [] payload = "normal" -> "CloseError 1000"
                     [] payload = "away" -> "CloseError 1001"

\* The code failRead tells the peer.
Code(e) ==
    CASE e = "ErrBadUTF8" -> "1007"
      [] e = "ErrTooLarge" -> "1009"
      [] OTHER -> "1002"

isTransport(e) == e = "EOF"

\* The connection is read no more: the goroutine shuts the socket.
Ended(e) ==
    /\ broken' = TRUE
    /\ readErr' = e

\* Mutant: every error is told as a protocol error.
FailReadOne(e) ==
    IF isTransport(e)
    THEN /\ Ended(e)
         /\ UNCHANGED <<sending, outcome>>
    ELSE /\ Starts(Reader, Frame("close", TRUE, <<"1002">>))
         /\ outcome' = e
         /\ UNCHANGED <<readErr, broken>>

\* failRead: a close frame that says why, unless the network ended it.
FailRead(e) ==
    IF isTransport(e)
    THEN /\ Ended(e)
         /\ UNCHANGED <<sending, outcome>>
    ELSE /\ Starts(Reader, Frame("close", TRUE, <<Code(e)>>))
         /\ outcome' = e
         /\ UNCHANGED <<readErr, broken>>

\* ReadFrame's limit: enough for a control frame whatever the message has left.
FrameLimit ==
    LET left == Limit - Len(message) IN
    IF Limit > 0 /\ left < MaxControl THEN MaxControl ELSE left

\* Mutant: a message may not reach its limit.
TooLargeOff(f) ==
    /\ Limit > 0
    /\ Len(f.payload) > FrameLimit \/ Len(message) + Len(f.payload) >= Limit

\* A data frame is too large for ReadFrame, or for the message it belongs to.
TooLarge(f) ==
    /\ Limit > 0
    /\ Len(f.payload) > FrameLimit \/ Len(message) + Len(f.payload) > Limit

\* Mutant: an open message takes any data frame as its next.
BadFragmentLax(f) == f.opcode = "continuation" /\ fragOpcode = "none"

BadFragment(f) == (f.opcode = "continuation") # (fragOpcode # "none")

\* Mutant: nobody asks whether the last rune is complete.
BadTextLax(f, valid) == valid = "bad"

\* The text so far is no text, or a message ends inside a rune.
BadText(f, valid) == valid = "bad" \/ (f.final /\ valid = "owing")

\* The validator's state before the frame: reset at a message's first.
ValidatorFor(f) == IF f.opcode = "continuation" THEN validator ELSE "clean"

\* Mutant: a later call reads on after an error.
TakesAgain(f) ==
    /\ sending[Reader] = Quiet
    /\ outcome = "none"
    /\ Len(consumed) < MaxFrames
    /\ consumed' = Append(consumed, f)

\* The reader takes the next frame of the peer, whatever it is.
Takes(f) ==
    /\ sending[Reader] = Quiet
    /\ outcome = "none"
    /\ readErr = "none"
    /\ Len(consumed) < MaxFrames
    /\ consumed' = Append(consumed, f)

\* A data frame: what is wrong with it, in the order of the checks. The state
\* of the message is not looked at again after an error.
Data(f) ==
    LET op == IF f.opcode = "continuation" THEN fragOpcode ELSE f.opcode
        valid == Validated(ValidatorFor(f), f.payload)
        wrong == CASE TooLarge(f) -> "ErrTooLarge"
                   [] ~TooLarge(f) /\ BadFragment(f) -> "ErrBadFragment"
                   [] ~TooLarge(f) /\ ~BadFragment(f) /\ op = "text"
                        /\ BadText(f, valid) -> "ErrBadUTF8"
                   [] OTHER -> "none"
    IN /\ Takes(f)
       /\ IF wrong # "none"
          THEN /\ FailRead(wrong)
               /\ UNCHANGED <<message, opcode, fragOpcode, validator, returned>>
          ELSE /\ opcode' = op
               /\ validator' = IF op = "text" THEN valid ELSE ValidatorFor(f)
               /\ IF f.final
                  THEN /\ returned' = Append(returned,
                                             [opcode |-> op, payload |-> message \o f.payload])
                       /\ message' = <<>>
                       /\ fragOpcode' = "none"
                  ELSE /\ message' = message \o f.payload
                       /\ fragOpcode' = op
                       /\ UNCHANGED returned
               /\ UNCHANGED <<readErr, sending, outcome, broken>>
       /\ UNCHANGED <<mu, closeSent, out, writes>>

\* Mutant: a ping between two fragments is not answered.
PingBetween(f) ==
    /\ Takes(f)
    /\ f.opcode = "ping"
    /\ IF fragOpcode = "none"
       THEN Starts(Reader, Frame("pong", TRUE, f.payload))
       ELSE UNCHANGED sending
    /\ UNCHANGED <<message, opcode, fragOpcode, validator, readErr, returned, outcome,
                   writes, writing>>

\* control: a ping is answered with its payload.
Ping(f) ==
    /\ Takes(f)
    /\ f.opcode = "ping"
    /\ Starts(Reader, Frame("pong", TRUE, f.payload))
    /\ UNCHANGED <<message, opcode, fragOpcode, validator, readErr, returned, outcome,
                   writes, writing>>

\* control: a pong reaches the handler, which may refuse it.
Pong(f) ==
    /\ Takes(f)
    /\ f.opcode = "pong"
    /\ readErr' \in {"none", "handler"}
    /\ UNCHANGED <<message, opcode, fragOpcode, validator, returned, outcome, sending,
                   writes, writing>>

\* ParseClose: half a code, a code that may not be sent, a reason that is not text.
CloseWrong(payload) ==
    CASE payload \in {"halfcode", "badcode"} -> "ErrBadCloseCode"
      [] payload = "badtext" -> "ErrBadUTF8"
      [] OTHER -> "none"

Echo(payload) == IF payload = "away" THEN "1001" ELSE "1000"

\* control: a close is echoed, and becomes the error of ReadMessage.
Close(f) ==
    LET payload == f.payload[1] IN
    /\ Takes(f)
    /\ f.opcode = "close"
    /\ IF CloseWrong(payload) # "none"
       THEN FailRead(CloseWrong(payload))
       ELSE /\ Starts(Reader, Frame("close", TRUE, <<Echo(payload)>>))
            /\ outcome' = Closed(payload)
            /\ UNCHANGED <<readErr, broken>>
    /\ UNCHANGED <<message, opcode, fragOpcode, validator, returned, mu, closeSent, out,
                   writes>>

\* ReadFrame fails.
Fault(f) ==
    /\ Takes(f)
    /\ f.opcode = "fault"
    /\ FailRead(f.payload[1])
    /\ UNCHANGED <<message, opcode, fragOpcode, validator, returned, mu, closeSent, out,
                   writes>>

\* The close frame was written, or could not be: the socket is shut and the
\* error is every later call's.
Shut ==
    /\ outcome # "none"
    /\ sending[Reader] = Quiet
    /\ Ended(outcome)
    /\ outcome' = "none"
    /\ UNCHANGED <<reading, mu, closeSent, sending, out, writes>>

-----------------------------------------------------------------------------
Writes(g) == Lock(g) \/ Oversize(g) \/ WriteHeader(g) \/ WritePayload(g) \/ WriteFails(g)

Next ==
    \/ \E f \in DataFrames : Data(f)
    \/ \E f \in ControlFrames : Ping(f) \/ Pong(f) \/ Close(f)
    \/ \E f \in Faults : Fault(f)
    \/ Shut
    \/ \E w \in Writers, op \in Written : WriteMessage(w, op)
    \/ \E g \in Goroutines : Writes(g)

\* A goroutine that may go on does, and the mutex is handed to everybody who
\* waits for it. The peer owes nothing.
Fairness ==
    /\ WF_vars(Shut)
    /\ \A g \in Goroutines :
         /\ SF_vars(Lock(g))
         /\ WF_vars(WriteHeader(g) \/ WritePayload(g) \/ WriteFails(g))

Spec == Init /\ [][Next]_vars /\ Fairness

-----------------------------------------------------------------------------
(* Properties                                                              *)

\* The mutex is held exactly while a frame is being written, and the open
\* message is of the type of its first frame.
TypeOK ==
    /\ mu \in Goroutines \union {Nobody}
    /\ validator \in {"clean", "owing", "bad"}
    /\ fragOpcode \in {"none", "text", "binary"}
    /\ fragOpcode # "none" => opcode = fragOpcode
    /\ \A g \in Goroutines : sending[g].at \in {"header", "payload"} <=> mu = g
    /\ closeSent \in BOOLEAN /\ broken \in BOOLEAN

\* Frames never interleave on the socket: a payload follows the header of the
\* same frame, whoever writes.
WholeFrames ==
    \A i \in DOMAIN out :
       out[i].part = (IF i % 2 = 1 THEN "header" ELSE "payload")
         /\ (i % 2 = 0 => out[i].by = out[i - 1].by /\ out[i].frame = out[i - 1].frame)

\* A close frame is the last thing on the socket: a shutdown never races a
\* broadcast or a pong into a frame the peer must reject.
CloseIsLast ==
    \A i \in DOMAIN out :
       out[i].part = "header" /\ out[i].frame.opcode = "close" => i >= Len(out) - 1

\* The frames that carry a message, and what a sequence of frames carries of it.
OfData(f) == ~Control(f.opcode) /\ f.opcode # "fault"

Carried(f) == IF OfData(f) THEN f.payload ELSE <<>>
Join == [m \in Seq(Pieces) |-> [p \in Seq(Pieces) |-> m \o p]]

Flat(s) == Folded(Join, <<>>, [i \in DOMAIN s |-> Carried(s[i])])

\* The error the reader ends with, and the frames read, less the one that was its
\* cause.
Failure == IF outcome # "none" THEN outcome ELSE readErr
Accepted == IF Failure = "none" THEN Len(consumed) ELSE Len(consumed) - 1

\* The frames among the first n that end a message; and whether a message begins
\* after the frame a (0 is the start) that is not over before the frame k.
Final(k) == OfData(consumed[k]) /\ consumed[k].final
Finals(n) == {k \in 1..n : Final(k)}
Begins(a, k) == (a = 0 \/ Final(a)) /\ \A j \in (a + 1)..(k - 1) : ~Final(j)

\* Its first frame: there may be others between.
Leads(a, b) == OfData(consumed[b]) /\ \A j \in (a + 1)..(b - 1) : ~OfData(consumed[j])

\* The message that the frame k ends, and the one still open after the frame n: its
\* fragments joined in their order, under the type of the first.
Whole(k) ==
    \A a \in 0..(k - 1) : Begins(a, k) =>
       LET m == returned[Cardinality(Finals(k))] IN
       /\ m.payload = Flat(SubSeq(consumed, a + 1, k))
       /\ \A b \in (a + 1)..k : Leads(a, b) => m.opcode = consumed[b].opcode
Rest(n) ==
    \A a \in 0..n : Begins(a, n + 1) => message = Flat(SubSeq(consumed, a + 1, n))

\* ReadMessage returned every message that was read to its end, whatever came between
\* its frames, and nothing else.
Joined ==
    /\ Len(returned) = Cardinality(Finals(Accepted))
    /\ \A k \in Finals(Accepted) : Whole(k)
    /\ Rest(Accepted)

\* Every text returned is whole runes and no message is over the limit.
ReturnedWell ==
    \A i \in DOMAIN returned :
       /\ returned[i].opcode = "text" => Validated("clean", returned[i].payload) = "clean"
       /\ Limit > 0 => Len(returned[i].payload) <= Limit

\* A message is open: a data frame was read that no final one followed.
Open == \E k \in 1..Accepted : OfData(consumed[k]) /\ \A j \in k..Accepted : ~Final(j)

\* A lawful continuation of what was read is never refused: the connection
\* fails over a data frame only when it is out of place, over the limit, or
\* leaves text no rune can follow.
RefusedForCause ==
    LET f == consumed[Len(consumed)]
        whole == message \o f.payload
        ofText == (IF f.opcode # "continuation" THEN f.opcode ELSE fragOpcode) = "text"
    IN Failure \in {"ErrTooLarge", "ErrBadFragment", "ErrBadUTF8"} /\ OfData(f) =>
         CASE Failure = "ErrTooLarge" -> Limit > 0 /\ Len(whole) > Limit
           [] Failure = "ErrBadFragment" -> (f.opcode = "continuation") # Open
           [] Failure = "ErrBadUTF8" ->
                ofText /\ Validated("clean", whole) \in (IF f.final THEN {"bad", "owing"} ELSE {"bad"})

\* ReadMessage returns the fragments of each message, joined, whatever came between:
\* texts are whole runes, no message is over the limit, and a lawful continuation is
\* never refused.
MessagesExact == TypeOK /\ Joined /\ ReturnedWell /\ RefusedForCause

\* The pings among the first n frames read, and the pongs of the reader among the
\* first n pieces written.
PingsIn(n) == {i \in 1..n : consumed[i].opcode = "ping"}
PongsOut(n) ==
    {i \in 1..n : out[i].part = "payload" /\ out[i].by = Reader /\ out[i].frame.opcode = "pong"}

\* Every ping is answered, with its own payload and in its order, between the
\* fragments of a message too, until a close was sent or the socket is gone.
PongsAnswer ==
    /\ \A k \in PongsOut(Len(out)) : \E i \in PingsIn(Len(consumed)) :
          /\ Cardinality(PingsIn(i)) = Cardinality(PongsOut(k))
          /\ out[k].frame.payload = consumed[i].payload
    /\ sending[Reader] = Quiet /\ ~closeSent /\ ~broken =>
          Cardinality(PongsOut(Len(out))) = Cardinality(PingsIn(Len(consumed)))

\* A peer that is failed is told why: when the reader is done with a protocol
\* error the last frame is a close with that error's code, unless somebody had
\* written a close before, were it one too long to go out, or the socket is what
\* failed.
ToldWhy ==
    readErr \in {"ErrTooLarge", "ErrBadFragment", "ErrBadUTF8", "ErrReservedBits", "ErrBadCloseCode"}
      => closeSent
         /\ \A i \in DOMAIN out : out[i].frame.opcode = "close" /\ out[i].by = Reader
                                    => out[i].frame.payload = <<Code(readErr)>>

\* What several goroutines write on one connection comes out as whole frames, a
\* close frame last; every ping is answered with its own payload in its order, and
\* a peer that is failed is told why.
WritesOrdered == WholeFrames /\ CloseIsLast /\ PongsAnswer /\ ToldWhy

\* A close that was sent is on the socket, unless the socket failed.
CloseSentIsOut ==
    closeSent /\ mu = Nobody /\ ~broken => \E i \in DOMAIN out : out[i].frame.opcode = "close"

\* After an error nothing more is read: the error stands and no message comes.
ErrorStands ==
    [][readErr # "none" => readErr' = readErr /\ returned' = returned /\ consumed' = consumed]_vars

\* A close from the peer, or a frame that cannot be read, ends ReadMessage:
\* the goroutine never waits for the mutex for ever.
ReadEnds ==
    (outcome # "none") ~> (readErr # "none")

\* "It is [CloseAbnormalClosure] when the connection ended with no close frame
\* at all."
AbnormalIsTold ==
    readErr # "none" /\ consumed # <<>> /\ consumed[Len(consumed)] = Frame("fault", TRUE, <<"EOF">>)
      => readErr = "CloseError 1006"
=============================================================================
