-------------------------------- MODULE MCWs --------------------------------
(***************************************************************************)
(* Package ws for TLC: the opening handshake, frames on a byte stream, the *)
(* messages and the writers of a connection, the check of their text and   *)
(* the reason of a close. A behaviour is about one part, chosen at the     *)
(* start; the variables of the others keep their first values. Frames are  *)
(* read without a limit, with one and from a server; a connection has a    *)
(* peer that sends messages, or a mutex that several goroutines want.      *)
(***************************************************************************)
EXTENDS Ws

VARIABLE part  \* the part a behaviour is about

\* A byte of every class the validator tells apart, and both ends of each.
MCBytes == {65, 127, 128, 143, 144, 159, 160, 191, 192, 193, 194, 223, 224, 225, 237, 239,
            240, 241, 244, 245, 248, 255}

\* A server without a limit and with one, and a client.
NoLimit == [fromClient |-> TRUE, limit |-> 0, frames |-> 2]
MCEnds == {NoLimit,
           [fromClient |-> TRUE, limit |-> 1, frames |-> 1],
           [fromClient |-> FALSE, limit |-> 0, frames |-> 1]}

\* Payloads on both sides of the widths, of the limit and of a chunk, in a pattern
\* whose period is not the mask's.
MCBodies == {[i \in 1..n |-> (i \div 2) % 2] : n \in {0, 1, 2, 4, 5, 7}}
MCMasks == {<<0, 1>>}

\* A rune over two fragments or cut off, a message that reaches the limit and one
\* that passes it, and a control frame anywhere between.
MCPayloads == {<<"half">>, <<"rest", "rune">>}

\* The same connection with writers, pings and closes of more kinds.
Contested == INSTANCE Conn WITH
    Limit <- 2, MaxControl <- 1,
    Payloads <- {<<"rune">>}, Pings <- {"p", "q"}, Closes <- {"empty", "away", "badtext"},
    Written <- {"text", "close"}, MaxFrames <- 2, MaxWrites <- 1

\* A rune of every length, and the replacement character, which a reason may hold
\* itself.
MCRunes == {<<65>>, <<195, 161>>, <<226, 130, 172>>, <<239, 191, 189>>, <<240, 159, 152, 128>>}

ASSUME ContestedAssumption == Contested!ConnAssumption

-----------------------------------------------------------------------------
Parts == {"text", "frames", "messages", "writers", "closing", "opening"}

utfVars == <<pending, value, need, bad, text>>
frameVars == <<end, stream, ended, pc, head, mask, got, alloc, err, framed, odd, handed>>
connVars == <<consumed, message, opcode, fragOpcode, validator, readErr, returned, mu, closeSent,
              sending, outcome, out, broken, writes>>
closeVars == <<code, reason>>
openVars == <<clock, cl, cnet, cdl, cbuf, askedFor, response, up, down, sv, snet, sdl, sbuf, key,
              cwrote, swrote, cread, sread, said, losses>>
wsVars == <<part, utfVars, frameVars, connVars, closeVars, openVars>>

Init ==
    /\ part \in Parts
    /\ Utf!Init /\ Framing!Init /\ Socket!Init /\ Closing!Init /\ Opening!Init
    /\ part # "frames" => end = NoLimit
    /\ part # "closing" => code = 1000

OfText ==
    /\ part = "text" /\ Utf!Next
    /\ UNCHANGED <<part, frameVars, connVars, closeVars, openVars>>

OfFrames ==
    /\ part = "frames" /\ Framing!Next
    /\ UNCHANGED <<part, utfVars, connVars, closeVars, openVars>>

OfMessages ==
    /\ \/ part = "messages" /\ Socket!Next
       \/ part = "writers" /\ Contested!Next
    /\ UNCHANGED <<part, utfVars, frameVars, closeVars, openVars>>

OfClosing ==
    /\ part = "closing" /\ Closing!Next
    /\ UNCHANGED <<part, utfVars, frameVars, connVars, openVars>>

OfOpening ==
    /\ part = "opening" /\ Opening!Next
    /\ UNCHANGED <<part, utfVars, frameVars, connVars, closeVars>>

Next == OfText \/ OfFrames \/ OfMessages \/ OfClosing \/ OfOpening

\* The fairness of each part. What a goroutine does with the mutex and what a
\* dialer does with time is the same under every setting.
Spec ==
    /\ Init /\ [][Next]_wsVars
    /\ WF_frameVars(part = "frames" /\ Framing!ReadFrame)
    /\ Socket!Fairness
    /\ Opening!Fairness

-----------------------------------------------------------------------------
(* The properties that are about more than one part                        *)

\* Every frame written is read and the end of a stream ends its reader, an error
\* ends ReadMessage and stands, and a dial with a timeout ends.
ReadsEnd ==
    Framing!EverythingRead /\ Socket!ErrorStands /\ Socket!ReadEnds /\ Opening!DialEnds
=============================================================================
