---------------------------------- MODULE Ws ----------------------------------
(***************************************************************************)
(* The parts of package src/ws: the check of a text (Utf8), the reason of  *)
(* a close (CloseReason), frames on a byte stream (Frame), the messages    *)
(* and the writers of one connection (Conn) and the opening handshake      *)
(* (Handshake), with what each of them promises. The parts share no state: *)
(* a frame here is bytes, there a value ReadFrame returned.                *)
(***************************************************************************)
EXTENDS Utf8Text, FiniteSets

CONSTANTS
    Bytes, MaxBytes,                                                                \* Utf8
    MaxClose, Runes, Codes, MaxReason,                                              \* CloseReason
    Ends, Short, Medium, Ceiling, KeyLen, Chunk, Kinds, Bodies, Masks, Declared,    \* Frame
    Writers, Reader, ReadLimit, MaxControl, Payloads, Pings, Closes, Written,
    MaxRead, MaxWrites,                                                             \* Conn
    Timeout, Schemes, Origins, Detours, Canned, OwnReaders, MaxClock, MaxSent,
    MaxLosses, None                                                                 \* Handshake

VARIABLES
    pending, value, need, bad, text,                                                \* Utf8
    code, reason,                                                                   \* CloseReason
    end, stream, ended, pc, head, mask, got, alloc, err, framed, odd, handed,       \* Frame
    consumed, message, opcode, fragOpcode, validator, readErr, returned,
    mu, closeSent, sending, outcome, out, broken, writes,                           \* Conn
    clock, cl, cnet, cdl, cbuf, askedFor, response, up, down, sv, snet, sdl, sbuf,
    key, cwrote, swrote, cread, sread, said, losses                                 \* Handshake

Utf == INSTANCE Utf8

Closing == INSTANCE CloseReason WITH
    MaxControl <- MaxClose

Framing == INSTANCE Frame WITH
    this <- end, wire <- stream, key <- mask, sent <- framed, read <- handed,
    Written <- Kinds, Payloads <- Bodies, Keys <- Masks

Socket == INSTANCE Conn WITH
    Limit <- ReadLimit, MaxFrames <- MaxRead

Opening == INSTANCE Handshake WITH
    now <- clock, asked <- askedFor, MaxTime <- MaxClock, MaxFrames <- MaxSent

ASSUME WsAssumption ==
    /\ Utf!Utf8Assumption
    /\ Closing!CloseAssumption
    /\ Framing!FrameAssumption
    /\ Socket!ConnAssumption
    /\ Opening!HandshakeAssumption

-----------------------------------------------------------------------------
(* Properties                                                              *)

\* The incremental check is exact over every byte string: a message may end exactly
\* where it is well-formed UTF-8, and nothing it refuses could still become so.
\* The reason of a close is text of that kind: cut to fit, it keeps as many runes as
\* fit, and the peer's ParseClose takes it.
TextExact ==
    /\ Utf!TypeOK /\ Utf!CompleteIsWellFormed /\ Utf!RefusesOnlyBad
    /\ Closing!PeerTakesIt /\ Closing!ReasonKept

\* ReadFrame returns the frames WriteFrame wrote, whichever end writes. It refuses
\* only what the RFC, the limit or an int64 forbids, reads nothing forbidden past
\* its header, and its memory follows the limit or the bytes that arrived.
FramesExact == Framing!FramesExact

\* ReadMessage returns the fragments of each message, joined, whatever came between:
\* texts are whole runes, no message is over the limit, and a lawful continuation is
\* never refused.
MessagesExact == Socket!MessagesExact

\* What several goroutines write on one connection comes out as whole frames, a
\* close frame last; every ping is answered with its own payload in its order, and
\* a peer that is failed is told why.
WritesOrdered == Socket!WritesOrdered

\* A dial that succeeded met an Upgrade that answered this very request, and from
\* the first frame on nothing is lost, doubled or reordered; a handshake that failed
\* leaves no connection open, and one that did not leaves no clock behind.
HandshakeSound == Opening!HandshakeSound
=============================================================================
