-------------------------------- MODULE Frame --------------------------------
(***************************************************************************)
(* The frames of src/ws/frame.go on a byte stream: WriteFrame at one end,  *)
(* ReadFrame at the other, one action per read of the stream, and a stream *)
(* that may end between any two of them. The widths of the length field    *)
(* and of the mask are constants, scaled down by the configurations.       *)
(***************************************************************************)
EXTENDS Integers, Sequences, FiniteSets

CONSTANTS
    Ends,         \* the ends that read: who writes to it, its limit, a bound on the frames
    Short,        \* the longest length of the seven bit field (125)
    Medium,       \* the longest length of the sixteen bit field (0xffff)
    Ceiling,      \* the longest length ReadFrame takes as one (1 << 62)
    KeyLen,       \* the bytes of a mask (4)
    Chunk,        \* payloadChunk
    Written,      \* the opcodes written
    Payloads,     \* the payloads written: sequences of bits
    Keys,         \* the masks a client draws
    Declared      \* the lengths a stray header declares, of payloads that never come

FrameAssumption ==
    /\ Ends \subseteq [fromClient : BOOLEAN, limit : Nat, frames : Nat]
    /\ Short \in Nat /\ Medium \in Nat /\ Ceiling \in Nat
    /\ Short < Medium /\ Medium < Ceiling
    /\ KeyLen \in Nat \ {0}
    /\ Chunk \in Nat \ {0} /\ Short <= Chunk
    /\ Written \subseteq {"continuation", "text", "binary", "close", "ping", "pong"}
    /\ \A p \in Payloads : p \in Seq({0, 1}) /\ Len(p) <= Ceiling
    /\ Keys \subseteq [1..KeyLen -> {0, 1}]
    /\ Declared \subseteq Nat \ {0}

VARIABLES
    this,   \* the end that reads, one of Ends
    wire,   \* the stream between the ends: what was written and not yet read
    ended,  \* the stream ends after what wire holds
    pc,     \* what ReadFrame reads next
    head,   \* the frame in progress: [final, opcode, length]
    key,    \* its mask
    got,    \* its payload so far
    alloc,  \* the bytes allocated for it
    err,    \* what ReadFrame returned instead of a frame
    sent,   \* history: the frames written
    odd,    \* history: the header a peer of another make wrote, if it did
    read    \* history: the frames returned

vars == <<this, wire, ended, pc, head, key, got, alloc, err, sent, odd, read>>

\* The writing end is a client, so its frames are masked; ReadFrame's limit, 0 is
\* none; and the bound: the frames written.
FromClient == this.fromClient
Limit == this.limit
MaxFrames == this.frames

Data == {"continuation", "text", "binary"}
Controls == {"close", "ping", "pong"}
Opcodes == Data \union Controls

Frames == [final : BOOLEAN, opcode : Written, payload : Payloads]
NoHead == [final |-> TRUE, opcode |-> "text", length |-> 0]

Init ==
    /\ this \in Ends
    /\ wire = <<>>
    /\ ended = FALSE
    /\ pc = "head"
    /\ head = NoHead
    /\ key = <<>>
    /\ got = <<>>
    /\ alloc = 0
    /\ err = "none"
    /\ sent = <<>>
    /\ odd = <<>>
    /\ read = <<>>

Idle == <<this, pc, head, key, got, alloc, err, read>>

-----------------------------------------------------------------------------
(* WriteFrame                                                              *)

Mask(b, k) == [i \in DOMAIN b |-> (b[i] + k[((i - 1) % KeyLen) + 1]) % 2]

LengthByte(n) == IF n <= Short THEN n ELSE IF n <= Medium THEN Short + 1 ELSE Short + 2

\* The extended length: nothing, one that fits the sixteen bits, or the long one.
Extended(n) ==
    IF n > Medium THEN <<n>>
    ELSE IF n > Short THEN <<n % (Medium + 1)>>
    ELSE <<>>

\* A control frame is short and whole.
Writable(f) == f.opcode \in Controls => Len(f.payload) <= Short /\ f.final

First(final, reserved, opcode) ==
    [final |-> final, reserved |-> reserved, opcode |-> opcode]

\* The units of the wire after the first two bytes.
Units(s) == [i \in DOMAIN s |-> [unit |-> s[i]]]

Values(s) == [i \in DOMAIN s |-> s[i].unit]

Second(masked, length) == [masked |-> masked, length |-> length]

Encoded(f, k) ==
    LET n == Len(f.payload) IN
    <<First(f.final, FALSE, f.opcode), Second(FromClient, LengthByte(n))>>
      \o Units(Extended(n))
      \o Units(IF FromClient THEN k \o Mask(f.payload, k) ELSE f.payload)

WriteFrame(f, k) ==
    /\ ~ended
    /\ Len(sent) < MaxFrames
    /\ Writable(f)
    /\ wire' = wire \o Encoded(f, k)
    /\ sent' = Append(sent, f)
    /\ UNCHANGED <<ended, odd, Idle>>

\* A peer that is not this package writes a header of its own: any bits, a
\* length in any of the three fields, and no payload after it.
Stray(first, second, extended) ==
    /\ ~ended
    /\ Len(sent) < MaxFrames
    /\ wire' = wire \o <<first, second>> \o Units(extended)
    /\ ended' = TRUE
    /\ odd' = <<first, second, extended>>
    /\ UNCHANGED <<sent, Idle>>

\* The connection goes, and with it what had not arrived.
Cut(n) ==
    /\ ~ended
    /\ ended' = TRUE
    /\ wire' = SubSeq(wire, 1, n)
    /\ UNCHANGED <<sent, odd, Idle>>

-----------------------------------------------------------------------------
(* ReadFrame                                                               *)

\* What is wrong with the first two bytes, in the order of the checks.
HeadWrong(first, second) ==
    IF first.reserved THEN "ErrReservedBits"
    ELSE IF first.opcode \notin Opcodes THEN "ErrBadOpcode"
    ELSE IF FromClient /\ ~second.masked THEN "ErrUnmaskedClient"
    ELSE IF ~FromClient /\ second.masked THEN "ErrMaskedServer"
    ELSE "none"

\* Mutant: a length may be written in more bytes than it needs.
LengthWrongLax(field, n) == IF field = Short + 2 /\ n > Ceiling THEN "ErrTooLarge" ELSE "none"

\* Mutant: a length is taken as an int64 whatever it is.
LengthWrongHuge(field, n) ==
    IF \/ field = Short + 1 /\ n <= Short
       \/ field = Short + 2 /\ n <= Medium
    THEN "errNonMinimalLength" ELSE "none"

\* What is wrong with an extended length.
LengthWrong(field, n) ==
    CASE field = Short + 1 /\ n <= Short -> "errNonMinimalLength"
      [] field = Short + 2 /\ n <= Medium -> "errNonMinimalLength"
      [] field = Short + 2 /\ n > Ceiling -> "ErrTooLarge"
      [] OTHER -> "none"

\* Mutant: the limit applies to control frames too.
SizeWrongAll(opcode, final, n) ==
    CASE Limit > 0 /\ n > Limit -> "ErrTooLarge"
      [] opcode \in Controls /\ (n > Short \/ ~final) -> "ErrControlTooLong"
      [] OTHER -> "none"

\* Mutant: nothing compares the length with the limit.
SizeWrongNever(opcode, final, n) ==
    IF opcode \in Controls /\ (n > Short \/ ~final) THEN "ErrControlTooLong" ELSE "none"

\* What is wrong with a length for the frame it is the length of.
SizeWrong(opcode, final, n) ==
    CASE opcode \in Controls /\ (n > Short \/ ~final) -> "ErrControlTooLong"
      [] opcode \in Data /\ Limit > 0 /\ n > Limit -> "ErrTooLarge"
      [] OTHER -> "none"

\* The frame is refused: ReadFrame returns an error and is not called again.
Fails(e) ==
    /\ err' = e
    /\ pc' = "failed"
    /\ UNCHANGED <<head, key, got, alloc, read>>

\* readPayload allocates a payload at once when a limit vouched for its length
\* or when it is no longer than a chunk.
Whole(n) == Limit > 0 \/ n <= Chunk

\* What readPayload allocates before it reads: the payload, or the first
\* buffer and the chunk it is filled through.
Buffers(n) == IF Whole(n) THEN n ELSE 2 * Chunk

\* The length is known: it is checked, and then what follows is the mask or,
\* without one, the payload.
LengthKnown(f) ==
    LET wrong == SizeWrong(f.opcode, f.final, f.length) IN
    IF wrong # "none" THEN Fails(wrong)
    ELSE /\ head' = f
         /\ pc' = IF FromClient THEN "key" ELSE "payload"
         /\ alloc' = IF FromClient THEN 0 ELSE Buffers(f.length)
         /\ UNCHANGED <<key, got, err, read>>

Arrived(n) == Len(wire) >= n

Consume(n) == wire' = SubSeq(wire, n + 1, Len(wire))

ReadHead ==
    /\ pc = "head"
    /\ Arrived(2)
    /\ Consume(2)
    /\ LET first == wire[1]
           second == wire[2]
           wrong == HeadWrong(first, second)
           f == [final |-> first.final, opcode |-> first.opcode, length |-> second.length]
       IN CASE wrong # "none" -> Fails(wrong)
            [] wrong = "none" /\ second.length > Short ->
                 /\ head' = f
                 /\ pc' = "extended"
                 /\ UNCHANGED <<key, got, alloc, err, read>>
            [] OTHER -> LengthKnown(f)
    /\ UNCHANGED <<this, ended, sent, odd>>

ReadExtended ==
    /\ pc = "extended"
    /\ Arrived(1)
    /\ Consume(1)
    /\ LET wrong == LengthWrong(head.length, wire[1].unit) IN
       IF wrong # "none" THEN Fails(wrong)
       ELSE LengthKnown([head EXCEPT !.length = wire[1].unit])
    /\ UNCHANGED <<this, ended, sent, odd>>

ReadKey ==
    /\ pc = "key"
    /\ Arrived(KeyLen)
    /\ Consume(KeyLen)
    /\ key' = Values(SubSeq(wire, 1, KeyLen))
    /\ pc' = "payload"
    /\ alloc' = Buffers(head.length)
    /\ UNCHANGED <<this, ended, head, got, err, sent, odd, read>>

\* Mutant: the mask starts over with every chunk.
ReturnedByChunk(payload) ==
    /\ read' = Append(read, [final |-> head.final, opcode |-> head.opcode,
                             payload |-> IF FromClient
                                THEN [i \in DOMAIN payload |->
                                        (payload[i] + key[(((i - 1) % Chunk) % KeyLen) + 1]) % 2]
                                ELSE payload])
    /\ pc' = "head"
    /\ head' = NoHead
    /\ key' = <<>>
    /\ got' = <<>>
    /\ alloc' = 0

\* The frame is returned, unmasked.
Returned(payload) ==
    /\ read' = Append(read, [final |-> head.final, opcode |-> head.opcode,
                             payload |-> IF FromClient THEN Mask(payload, key) ELSE payload])
    /\ pc' = "head"
    /\ head' = NoHead
    /\ key' = <<>>
    /\ got' = <<>>
    /\ alloc' = 0

\* The bytes the next read of the payload asks for.
Want ==
    LET owed == head.length - Len(got) IN
    IF ~Whole(head.length) /\ owed > Chunk THEN Chunk ELSE owed

\* What append leaves allocated, the chunk included: the buffer doubles when
\* it is full.
Grown(n) ==
    LET buffer == alloc - Chunk IN
    Chunk + (IF n <= buffer THEN buffer ELSE IF n > 2 * buffer THEN n ELSE 2 * buffer)

\* One round of readPayload, the whole payload when it was allocated at once.
ReadPayload ==
    /\ pc = "payload"
    /\ Arrived(Want)
    /\ Consume(Want)
    /\ LET payload == got \o Values(SubSeq(wire, 1, Want)) IN
       IF Len(payload) = head.length
       THEN Returned(payload)
       ELSE /\ got' = payload
            /\ alloc' = Grown(Len(payload))
            /\ UNCHANGED <<pc, head, key, read>>
    /\ UNCHANGED <<this, ended, err, sent, odd>>

Owed ==
    CASE pc = "head" -> 2
      [] pc = "extended" -> 1
      [] pc = "key" -> KeyLen
      [] pc = "payload" -> Want
      [] OTHER -> 0

\* Mutant: only a stream that ends between two frames has ended.
ReadEndsBetween ==
    /\ ended
    /\ pc = "head"
    /\ ~Arrived(Owed)
    /\ wire' = <<>>
    /\ Fails("EOF")
    /\ UNCHANGED <<this, ended, sent, odd>>

\* The stream ended inside what ReadFrame is reading, or before it.
ReadEnds ==
    /\ ended
    /\ pc # "failed"
    /\ ~Arrived(Owed)
    /\ wire' = <<>>
    /\ Fails("EOF")
    /\ UNCHANGED <<this, ended, sent, odd>>

ReadFrame == ReadHead \/ ReadExtended \/ ReadKey \/ ReadPayload \/ ReadEnds

-----------------------------------------------------------------------------
StrayFirsts == {First(fin, res, op) : fin \in BOOLEAN, res \in BOOLEAN, op \in Written \union {"reserved"}}

\* A second byte and what follows it, with the length in any of the fields.
StrayLengths ==
    {<<n, <<>>>> : n \in Declared \intersect 0..Short}
      \union {<<Short + 1, <<n>>>> : n \in Declared \intersect 0..Medium}
      \union {<<Short + 2, <<n>>>> : n \in Declared}

Next ==
    \/ \E f \in Frames, k \in IF FromClient THEN Keys ELSE {<<>>} : WriteFrame(f, k)
    \/ \E first \in StrayFirsts, masked \in BOOLEAN, l \in StrayLengths :
         Stray(first, Second(masked, l[1]), l[2])
    \/ \E n \in 0..Len(wire) : Cut(n)
    \/ ReadFrame

Spec == Init /\ [][Next]_vars /\ WF_vars(ReadFrame)

-----------------------------------------------------------------------------
(* Properties                                                              *)

\* The lengths ReadFrame goes on with fit an int64, and a payload never
\* outgrows the length it was announced with.
TypeOK ==
    /\ pc \in {"head", "extended", "key", "payload", "failed"}
    /\ head.opcode \in Opcodes
    /\ head.length \in 0..Ceiling
    /\ key \in Keys \union {<<>>}
    /\ got \in Seq({0, 1})
    /\ Len(got) <= head.length
    /\ alloc \in Nat

\* The lengths WriteFrame can write are the lengths ReadFrame takes: what is
\* returned is what was written, payload and mask and all, in that order, with
\* no byte of one frame read as another's.
ReadBack ==
    /\ Len(read) <= Len(sent)
    /\ \A i \in DOMAIN read : read[i] = sent[i]

OddLength == IF odd[3] = <<>> THEN odd[2].length ELSE odd[3][1]

\* What the RFC forbids in a header: a reserved bit or opcode, the wrong mask, a
\* length in a longer field than it needs, a long or a fragmented control frame.
Forbidden ==
    \/ odd[1].reserved
    \/ odd[1].opcode \notin Opcodes
    \/ odd[2].masked # FromClient
    \/ odd[2].length > Short /\ OddLength <= Short
    \/ odd[2].length > Short + 1 /\ OddLength <= Medium
    \/ odd[1].opcode \in Controls /\ (OddLength > Short \/ ~odd[1].final)

\* ReadFrame is at the odd header.
AtOdd == odd # <<>> /\ Len(read) = Len(sent)

\* ReadFrame never waits for the mask or the payload of a frame the RFC
\* forbids, and never returns one.
ForbiddenStops == AtOdd /\ pc \in {"key", "payload"} => ~Forbidden

\* ReadFrame refuses a frame only when the RFC forbids its header, when it is
\* data over the limit, or when its length fits no int64: what WriteFrame wrote
\* within the limit is never refused, a control frame whatever the limit is.
RefusedForCause ==
    err \notin {"none", "EOF"} =>
       \/ /\ Len(read) < Len(sent)
          /\ sent[Len(read) + 1].opcode \in Data
          /\ Limit > 0
          /\ Len(sent[Len(read) + 1].payload) > Limit
       \/ /\ AtOdd
          /\ \/ Forbidden
             \/ odd[1].opcode \in Data /\ Limit > 0 /\ OddLength > Limit
             \/ OddLength > Ceiling

\* The memory a frame takes follows the limit or the bytes that arrived, never
\* the length its header declares.
AllocationBounded ==
    \/ Limit > 0 /\ alloc <= (IF Limit > Short THEN Limit ELSE Short)
    \/ Limit = 0 /\ alloc <= 2 * Len(got) + 2 * Chunk

\* ReadFrame returns the frames WriteFrame wrote. It refuses only what the RFC, the
\* limit or an int64 forbids, reads nothing forbidden past its header, and its
\* memory follows the limit or the bytes that arrived.
FramesExact == TypeOK /\ ReadBack /\ ForbiddenStops /\ RefusedForCause /\ AllocationBounded

\* "A declared length nobody sends the bytes for costs one chunk."
OneChunk == Limit = 0 /\ got = <<>> => alloc <= Chunk

\* ReadFrame returns every frame that was written, and a stream that ends,
\* inside a frame or between two, ends it: it never waits for ever.
EverythingRead ==
    <>[](IF ended THEN pc = "failed" ELSE err # "none" \/ Len(read) = Len(sent))
=============================================================================
