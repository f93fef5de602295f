----------------------------- MODULE CloseReason -----------------------------
(***************************************************************************)
(* The payload of a close frame in src/ws/frame.go: FormatClose cuts a     *)
(* reason that is too long for a control frame, and ParseClose of the peer *)
(* has to take what is left. The reason grows rune by rune.                *)
(***************************************************************************)
EXTENDS Utf8Text

CONSTANTS
    MaxControl,  \* maxControlPayload, scaled
    Runes,       \* the runes of reasons: sequences of bytes
    Codes,       \* the codes a close is sent with
    MaxReason    \* bound: the bytes of a reason

NoStatus == 1005

CloseCodeValid(c) ==
    /\ c \notin {NoStatus, 1006, 1015, 1004}
    /\ c \in 1000..1011 \/ c \in 3000..4999

\* A reason is text, and a close is sent with a code a peer may be sent.
CloseAssumption ==
    /\ MaxControl \in Nat /\ MaxControl > 4
    /\ \A r \in Runes :
         r \in Seq(Nat) /\ \E f \in Forms : Len(r) = Len(f) /\ Matches(r, 1, f, Len(f))
    /\ \A c \in Codes : c = NoStatus \/ CloseCodeValid(c)
    /\ MaxReason \in Nat

VARIABLES code, reason

vars == <<code, reason>>

\* DecodeLastRuneInString finds a whole rune at the end.
EndsWhole(s) ==
    \E f \in Forms : Len(f) <= Len(s) /\ Matches(s, Len(s) - Len(f) + 1, f, Len(f))

\* Mutant: the reason is cut where the room ends.
TruncateBytes(s) == IF Len(s) <= MaxControl - 2 THEN s ELSE SubSeq(s, 1, MaxControl - 2)

\* Mutant: a reason that does not fit is left out.
TruncateAll(s) == IF Len(s) <= MaxControl - 2 THEN s ELSE <<>>

\* The reason in the room it has, without the rune the cut went through.
Truncate(s) ==
    LET room == MaxControl - 2
        trim[n \in 0..room] ==
          IF n = 0 \/ EndsWhole(SubSeq(s, 1, n)) THEN n ELSE trim[n - 1]
    IN IF Len(s) <= room THEN s ELSE SubSeq(s, 1, trim[room])

\* Two bytes of code and the reason, or nothing.
FormatClose(c, s) == IF c = NoStatus THEN <<>> ELSE <<c \div 256, c % 256>> \o Truncate(s)

\* The code, the reason and the error.
ParseClose(p) ==
    LET c == p[1] * 256 + p[2]
        text == SubSeq(p, 3, Len(p))
    IN CASE Len(p) = 0 -> <<NoStatus, <<>>, "none">>
         [] Len(p) = 1 -> <<0, <<>>, "ErrBadCloseCode">>
         [] Len(p) > 1 /\ ~CloseCodeValid(c) -> <<0, <<>>, "ErrBadCloseCode">>
         [] Len(p) > 1 /\ CloseCodeValid(c) /\ ~WellFormed(text) -> <<0, <<>>, "ErrBadUTF8">>
         [] OTHER -> <<c, text, "none">>

Init == code \in Codes /\ reason = <<>>

Say(rune) ==
    /\ Len(reason) + Len(rune) <= MaxReason
    /\ reason' = reason \o rune
    /\ UNCHANGED code

Next == \E rune \in Runes : Say(rune)

Spec == Init /\ [][Next]_vars

-----------------------------------------------------------------------------
Parsed == ParseClose(FormatClose(code, reason))

Prefix(s, t) == Len(s) <= Len(t) /\ s = SubSeq(t, 1, Len(s))

\* A close this server sends is one its peer takes: it fits a control frame,
\* and neither its code nor a reason cut short fails the peer's checks.
PeerTakesIt ==
    /\ Len(FormatClose(code, reason)) <= MaxControl
    /\ Parsed[1] = code /\ Parsed[3] = "none"

\* The peer reads the reason that was given, or as much of it as fits: at most
\* three bytes, the rest of a rune, are lost besides what does not fit.
ReasonKept ==
    LET room == MaxControl - 2 IN
    code # NoStatus =>
       /\ Prefix(Parsed[2], reason)
       /\ Len(Parsed[2]) = Len(reason) \/ Len(Parsed[2]) >= room - 3
=============================================================================
