-------------------------------- MODULE Utf8 --------------------------------
(***************************************************************************)
(* The incremental UTF-8 check of src/ws/utf8.go, byte by byte, against    *)
(* what well-formed UTF-8 is (Utf8Text).                                   *)
(* A frame boundary is nothing to the validator, whose state is kept over  *)
(* it, so a message is the sequence of its bytes however it was split.     *)
(***************************************************************************)
EXTENDS Utf8Text

CONSTANTS
    Bytes,    \* the bytes a peer sends
    MaxBytes  \* bound: the length of a message

Utf8Assumption ==
    /\ Bytes \subseteq 0..255
    /\ MaxBytes \in Nat

VARIABLES
    pending,  \* continuation bytes still owed
    value,    \* the code point assembled so far
    need,     \* the length of the rune in progress
    bad,      \* latched: the message is not UTF-8
    text      \* history: the bytes of the message so far

vars == <<pending, value, need, bad, text>>

Surrogates == 55296..57343           \* 0xd800..0xdfff
MaxRune == 1114111                   \* 0x10ffff
Values == {v \in Nat : v < 2097152}  \* what four bytes carry

MinForLength(n) == CASE n = 2 -> 128 [] n = 3 -> 2048 [] n = 4 -> 65536

Init ==
    /\ pending = 0
    /\ value = 0
    /\ need = 0
    /\ bad = FALSE
    /\ text = <<>>

\* The length a first byte announces: 1 for ASCII, 0 for a byte that begins
\* nothing, and the bits of the code point it carries.
Announced(c) ==
    CASE c < 128 -> 1
      [] c \in 192..223 -> 2
      [] c \in 224..239 -> 3
      [] c \in 240..247 -> 4
      [] OTHER -> 0

Carried(c) == c % (CASE Announced(c) = 2 -> 32 [] Announced(c) = 3 -> 16 [] OTHER -> 8)

\* A byte where a rune begins.
First(c) ==
    /\ pending = 0
    /\ bad' = (Announced(c) = 0)
    /\ IF Announced(c) > 1
       THEN /\ pending' = Announced(c) - 1
            /\ need' = Announced(c)
            /\ value' = Carried(c)
       ELSE UNCHANGED <<pending, need, value>>

\* Mutant: surrogate halves are code points like any other.
WrongAny(v) == v < MinForLength(need) \/ v > MaxRune

\* Mutant: the last code point is refused too.
WrongLast(v) == v < MinForLength(need) \/ v \in Surrogates \/ v >= MaxRune

\* What can be wrong with a complete rune.
Wrong(v) == v < MinForLength(need) \/ v \in Surrogates \/ v > MaxRune

\* A byte inside a rune.
Continue(c) ==
    /\ pending > 0
    /\ IF c \notin 128..191
       THEN /\ bad' = TRUE
            /\ UNCHANGED <<pending, value>>
       ELSE /\ value' = value * 64 + (c % 64)
            /\ pending' = pending - 1
            /\ bad' = (pending = 1 /\ Wrong(value * 64 + (c % 64)))
    /\ UNCHANGED need

\* One round of write's loop. A message found bad ends the connection.
Write(c) ==
    /\ ~bad
    /\ Len(text) < MaxBytes
    /\ First(c) \/ Continue(c)
    /\ text' = Append(text, c)

\* complete: the message may end here.
Complete == ~bad /\ pending = 0

\* The message ends and the next one begins with reset.
Reset ==
    /\ Complete
    /\ Len(text) > 0
    /\ pending' = 0
    /\ value' = 0
    /\ need' = 0
    /\ bad' = FALSE
    /\ text' = <<>>

Next == (\E c \in Bytes : Write(c)) \/ Reset

Spec == Init /\ [][Next]_vars

-----------------------------------------------------------------------------
\* A rune owes at most three bytes, and fewer than it has.
TypeOK ==
    /\ pending \in 0..3
    /\ value \in Values
    /\ need \in {0, 2, 3, 4}
    /\ bad \in BOOLEAN
    /\ pending > 0 => pending < need

\* A message may end exactly where it is well-formed UTF-8, overlong forms,
\* surrogates, retired lengths and truncated runes excluded.
CompleteIsWellFormed == Complete <=> WellFormed(text)

\* Nothing is refused that could still become well-formed.
RefusesOnlyBad == bad => ~Extendable(text)

\* A message is refused at the first byte that makes it hopeless.
RefusesAtOnce == ~bad => Extendable(text)
=============================================================================
