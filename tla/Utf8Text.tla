------------------------------ MODULE Utf8Text ------------------------------
(***************************************************************************)
(* What well-formed UTF-8 is, from the table of the Unicode standard: the  *)
(* reference that the decoders of src/ws are compared with.                *)
(***************************************************************************)
EXTENDS Integers, Sequences

Following == 128..191

\* The well-formed byte sequences, as ranges.
Forms ==
    { <<0..127>>,
      <<194..223, Following>>,
      <<{224}, 160..191, Following>>,
      <<225..236 \union {238, 239}, Following, Following>>,
      <<{237}, 128..159, Following>>,
      <<{240}, 144..191, Following, Following>>,
      <<241..243, Following, Following, Following>>,
      <<{244}, 128..143, Following, Following>> }

\* The bytes of s from i on begin as form f does, for n bytes.
Matches(s, i, f, n) == \A k \in 1..n : s[i + k - 1] \in f[k]

\* From position i on, s is a sequence of forms; the last of them may be cut
\* short where partial holds.
Parses(s, partial) ==
    LET parse[i \in 1..(Len(s) + 1)] ==
          \/ i = Len(s) + 1
          \/ \E f \in Forms :
               \/ /\ i + Len(f) - 1 <= Len(s)
                  /\ Matches(s, i, f, Len(f))
                  /\ parse[i + Len(f)]
               \/ /\ partial
                  /\ Len(s) < i + Len(f) - 1
                  /\ Matches(s, i, f, Len(s) - i + 1)
    IN parse[1]

WellFormed(s) == Parses(s, FALSE)

\* Some continuation of s is well-formed.
Extendable(s) == Parses(s, TRUE)
=============================================================================
