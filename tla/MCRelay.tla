------------------------------- MODULE MCRelay -------------------------------
(* Relay for TLC: two instances; the sockets of each.                        *)
EXTENDS Relay

CONSTANTS a, b, a1, b1

MCHome == [s \in Sockets |-> IF s = b1 THEN b ELSE a]

\* Both instances with nothing going wrong; one whose bus fails and which closes;
\* and one that listens while somebody else writes on its topic.
MCBounds ==
    { [sockets |-> {a1, b1}, entries |-> {a}, stops |-> {}, outages |-> 0, strays |-> 0],
      [sockets |-> {a1}, entries |-> {a}, stops |-> {a}, outages |-> 1, strays |-> 0],
      [sockets |-> {b1}, entries |-> {a}, stops |-> {}, outages |-> 0, strays |-> 1] }

=============================================================================
