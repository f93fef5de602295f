------------------------------- MODULE MCFleet -------------------------------
(* Fleet for TLC: where each socket is, whose it is, and what is asked.      *)
EXTENDS Fleet

CONSTANTS a, b, c, b1, b2, c1, a1, r1, r2, r3, acme, globex, ana, bruno

\* b1 and c1 are tabs of one person, b2 is of another tenant.
MCHome == [s \in Sockets |-> IF s = a1 THEN a ELSE IF s = c1 THEN c ELSE b]

MCTenant == [s \in Sockets |-> IF s = b2 THEN globex ELSE acme]

MCUser == [s \in Sockets |-> IF s \in {b1, c1} THEN ana ELSE bruno]

MCAsker == [r \in Requests |-> a]

MCAbout == [r \in Requests |-> acme]

MCRoute == [r \in Requests |-> IF r = r3 THEN "one" ELSE "list"]

\* A question to two other instances; two questions, the first one's answer late;
\* and a question about one channel over a bus that loses and refuses, to an
\* instance that holds another tenant's socket too.
MCBounds ==
    { [instances |-> {a, b, c}, sockets |-> {b1, c1}, requests |-> {r1}, losses |-> 0, refusals |-> 0],
      [instances |-> {a, b}, sockets |-> {b1}, requests |-> {r1, r2}, losses |-> 0, refusals |-> 0],
      [instances |-> {a, b}, sockets |-> {a1, b1, b2}, requests |-> {r3}, losses |-> 1, refusals |-> 1] }

=============================================================================
