----------------------------- MODULE MCChannel -----------------------------
(* Channel for TLC: two tabs of one person, one of which may leave its       *)
(* channel_data out, and a tab of another who may also come as the first.    *)
EXTENDS Channel, TLC

CONSTANTS ana, bia, a1, a2, b1, p, q

MCOffers == (a1 :> {ana}) @@ (a2 :> {ana, NoMember}) @@ (b1 :> {bia, ana})

\* A presence channel people come to and leave, a cache channel two publishers
\* write, one that is both, and a presence channel two sockets come back to.
MCChannels ==
    { [presence |-> TRUE, cache |-> FALSE, sockets |-> {a1, a2, b1}, publishers |-> {},
       events |-> 0, joins |-> 2, failures |-> 1],
      [presence |-> FALSE, cache |-> TRUE, sockets |-> {a1, b1}, publishers |-> {p, q},
       events |-> 2, joins |-> 2, failures |-> 1],
      [presence |-> TRUE, cache |-> TRUE, sockets |-> {a2, b1}, publishers |-> {p},
       events |-> 1, joins |-> 2, failures |-> 1],
      [presence |-> TRUE, cache |-> FALSE, sockets |-> {a2, b1}, publishers |-> {},
       events |-> 0, joins |-> 3, failures |-> 1] }

=============================================================================
