------------------------------ MODULE MCClient ------------------------------
(* Instances of Client for TLC.                                             *)
EXTENDS Client

CONSTANTS g, p

\* A page with a guarded and a public channel that cannot abort a request; one that
\* meets two faults; and two that connect from inside their listeners, the second
\* with no channel and as many sockets as it takes to have two timers due.
MCBounds ==
    {[names |-> {g, p}, sockets |-> 3, calls |-> 4, faults |-> 1, aborts |-> FALSE, reentrant |-> FALSE],
     [names |-> {g}, sockets |-> 4, calls |-> 3, faults |-> 2, aborts |-> TRUE, reentrant |-> FALSE],
     [names |-> {g}, sockets |-> 3, calls |-> 2, faults |-> 1, aborts |-> FALSE, reentrant |-> TRUE],
     [names |-> {}, sockets |-> 4, calls |-> 2, faults |-> 2, aborts |-> FALSE, reentrant |-> TRUE]}

=============================================================================
