----------------------------- MODULE MCProcess ------------------------------
(***************************************************************************)
(* The process around the server and the token bucket in front of a        *)
(* socket's frames for TLC. They share no state: a behaviour is about one  *)
(* part, chosen at the start, and the other's variables keep their first   *)
(* values. A client may name the other one, a trusted proxy, or nothing    *)
(* that is an address, and may have a peer that net/http cannot report.    *)
(***************************************************************************)
EXTENDS Process, RateLimiter

CONSTANTS c1, c2, t, u

VARIABLE part  \* the part a behaviour is about

Socket(client, via, forged) ==
    [kind |-> "socket", client |-> client, via |-> via, forged |-> forged, addressed |-> TRUE]

MCAsks ==
    { Socket(c1, <<>>, <<c2>>), Socket(c1, <<t>>, <<c2, t>>), Socket(c1, <<u, t>>, <<>>),
      Socket(c2, <<t>>, <<c1, Garbage>>), Socket(c2, <<t, u>>, <<c1>>),
      [Socket(c2, <<>>, <<>>) EXCEPT !.addressed = FALSE],
      [Socket(c1, <<>>, <<>>) EXCEPT !.kind = "api"] }

-----------------------------------------------------------------------------
MCInit ==
    /\ part \in {"process", "bucket"}
    /\ Init /\ RateInit
    /\ part = "process" => limit = 0

OfProcess == part = "process" /\ Next /\ UNCHANGED <<part, rateVars>>

OfBucket == part = "bucket" /\ RateNext /\ UNCHANGED <<part, vars>>

MCNext == OfProcess \/ OfBucket

MCSpec == MCInit /\ [][MCNext]_<<part, vars, rateVars>> /\ Fairness

=============================================================================
