---------------------------- MODULE RateLimiter ----------------------------
(***************************************************************************)
(* The token bucket in front of one socket's frames: rateLimiter of        *)
(* src/server.go. Beside it stand what only the properties read: an exact  *)
(* bucket, which earns continuously and is counted in units of time, and   *)
(* an observer who counts the frames let through from any instant on.      *)
(***************************************************************************)
EXTENDS Integers

CONSTANTS
    Limits,     \* the settings of MaxMessagesPerSecond; 0 is none
    Second,     \* units of the clock in a second
    MaxTime,    \* bound: the clock stops here
    MaxFrames   \* bound: frames an observer counts

ASSUME RateAssumption ==
    /\ Limits \subseteq Nat
    /\ Second \in Nat \ {0}
    /\ MaxTime \in Nat
    /\ MaxFrames \in Nat

VARIABLES
    limit,    \* rateLimiter.limit; 0 meters nothing
    tokens,   \* rateLimiter.tokens
    filled,   \* rateLimiter.filled
    now,      \* the clock
    credit,   \* what the exact bucket holds, in units of the clock
    since,    \* when the observer began
    passed    \* frames let through since then

rateVars == <<limit, tokens, filled, now, credit, since, passed>>

\* newRateLimiter: a limit so fine that a frame costs nothing is no limit.
Effective(l) == IF l = 0 \/ Second \div l = 0 THEN 0 ELSE l

\* rateLimiter.cost.
Cost == IF limit = 0 THEN 0 ELSE Second \div limit

RateInit ==
    /\ limit \in {Effective(l) : l \in Limits}
    /\ tokens = limit
    /\ filled = 0
    /\ now = 0
    /\ credit = limit * Cost
    /\ since = 0
    /\ passed = 0

\* Time passes. The exact bucket earns as it does.
Tick ==
    /\ now < MaxTime
    /\ now' = now + 1
    /\ credit' = IF credit < limit * Cost THEN credit + 1 ELSE credit
    /\ UNCHANGED <<limit, tokens, filled, since, passed>>

\* The observer starts afresh.
Observe ==
    /\ since' = now
    /\ passed' = 0
    /\ UNCHANGED <<limit, tokens, filled, now, credit>>

Earned == (now - filled) \div Cost

\* Mutant: the fraction of a token not yet earned is thrown away.
RefillFromNow ==
    IF now - filled < Cost THEN <<tokens, filled>>
    ELSE <<IF Earned < limit - tokens THEN tokens + Earned ELSE limit, now>>

\* Mutant: what was earned is paid out without moving the instant.
RefillAgain ==
    IF now - filled < Cost THEN <<tokens, filled>>
    ELSE IF Earned < limit - tokens THEN <<tokens + Earned, filled>>
    ELSE <<limit, now>>

\* Mutant: an idle socket keeps its credit.
RefillUncapped ==
    IF now - filled < Cost THEN <<tokens, filled>>
    ELSE <<tokens + Earned, filled + Earned * Cost>>

\* The tokens and the instant after a refill: whole tokens, the rest of the time
\* kept, and no more than the bucket holds.
Refill ==
    IF now - filled < Cost THEN <<tokens, filled>>
    ELSE IF Earned < limit - tokens THEN <<tokens + Earned, filled + Earned * Cost>>
    ELSE <<limit, now>>

\* A frame arrives while nothing is metered.
AllowUnmetered ==
    /\ limit = 0
    /\ passed < MaxFrames
    /\ passed' = passed + 1
    /\ UNCHANGED <<limit, tokens, filled, now, credit, since>>

\* A frame arrives and there is a token for it.
AllowMetered ==
    /\ limit > 0
    /\ Refill[1] > 0
    /\ passed < MaxFrames
    /\ tokens' = Refill[1] - 1
    /\ filled' = Refill[2]
    /\ credit' = IF credit > Cost THEN credit - Cost ELSE 0
    /\ passed' = passed + 1
    /\ UNCHANGED <<limit, now, since>>

\* A frame arrives and there is none: the client is told and the socket stays.
Refuse ==
    /\ limit > 0
    /\ Refill[1] = 0
    /\ tokens' = 0
    /\ filled' = Refill[2]
    /\ UNCHANGED <<limit, now, credit, since, passed>>

RateNext == Tick \/ Observe \/ AllowUnmetered \/ AllowMetered \/ Refuse

RateSpec == RateInit /\ [][RateNext]_rateVars

-----------------------------------------------------------------------------
(* Properties                                                              *)

\* The bucket never holds more than the limit ("never exceeds limit") and was
\* never filled in the future; a limit that meters charges at least one unit.
RateTypeOK ==
    /\ limit \in Nat
    /\ limit > 0 => Cost > 0
    /\ tokens \in 0..limit
    /\ filled \in 0..now
    /\ now \in 0..MaxTime
    /\ credit \in 0..(limit * Cost)
    /\ since \in 0..now
    /\ passed \in 0..MaxFrames

\* Counting from any instant, the frames let through are a full bucket and what
\* the time since buys, and at most one more, for the fraction of a token the
\* bucket held besides.
NeverOverspent ==
    limit > 0 => passed <= limit + ((now - since) \div Cost) + 1

\* Rounding never costs a client a frame: whenever an exact bucket charged for
\* the same frames could pay for one, allow lets it through.
NeverShortChanged ==
    (limit > 0 /\ credit >= Cost) => Refill[1] > 0
=============================================================================
