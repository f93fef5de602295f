------------------------------ MODULE EdgeProofs ------------------------------
(***************************************************************************)
(* Proofs about what a connection goes through before and around the       *)
(* server: the process with its limit of sockets per address and its       *)
(* shutdown (Process), the token bucket in front of a socket's frames      *)
(* (RateLimiter), and package ws (Ws): frames on a byte stream (Frame),    *)
(* the connection read by one goroutine and written by several (Conn), the *)
(* handshake that opens it (Handshake), and the text of its messages and   *)
(* of the reason it closes with (Utf8, CloseReason). The parts share no    *)
(* state. The lemmas about frames, connections and handshakes take the     *)
(* assumption of their part as a hypothesis; the theorems at the end of    *)
(* each section rest on WsAssumption.                                      *)
(***************************************************************************)
EXTENDS Process, RateLimiter, Ws, FiniteSetTheorems, SequenceTheorems, TLAPS

-----------------------------------------------------------------------------
(* Process, for any requests, any chain of proxies and any header. The     *)
(* address a request is counted against: reading the header from the right,*)
(* up to the first hop that is not trusted, finds the same address as      *)
(* following the connection back, so nothing a client writes in it matters.*)
(* Then that the map of counts is exact, and that a request in flight at a *)
(* shutdown is answered before the process ends.                           *)

\* Some natural numbers have a least one.
LEMMA LeastExists ==
    ASSUME NEW S, S \subseteq Nat, S # {}
    PROVE  \E x \in S : \A y \in S : x <= y
<1> DEFINE R == OpToRel(<, Nat)
<1>1. \A x, y \in Nat : <<x, y>> \in R <=> x < y
  BY DEF OpToRel
<1>2. IsWellFoundedOn(R, Nat)
  BY NatLessThanWellFounded, Zenon
<1> HIDE DEF R
<1>3. PICK x \in S : \A y \in S : ~(<<y, x>> \in R)
  BY <1>2, WFMin
<1>4. ASSUME NEW y \in S PROVE x <= y
  <2>1. x \in Nat /\ y \in Nat /\ ~(<<y, x>> \in R)
    BY <1>3
  <2>2. ~(y < x)
    BY <1>1, <2>1
  <2> QED
    BY <2>1, <2>2
<1> QED
  BY <1>3, <1>4

\* Last is the greatest of some of the numbers up to n.
LEMMA LastIs ==
    ASSUME NEW n \in Nat, NEW S, S \subseteq 1..n, S # {}
    PROVE  Last(S) \in S /\ \A j \in S : j <= Last(S)
<1> DEFINE D == {n - i : i \in S}
<1>1. D \subseteq Nat
  <2> SUFFICES ASSUME NEW i \in S PROVE n - i \in Nat
    OBVIOUS
  <2>1. i \in 1..n
    OBVIOUS
  <2> QED
    BY <2>1
<1>2. D # {}
  OBVIOUS
<1>3. PICK x \in D : \A y \in D : x <= y
  BY <1>1, <1>2, LeastExists
<1>4. PICK i \in S : x = n - i
  OBVIOUS
<1>5. ASSUME NEW j \in S PROVE j <= i
  <2>1. i \in 1..n /\ j \in 1..n /\ n - i <= n - j
    BY <1>3, <1>4
  <2> QED
    BY <2>1
<1> QED
  BY <1>5 DEF Last

\* The greatest is the one Last picks.
LEMMA LastUnique ==
    ASSUME NEW S, S \subseteq Nat, NEW x \in S, \A j \in S : j <= x
    PROVE  Last(S) = x
<1>1. Last(S) \in S /\ \A j \in S : j <= Last(S)
  BY DEF Last
<1>2. Last(S) \in Nat /\ x \in Nat /\ Last(S) <= x /\ x <= Last(S)
  BY <1>1
<1> HIDE DEF Last
<1> QED
  BY <1>2

\* The places of one list after another.
LEMMA ConcatPlaces ==
    ASSUME NEW A, NEW s \in Seq(A), NEW t \in Seq(A)
    PROVE  /\ Len(s \o t) = Len(s) + Len(t)
           /\ DOMAIN (s \o t) = 1..(Len(s) + Len(t))
           /\ \A i \in 1..Len(s) : (s \o t)[i] = s[i]
           /\ \A i \in 1..Len(t) : (s \o t)[Len(s) + i] = t[i]
<1>1. Len(s) \in Nat /\ Len(t) \in Nat /\ Len(s \o t) = Len(s) + Len(t)
      /\ DOMAIN (s \o t) = 1..(Len(s) + Len(t))
  OBVIOUS
<1>2. ASSUME NEW i \in 1..Len(s) PROVE (s \o t)[i] = s[i]
  BY <1>1
<1>3. ASSUME NEW i \in 1..Len(t) PROVE (s \o t)[Len(s) + i] = t[i]
  BY <1>1
<1> QED
  BY <1>1, <1>2, <1>3

\* The places of a list that hold no trusted proxy.
Strange(s) == {i \in DOMAIN s : s[i] \notin Trusted}

\* The header of a request that came through n proxies w, after F entries the client
\* wrote itself: those, the client, and the proxies but for the last.
HeaderOf(hops, F, n, client, w) ==
    /\ DOMAIN hops = 1..(F + n)
    /\ hops[F + 1] = client
    /\ \A i \in 1..(n - 1) : hops[F + 1 + i] = w[i]

\* Where forwardedFor puts them.
LEMMA Hops ==
    ASSUME NEW A, NEW f \in Seq(A), NEW c \in A, NEW w \in Seq(A), w # <<>>
    PROVE  HeaderOf(f \o <<c>> \o SubSeq(w, 1, Len(w) - 1), Len(f), Len(w), c, w)
<1>1. ASSUME NEW fc \in Seq(A), NEW v \in Seq(A), NEW F \in Nat, NEW n \in Nat,
             Len(fc) = F + 1, fc[F + 1] = c, Len(v) = n - 1, \A i \in 1..(n - 1) : v[i] = w[i]
      PROVE  HeaderOf(fc \o v, F, n, c, w)
  <2>1. /\ DOMAIN (fc \o v) = 1..(Len(fc) + Len(v))
        /\ \A i \in 1..Len(fc) : (fc \o v)[i] = fc[i]
        /\ \A i \in 1..Len(v) : (fc \o v)[Len(fc) + i] = v[i]
    BY ConcatPlaces
  <2>2. Len(fc) + Len(v) = F + n
    BY <1>1
  <2>3. DOMAIN (fc \o v) = 1..(F + n)
    BY <2>1, <2>2
  <2>4. (fc \o v)[F + 1] = c
    BY <1>1, <2>1
  <2>5. \A i \in 1..(n - 1) : (fc \o v)[F + 1 + i] = w[i]
    BY <1>1, <2>1
  <2> QED
    BY <2>3, <2>4, <2>5 DEF HeaderOf
<1>2. Len(f) \in Nat /\ Len(w) \in Nat /\ Len(w) > 0
  OBVIOUS
<1>3. f \o <<c>> \in Seq(A) /\ Len(f \o <<c>>) = Len(f) + 1 /\ (f \o <<c>>)[Len(f) + 1] = c
  OBVIOUS
<1>4. /\ SubSeq(w, 1, Len(w) - 1) \in Seq(A) /\ Len(SubSeq(w, 1, Len(w) - 1)) = Len(w) - 1
      /\ \A i \in 1..(Len(w) - 1) : SubSeq(w, 1, Len(w) - 1)[i] = w[i]
  <2> DEFINE k == Len(w) - 1
             v == SubSeq(w, 1, k)
  <2>1. k \in Nat /\ \A i \in 1..k : w[i] \in A
    BY <1>2
  <2> HIDE DEF k
  <2>2. /\ v \in Seq(A)
        /\ Len(v) = IF 1 <= k THEN k - 1 + 1 ELSE 0
        /\ \A i \in 1..(k - 1 + 1) : v[i] = w[1 + i - 1]
    <3>1. 1 \in Int /\ k \in Int
      BY <2>1
    <3> QED
      BY <2>1, <3>1, SubSeqProperties
  <2> HIDE DEF v
  <2>3. Len(v) = k /\ \A i \in 1..k : v[i] = w[i]
    BY <2>1, <2>2
  <2> QED
    BY <2>2, <2>3 DEF k, v
<1> QED
  BY <1>1, <1>2, <1>3, <1>4

\* Beyond what the client wrote, the hops that are not trusted are the client and
\* the proxies that are not; the last of them is the one nearest to this process.
LEMMA LastHop ==
    ASSUME NEW hops, NEW F \in Nat, NEW n \in Nat \ {0}, NEW client, NEW w,
           HeaderOf(hops, F, n, client, w), DOMAIN w = 1..n,
           client \notin Trusted, w[n] \in Trusted
    PROVE  /\ Strange(hops) # {}
           /\ hops[Last(Strange(hops))] = IF Strange(w) = {} THEN client ELSE w[Last(Strange(w))]
<1> DEFINE far == Strange(hops)
           near == Strange(w)
<1>0. far = {i \in DOMAIN hops : hops[i] \notin Trusted} /\ near = {i \in 1..n : w[i] \notin Trusted}
  BY DEF Strange
<1> HIDE DEF far, near
<1>1. F + 1 \in far /\ far \subseteq Nat
  BY <1>0 DEF HeaderOf
<1>2. ASSUME NEW i \in far, i > F + 1
      PROVE  i - (F + 1) \in near /\ i - (F + 1) \in Nat
  <2>1. i \in 1..(F + n) /\ hops[i] \notin Trusted
    BY <1>0 DEF HeaderOf
  <2>2. i - (F + 1) \in 1..(n - 1) /\ F + 1 + (i - (F + 1)) = i
    BY <1>2, <2>1
  <2>3. hops[i] = w[i - (F + 1)]
    BY <2>2 DEF HeaderOf
  <2> QED
    BY <1>0, <2>1, <2>2, <2>3
<1>3. CASE near = {}
  <2>1. \A i \in far : i <= F + 1
    BY <1>1, <1>2, <1>3
  <2>2. Last(far) = F + 1
    BY <1>1, <2>1, LastUnique
  <2> QED
    BY <1>1, <1>3, <2>2 DEF HeaderOf, far, near
<1>4. CASE near # {}
  <2> DEFINE x == Last(near)
  <2>1. x \in near /\ \A j \in near : j <= x
    BY <1>0, <1>4, LastIs
  <2> HIDE DEF x
  <2>2. x \in 1..(n - 1) /\ w[x] \notin Trusted
    <3>1. x \in 1..n /\ x # n
      BY <1>0, <2>1
    <3> QED
      BY <1>0, <2>1, <3>1
  <2>3. F + 1 + x \in 1..(F + n) /\ hops[F + 1 + x] = w[x]
    BY <2>2 DEF HeaderOf
  <2>4. F + 1 + x \in far
    BY <1>0, <2>2, <2>3 DEF HeaderOf
  <2>5. \A i \in far : i <= F + 1 + x
    <3> SUFFICES ASSUME NEW i \in far PROVE i <= F + 1 + x
      OBVIOUS
    <3>1. CASE i > F + 1
      BY <1>1, <1>2, <2>1, <2>2, <3>1
    <3>2. CASE ~(i > F + 1)
      BY <1>1, <2>2, <3>2
    <3> QED
      BY <3>1, <3>2
  <2>6. Last(far) = F + 1 + x
    BY <1>1, <2>4, <2>5, LastUnique
  <2> QED
    BY <1>4, <2>3, <2>4, <2>6 DEF x, far, near
<1> QED
  BY <1>1, <1>3, <1>4 DEF far, near

\* client (addresslimit.go) finds who is on the other end as far as trusted proxies
\* vouch: the client, or the nearest proxy that is not trusted, whatever the client
\* wrote in X-Forwarded-For and however long the way was.
THEOREM ClientIsVouched ==
    ASSUME NEW q, AskType(q)
    PROVE  Client(q) = Vouched(q) /\ Client(q) \in Addresses
<1> DEFINE n == Len(q.via)
           hops == forwardedFor(q)
           far == Strange(hops)
           near == Strange(q.via)
<1>0. /\ q.client \in Clients /\ q.client \notin Trusted /\ q.client # Garbage
      /\ q.via \in Seq(Proxies) /\ q.forged \in Seq(Addresses \union {Garbage})
      /\ Garbage \notin Proxies
  BY ProcessAssumption DEF AskType, Addresses
<1>1. n \in Nat /\ DOMAIN q.via = 1..n
  BY <1>0
<1>2. CASE q.via = <<>>
  <2>1. Peer(q) = q.client /\ near = {}
    BY <1>2 DEF Peer, Strange
  <2> QED
    BY <1>0, <2>1 DEF Client, Vouched, Addresses, Strange
<1>3. CASE q.via # <<>> /\ q.via[n] \notin Trusted
  <2>1. n # 0 /\ n \in near /\ Peer(q) = q.via[n] /\ q.via[n] \in Proxies
    BY <1>0, <1>1, <1>3 DEF Peer, Strange
  <2>2. near \subseteq Nat /\ \A j \in near : j <= n
    BY <1>1 DEF Strange
  <2>3. Last(near) = n
    <3> HIDE DEF near, n
    <3> QED
      BY <2>1, <2>2, LastUnique
  <2> QED
    BY <1>0, <1>3, <2>1, <2>3 DEF Client, Vouched, Addresses, Strange
<1>4. CASE q.via # <<>> /\ q.via[n] \in Trusted
  <2> DEFINE F == Len(q.forged)
             A == Addresses \union {Garbage}
  <2>1. q.forged \in Seq(A) /\ q.via \in Seq(A) /\ q.client \in A /\ F \in Nat /\ n \in Nat \ {0}
    BY <1>0, <1>4 DEF Addresses
  <2>2. HeaderOf(hops, F, n, q.client, q.via)
    <3>1. hops = q.forged \o <<q.client>> \o SubSeq(q.via, 1, Len(q.via) - 1)
      BY <1>4 DEF forwardedFor
    <3> HIDE DEF A
    <3> QED
      BY <1>4, <2>1, <3>1, Hops
  <2>3. far # {} /\ hops[Last(far)] = IF near = {} THEN q.client ELSE q.via[Last(near)]
    <3> HIDE DEF hops, F, n
    <3> QED
      BY <1>0, <1>1, <1>4, <2>1, <2>2, LastHop
  <2>4. Vouched(q) = hops[Last(far)]
    BY <2>3 DEF Vouched, Strange
  <2>5. Vouched(q) \in Addresses
    <3>1. near # {} => Last(near) \in near
      <4>1. near \subseteq 1..n
        BY <1>1 DEF Strange
      <4> HIDE DEF near, n
      <4> QED
        BY <1>1, <4>1, LastIs
    <3>2. CASE near = {}
      BY <1>0, <3>2 DEF Vouched, Addresses, Strange
    <3>3. CASE near # {}
      <4>1. Vouched(q) = q.via[Last(near)] /\ Last(near) \in DOMAIN q.via
        BY <3>1, <3>3 DEF Vouched, Strange
      <4> HIDE DEF near
      <4> QED
        BY <1>0, <4>1 DEF Addresses
    <3> QED
      BY <3>2, <3>3
  <2>6. hops[Last(far)] # Garbage
    BY <2>4, <2>5, ProcessAssumption
  <2>7. Peer(q) \in Trusted
    BY <1>4 DEF Peer
  <2>8. Client(q) = hops[Last(far)]
    BY <2>3, <2>6, <2>7 DEF Client, Strange
  <2> QED
    BY <2>4, <2>5, <2>8
<1> QED
  BY <1>2, <1>3, <1>4

-----------------------------------------------------------------------------
(* The inductive invariant                                                 *)

\* The stages in which a request that is counted holds its slot.
Slots == {"handler", "answered", "socket", "leaving"}

\* What the stage of a request says of what it asked and what it is counted against.
StageOf(r) ==
    /\ at[r] # "none" => asked[r] \in Asks
    /\ at[r] \in {"none", "arrived"} => counted[r] = Nobody
    /\ at[r] \in {"socket", "leaving"} => asked[r].kind = "socket"
    /\ at[r] \in Slots =>
          counted[r] = IF Uncounted(r) THEN Nobody ELSE Client(asked[r])

\* The inductive invariant.
IInv ==
    /\ TypeOK
    /\ CountExact
    /\ \A r \in Requests : StageOf(r)

\* The requests that hold a slot of an address are finitely many.
LEMMA HoldingFinite ==
    ASSUME NEW a
    PROVE  IsFiniteSet(Holding(a)) /\ Cardinality(Holding(a)) \in Nat
<1>1. Holding(a) \subseteq Requests
  BY DEF Holding
<1> QED
  BY <1>1, ProcessAssumption, FS_Subset, FS_CardinalityType

\* An address is none of those a request is not counted against.
LEMMA NobodyApart == Nobody \notin Addresses
BY ProcessAssumption

\* The invariant holds before any request.
LEMMA InitIInv == Init => IInv
<1> SUFFICES ASSUME Init PROVE IInv
  OBVIOUS
<1>1. DOMAIN open = {}
  BY DEF Init
<1>2. ASSUME NEW a PROVE Holding(a) = {} /\ Held(a) = 0
  BY <1>1 DEF Init, Holding, Held
<1>3. CountExact
  BY <1>1, <1>2, FS_EmptySet DEF CountExact
<1>4. TypeOK
  BY <1>1 DEF Init, TypeOK
<1>5. ASSUME NEW r \in Requests PROVE StageOf(r)
  BY DEF Init, StageOf, Slots
<1> QED
  BY <1>3, <1>4, <1>5 DEF IInv

-----------------------------------------------------------------------------
(* The steps                                                               *)

\* A step that changes no slot.
Aside(r) == Pass(r) \/ Upgrade(r) \/ Return(r)

\* A socket that is turned away.
Refused(r) ==
    /\ at[r] = "arrived"
    /\ at' = [at EXCEPT ![r] = "done"]
    /\ UNCHANGED <<open, asked, counted>>

\* A socket that is counted against the address a.
Counted(r, a) ==
    /\ at[r] = "arrived"
    /\ ~Uncounted(r)
    /\ a = Client(asked[r])
    /\ Held(a) < Limit
    /\ at' = [at EXCEPT ![r] = "handler"]
    /\ open' = Raised(a)
    /\ counted' = [counted EXCEPT ![r] = a]
    /\ UNCHANGED asked

\* What an address holds is a number, and within the limit.
LEMMA HeldType ==
    ASSUME TypeOK, NEW a \in Addresses
    PROVE  Held(a) \in 0..Limit
BY ProcessAssumption DEF TypeOK, Held

\* Take turns a socket away or counts it.
LEMMA TakeCases ==
    ASSUME IInv, NEW r \in Requests, Take(r)
    PROVE  Refused(r) \/ \E a \in Addresses : Counted(r, a)
<1> DEFINE a == Client(asked[r])
<1>1. asked[r] \in Asks
  BY DEF IInv, StageOf, Take
<1>2. a \in Addresses
  BY <1>1, ProcessAssumption, ClientIsVouched
<1> HIDE DEF a
<1>3. Held(a) \in 0..Limit /\ Limit \in Nat
  BY <1>2, HeldType, ProcessAssumption DEF IInv
<1>4. CASE Held(a) >= Limit
  BY <1>4 DEF Take, Refused, a
<1>5. CASE ~(Held(a) >= Limit)
  <2>1. Held(a) < Limit
    BY <1>3, <1>5
  <2>2. Counted(r, a)
    BY <1>5, <2>1 DEF Take, Counted, a
  <2> QED
    BY <1>2, <2>2
<1> QED
  BY <1>4, <1>5

\* A step is one of the operations, and those of the shutdown touch no slot.
LEMMA StepCases ==
    ASSUME IInv, [Next]_vars
    PROVE  \/ \E r \in Requests, q \in Asks : Arrives(r, q)
           \/ \E r \in Requests : Refused(r) \/ Aside(r) \/ Release(r)
           \/ \E r \in Requests, a \in Addresses : Counted(r, a)
           \/ UNCHANGED conns
BY TakeCases DEF Next, Aside, Signal, SecondSignal, ListenerStops, Deadline,
                       ShutdownReturns, Exit, vars, conns

\* What the stages say goes on being so.
LEMMA StageStep == IInv /\ [Next]_vars => \A p \in Requests : StageOf(p)'
<1> SUFFICES ASSUME IInv, [Next]_vars, NEW p \in Requests PROVE StageOf(p)'
  OBVIOUS
<1>0. TypeOK /\ StageOf(p)
  BY DEF IInv
<1> USE DEF StageOf, Slots, TypeOK, Uncounted
<1>1. ASSUME NEW r \in Requests, NEW q \in Asks, Arrives(r, q) PROVE StageOf(p)'
  BY <1>0, <1>1 DEF Arrives
<1>2. ASSUME NEW r \in Requests, Refused(r) PROVE StageOf(p)'
  BY <1>0, <1>2 DEF Refused
<1>3. ASSUME NEW r \in Requests, Aside(r) PROVE StageOf(p)'
  BY <1>0, <1>3 DEF Aside, Pass, Upgrade, Return
<1>4. ASSUME NEW r \in Requests, Release(r) PROVE StageOf(p)'
  BY <1>0, <1>4 DEF Release
<1>5. ASSUME NEW r \in Requests, NEW a \in Addresses, Counted(r, a) PROVE StageOf(p)'
  BY <1>0, <1>5 DEF Counted
<1>6. CASE UNCHANGED conns
  BY <1>0, <1>6 DEF conns
<1> HIDE DEF StageOf, TypeOK, Uncounted
<1> QED
  BY <1>1, <1>2, <1>3, <1>4, <1>5, <1>6, StepCases

\* The shutdown's variables keep their types.
LEMMA RunType ==
    IInv /\ [Next]_vars =>
        /\ phase' \in {"serving", "shutdown", "closing", "exited"}
        /\ {closed', expired', failed'} \subseteq BOOLEAN
<1> SUFFICES ASSUME IInv, [Next]_vars
             PROVE  /\ phase' \in {"serving", "shutdown", "closing", "exited"}
                    /\ {closed', expired', failed'} \subseteq BOOLEAN
  OBVIOUS
<1>0. TypeOK
  BY DEF IInv
<1>1. CASE UNCHANGED run
  BY <1>0, <1>1 DEF TypeOK, run
<1>2. CASE Signal \/ SecondSignal \/ ListenerStops \/ Deadline \/ Exit
  BY <1>0, <1>2 DEF TypeOK, Signal, SecondSignal, ListenerStops, Deadline, Exit
<1>3. CASE ShutdownReturns
  <2>1. failed' \in BOOLEAN
    BY <1>3 DEF ShutdownReturns
  <2> QED
    BY <1>0, <1>3, <2>1 DEF TypeOK, ShutdownReturns
<1> QED
  BY <1>1, <1>2, <1>3 DEF Next, Arrives, Take, Pass, Upgrade, Return, Release, vars, run

\* The slots and the counts stay as they are where nobody takes or gives one.
LEMMA CountSame ==
    ASSUME IInv, UNCHANGED open, \A a \in Addresses : Holding(a)' = Holding(a)
    PROVE  CountExact'
<1>1. \A a \in Addresses : Held(a)' = Held(a)
  BY DEF Held
<1> QED
  BY <1>1 DEF IInv, CountExact

\* The count of every address goes on being the number of requests that hold one
\* of its slots, and within the limit.
LEMMA CountStep == IInv /\ [Next]_vars => TypeOK' /\ CountExact'
<1> SUFFICES ASSUME IInv, [Next]_vars PROVE TypeOK' /\ CountExact'
  OBVIOUS
<1>0. /\ TypeOK /\ CountExact
      /\ phase' \in {"serving", "shutdown", "closing", "exited"}
      /\ {closed', expired', failed'} \subseteq BOOLEAN
  BY RunType DEF IInv
<1>1. ASSUME NEW r \in Requests, NEW q \in Asks, Arrives(r, q) PROVE TypeOK' /\ CountExact'
  <2>1. \A a \in Addresses : Holding(a)' = Holding(a)
    BY <1>0, <1>1 DEF Arrives, Holding, TypeOK
  <2> QED
    BY <1>0, <1>1, <2>1, CountSame DEF Arrives, TypeOK
<1>2. ASSUME NEW r \in Requests, Refused(r) PROVE TypeOK' /\ CountExact'
  <2>1. \A a \in Addresses : Holding(a)' = Holding(a)
    BY <1>0, <1>2 DEF Refused, Holding, TypeOK
  <2> QED
    BY <1>0, <1>2, <2>1, CountSame DEF Refused, TypeOK
<1>3. ASSUME NEW r \in Requests, Aside(r) PROVE TypeOK' /\ CountExact'
  <2>1. at[r] = "arrived" => counted[r] = Nobody
    BY DEF IInv, StageOf
  <2>2. \A a \in Addresses : Holding(a)' = Holding(a)
    BY <1>0, <1>3, <2>1, NobodyApart DEF Aside, Pass, Upgrade, Return, Holding, TypeOK
  <2> QED
    BY <1>0, <1>3, <2>2, CountSame DEF Aside, Pass, Upgrade, Return, TypeOK
<1>4. ASSUME NEW r \in Requests, NEW a \in Addresses, Counted(r, a) PROVE TypeOK' /\ CountExact'
  <2>1. Held(a) \in Nat /\ Held(a) < Limit /\ Limit \in Nat
    BY <1>0, <1>4, HeldType, ProcessAssumption DEF Counted
  <2>2. /\ DOMAIN open' = DOMAIN open \union {a}
        /\ open'[a] = Held(a) + 1
        /\ \A b \in DOMAIN open \ {a} : open'[b] = open[b]
    BY <1>4 DEF Counted, Raised
  <2>3. TypeOK'
    <3>1. \A b \in DOMAIN open' : open'[b] \in 1..Limit
      BY <1>0, <2>1, <2>2 DEF TypeOK
    <3> QED
      BY <1>0, <1>4, <2>2, <3>1 DEF Counted, TypeOK
  <2>4. r \notin Holding(a) /\ Holding(a)' = Holding(a) \union {r}
    BY <1>0, <1>4 DEF Counted, Holding, TypeOK
  <2>5. \A b \in Addresses \ {a} : Holding(b)' = Holding(b)
    <3>1. counted[r] = Nobody
      BY <1>4 DEF IInv, StageOf, Counted
    <3> QED
      BY <1>0, <1>4, <3>1, NobodyApart DEF Counted, Holding, TypeOK
  <2>6. Cardinality(Holding(a)') = Cardinality(Holding(a)) + 1
    <3>1. Cardinality(Holding(a) \union {r}) = Cardinality(Holding(a)) + 1
      BY <2>4, HoldingFinite, FS_AddElement
    <3> QED
      BY <2>4, <3>1
  <2>7. \A b \in Addresses : Held(b)' = IF b = a THEN Held(a) + 1 ELSE Held(b)
    BY <2>2 DEF Held
  <2>8. \A b \in Addresses : Held(b)' = Cardinality(Holding(b)')
    BY <1>0, <2>5, <2>6, <2>7 DEF CountExact
  <2>9. DOMAIN open' = {b \in Addresses : Holding(b)' # {}}
    BY <1>0, <2>2, <2>4, <2>5 DEF CountExact
  <2> QED
    BY <2>3, <2>8, <2>9 DEF CountExact
<1>5. ASSUME NEW r \in Requests, Release(r) PROVE TypeOK' /\ CountExact'
  <2>1. counted[r] \in Addresses \union {Nobody}
    BY <1>0 DEF TypeOK
  <2>2. /\ at \in [Requests -> {"none", "arrived", "handler", "answered", "socket", "leaving", "done"}]
        /\ at' = [at EXCEPT ![r] = "done"] /\ at[r] \in {"answered", "leaving"}
        /\ UNCHANGED <<asked, counted>>
    BY <1>0, <1>5 DEF Release, TypeOK
  <2>3. CASE counted[r] = Nobody
    <3>1. \A b \in Addresses : Holding(b)' = Holding(b)
      BY <2>2, <2>3, NobodyApart DEF Holding
    <3>2. UNCHANGED open
      BY <1>5, <2>3 DEF Release
    <3> QED
      BY <1>0, <2>2, <3>1, <3>2, CountSame DEF TypeOK
  <2>4. ASSUME NEW a \in Addresses, counted[r] = a PROVE TypeOK' /\ CountExact'
    <3>0. a # Nobody
      BY <2>4, NobodyApart
    <3>1. r \in Holding(a) /\ Holding(a)' = Holding(a) \ {r}
      BY <2>2, <2>4 DEF Holding
    <3>2. \A b \in Addresses \ {a} : Holding(b)' = Holding(b)
      BY <2>2, <2>4 DEF Holding
    <3>3. a \in DOMAIN open /\ Held(a) = open[a] /\ open[a] \in 1..Limit /\ Limit \in Nat
      BY <1>0, <2>4, <3>1, ProcessAssumption DEF CountExact, Held, TypeOK
    <3>4. Cardinality(Holding(a)') = Cardinality(Holding(a)) - 1 /\ IsFiniteSet(Holding(a) \ {r})
      <4>1. Cardinality(Holding(a) \ {r}) = Cardinality(Holding(a)) - 1 /\ IsFiniteSet(Holding(a) \ {r})
        BY <3>1, HoldingFinite, FS_RemoveElement
      <4> QED
        BY <3>1, <4>1
    <3>5. Cardinality(Holding(a)) = open[a]
      BY <1>0, <2>4, <3>3 DEF CountExact
    <3>6. CASE open[a] = 1
      <4>1. open' = [b \in DOMAIN open \ {a} |-> open[b]]
        BY <1>5, <2>4, <3>0, <3>3, <3>6 DEF Release
      <4>2. Cardinality(Holding(a) \ {r}) = 0
        BY <3>1, <3>4, <3>5, <3>6
      <4>3. Holding(a)' = {}
        BY <3>1, <3>4, <4>2, FS_EmptySet
      <4>4. \A b \in Addresses : Held(b)' = IF b = a THEN 0 ELSE Held(b)
        BY <4>1 DEF Held
      <4>5. \A b \in Addresses : Held(b)' = Cardinality(Holding(b)')
        BY <1>0, <3>2, <4>3, <4>4, FS_EmptySet DEF CountExact
      <4>6. DOMAIN open' = {b \in Addresses : Holding(b)' # {}}
        BY <1>0, <3>2, <4>1, <4>3 DEF CountExact
      <4>7. TypeOK'
        BY <1>0, <2>2, <4>1 DEF TypeOK
      <4> QED
        BY <4>5, <4>6, <4>7 DEF CountExact
    <3>7. CASE open[a] > 1
      <4>1. open' = [open EXCEPT ![a] = @ - 1]
        BY <1>5, <2>4, <3>0, <3>3, <3>7 DEF Release
      <4>2. /\ DOMAIN open' = DOMAIN open
            /\ open'[a] = open[a] - 1
            /\ \A b \in DOMAIN open \ {a} : open'[b] = open[b]
        BY <3>3, <4>1
      <4>3. Holding(a)' # {}
        <5>1. Cardinality(Holding(a)') # 0
          BY <3>3, <3>4, <3>5, <3>7
        <5> QED
          BY <5>1, FS_EmptySet
      <4>4. \A b \in Addresses : Held(b)' = IF b = a THEN open[a] - 1 ELSE Held(b)
        BY <3>3, <4>2 DEF Held
      <4>5. \A b \in Addresses : Held(b)' = Cardinality(Holding(b)')
        BY <1>0, <3>2, <3>4, <3>5, <4>4 DEF CountExact
      <4>6. DOMAIN open' = {b \in Addresses : Holding(b)' # {}}
        BY <1>0, <3>1, <3>2, <4>2, <4>3 DEF CountExact
      <4>7. \A b \in DOMAIN open' : open'[b] \in 1..Limit
        BY <1>0, <3>3, <3>7, <4>2 DEF TypeOK
      <4>8. TypeOK'
        BY <1>0, <2>2, <4>2, <4>7 DEF TypeOK
      <4> QED
        BY <4>5, <4>6, <4>8 DEF CountExact
    <3> QED
      BY <3>3, <3>6, <3>7
  <2> QED
    BY <2>1, <2>3, <2>4
<1>6. CASE UNCHANGED conns
  <2>1. \A a \in Addresses : Holding(a)' = Holding(a)
    BY <1>6 DEF conns, Holding
  <2> QED
    BY <1>0, <1>6, <2>1, CountSame DEF conns, TypeOK
<1> HIDE DEF TypeOK
<1> QED
  BY <1>1, <1>2, <1>3, <1>4, <1>5, <1>6, StepCases

-----------------------------------------------------------------------------
(* The theorems                                                            *)

\* The invariant holds in every state of every behaviour.
LEMMA Inductive == Spec => []IInv
<1>1. IInv /\ [Next]_vars => IInv'
  BY CountStep, StageStep DEF IInv
<1> QED
  BY <1>1, InitIInv, PTL DEF Spec

\* The count of an address is exact, an address without a slot is forgotten, and no
\* address holds more sockets than MAX_CONNECTIONS_PER_ADDRESS or fills another's
\* limit, whatever it writes in X-Forwarded-For (addressLimit, client).
THEOREM SlotsAreExact == Spec => []SlotsExact
<1>1. IInv => SlotsExact
  <2> SUFFICES ASSUME IInv PROVE LimitPerAddress
    BY DEF IInv, SlotsExact
  <2> SUFFICES ASSUME Limit > 0, NEW a \in Addresses
               PROVE  /\ Cardinality(SocketsOf(a)) <= Limit
                      /\ \A r \in SocketsOf(a) : counted[r] = a
    BY DEF LimitPerAddress
  <2> DEFINE sockets == SocketsOf(a)
  <2>1. ASSUME NEW r \in sockets PROVE counted[r] = a /\ r \in Holding(a)
    <3>1. /\ r \in Requests /\ at[r] = "socket" /\ asked[r].addressed /\ Vouched(asked[r]) = a
          /\ StageOf(r)
      BY DEF IInv, SocketsOf
    <3>2. asked[r] \in Asks /\ counted[r] = Client(asked[r])
      BY <3>1, ProcessAssumption DEF StageOf, Slots, Uncounted
    <3>3. Client(asked[r]) = Vouched(asked[r])
      BY <3>2, ProcessAssumption, ClientIsVouched
    <3> QED
      BY <3>1, <3>2, <3>3 DEF Holding
  <2>2. sockets \subseteq Holding(a)
    BY <2>1
  <2>3. Cardinality(Holding(a)) = Held(a) /\ Held(a) \in 0..Limit /\ Limit \in Nat
    BY HeldType, ProcessAssumption DEF IInv, CountExact
  <2> HIDE DEF sockets
  <2>4. Cardinality(sockets) \in Nat /\ Cardinality(sockets) <= Cardinality(Holding(a))
    BY <2>2, HoldingFinite, FS_Subset, FS_CardinalityType
  <2>5. Cardinality(sockets) <= Limit
    BY <2>3, <2>4
  <2> QED
    BY <2>1, <2>5 DEF sockets
<1> QED
  BY <1>1, Inductive, PTL

\* Once http.Server.Shutdown came back without an error, nothing is in flight.
NothingInFlight == phase \in {"closing", "exited"} /\ ~failed => InFlight = {}

\* run returns nil only when every call that arrived before the signal has been
\* answered: nothing arrives and nothing is handed on once the listener is closed.
THEOREM AnsweredFirst == Spec => []AnsweredBeforeExit
<1>1. Init => NothingInFlight
  BY DEF Init, NothingInFlight
<1>2. IInv /\ NothingInFlight /\ [Next]_vars => NothingInFlight'
  <2> SUFFICES ASSUME IInv, NothingInFlight, [Next]_vars, phase' \in {"closing", "exited"}, ~failed',
                      NEW r \in Requests, at'[r] \in {"arrived", "handler", "answered"}
               PROVE  FALSE
    BY DEF NothingInFlight, InFlight
  <2>0. TypeOK
    BY DEF IInv
  <2>1. CASE ShutdownReturns
    BY <2>1 DEF ShutdownReturns, conns, InFlight
  <2>2. CASE ~ShutdownReturns /\ phase \in {"closing", "exited"} /\ ~failed
    <3>1. at[r] \notin {"arrived", "handler", "answered"}
      BY <2>2 DEF NothingInFlight, InFlight
    <3>2. ASSUME NEW p \in Requests, Take(p) \/ Pass(p) \/ Upgrade(p) \/ Return(p) \/ Release(p)
          PROVE  FALSE
      <4>1. at[p] \notin {"arrived", "handler", "answered"}
        BY <2>2 DEF NothingInFlight, InFlight
      <4> QED
        BY <2>0, <3>1, <3>2, <4>1 DEF Take, Pass, Upgrade, Return, Release, TypeOK
    <3> QED
      BY <2>2, <3>1, <3>2 DEF Next, Arrives, Signal, SecondSignal, ListenerStops, Deadline, Exit, conns, vars
  <2>3. CASE ~ShutdownReturns /\ ~(phase \in {"closing", "exited"} /\ ~failed)
    BY <2>3 DEF Next, Arrives, Take, Pass, Upgrade, Return, Release, Signal, SecondSignal,
                ListenerStops, Deadline, Exit, run, vars
  <2> QED
    BY <2>1, <2>2, <2>3
<1>3. NothingInFlight => AnsweredBeforeExit
  BY DEF NothingInFlight, AnsweredBeforeExit, InFlight
<1> QED
  BY <1>1, <1>2, <1>3, Inductive, PTL DEF Spec

-----------------------------------------------------------------------------
(* RateLimiter, for every limit, every length of a second and every        *)
(* history of frames.                                                      *)

\* The bucket, whole tokens and time not yet turned into one, holds at least
\* what the exact bucket does.
Covers(t, f) == credit <= t * Cost + (now - f)

\* What an observer has seen go through and what the bucket can still pay for
\* at once. Before the first refill of the observation it is one bucket, and a
\* frame went through only within the cost of the last refill; from then on the
\* refills are paid for by the time since, save less than one cost.
Pays(t, f) ==
    \/ /\ f < since
       /\ passed + t <= limit
       /\ passed > 0 => since - f < Cost
    \/ /\ f >= since
       /\ (passed + t) * Cost < limit * Cost + (f - since) + Cost

\* The inductive invariant.
RateInv == RateTypeOK /\ (limit > 0 => Covers(tokens, filled) /\ Pays(tokens, filled))

\* What integer division gives.
LEMMA Division ==
    ASSUME NEW a \in Nat, NEW c \in Nat \ {0}
    PROVE  /\ a \div c \in Nat
           /\ (a \div c) * c <= a
           /\ a < (a \div c) * c + c
<1>1. a = (a \div c) * c + (a % c) /\ a % c \in 0..(c - 1)
  BY SMT
<1>2. a \div c \in Nat
  BY SMT
<1> QED
  BY <1>1, <1>2

\* A product bounded by a dividend bounds the quotient.
LEMMA Quotient ==
    ASSUME NEW a \in Nat, NEW c \in Nat \ {0}, NEW k \in Int, k * c < a + c
    PROVE  k <= (a \div c) + 1
<1> DEFINE q == a \div c
<1>1. q \in Nat /\ a < q * c + c
  BY Division
<1> HIDE DEF q
<1>2. CASE k >= q + 2
  <2>1. k * c >= (q + 2) * c
    BY <1>1, <1>2
  <2>2. (q + 2) * c = q * c + c + c
    BY <1>1
  <2> QED
    BY <1>1, <2>1, <2>2
<1> QED
  BY <1>1, <1>2 DEF q

\* Products distribute; named so that a step can use one instance of it.
LEMMA Distribute ==
    ASSUME NEW a \in Int, NEW b \in Int, NEW c \in Int
    PROVE  (a + b) * c = a * c + b * c
  BY SMT

LEMMA Monotone ==
    ASSUME NEW a \in Int, NEW b \in Int, NEW c \in Nat, a <= b
    PROVE  a * c <= b * c
  BY SMT

\* A bucket that meters charges a positive cost.
LEMMA CostPositive == ASSUME RateTypeOK, limit > 0 PROVE Cost \in Nat \ {0}
<1>1. Cost \in Int
  BY RateAssumption DEF Cost, RateTypeOK
<1> QED
  BY <1>1 DEF RateTypeOK

\* The three outcomes of a refill.
LEMMA RefillEffect ==
    ASSUME RateTypeOK, limit > 0
    PROVE  \/ Refill = <<tokens, filled>> /\ now - filled < Cost
           \/ \E e \in Nat \ {0} :
                /\ e < limit - tokens
                /\ Refill = <<tokens + e, filled + e * Cost>>
                /\ e * Cost <= now - filled /\ now - filled < e * Cost + Cost
           \/ \E e \in Nat :
                /\ limit - tokens <= e
                /\ Refill = <<limit, now>>
                /\ e * Cost <= now - filled
<1>1. Cost \in Nat \ {0}
  BY CostPositive
<1>2. now - filled \in Nat
  BY DEF RateTypeOK
<1>3. Earned \in Nat /\ Earned * Cost <= now - filled /\ now - filled < Earned * Cost + Cost
  BY <1>1, <1>2, Division DEF Earned
<1>4. now - filled >= Cost => Earned # 0
  <2>1. Earned = 0 => Earned * Cost = 0
    BY <1>1
  <2> QED
    BY <1>1, <1>2, <1>3, <2>1
<1>5. CASE now - filled < Cost
  BY <1>5 DEF Refill
<1>6. CASE ~(now - filled < Cost) /\ Earned < limit - tokens
  <2>1. Refill = <<tokens + Earned, filled + Earned * Cost>>
    BY <1>6 DEF Refill
  <2>2. Earned \in Nat \ {0}
    BY <1>1, <1>2, <1>3, <1>4, <1>6
  <2> QED
    BY <1>3, <1>6, <2>1, <2>2
<1>7. CASE ~(now - filled < Cost) /\ ~(Earned < limit - tokens)
  <2>1. Refill = <<limit, now>>
    BY <1>7 DEF Refill
  <2>2. limit - tokens <= Earned
    BY <1>3, <1>7 DEF RateTypeOK
  <2> QED
    BY <1>3, <2>1, <2>2
<1> QED
  BY <1>5, <1>6, <1>7

\* A refill keeps the types, and leaves less than the cost of a token unpaid.
LEMMA RefillType ==
    ASSUME RateTypeOK, limit > 0
    PROVE  Refill[1] \in 0..limit /\ Refill[2] \in 0..now /\ now - Refill[2] < Cost
<1>1. Cost \in Nat \ {0}
  BY CostPositive
<1>2. CASE Refill = <<tokens, filled>> /\ now - filled < Cost
  BY <1>2 DEF RateTypeOK
<1>3. ASSUME NEW e \in Nat \ {0}, e < limit - tokens,
             Refill = <<tokens + e, filled + e * Cost>>,
             e * Cost <= now - filled, now - filled < e * Cost + Cost
      PROVE  Refill[1] \in 0..limit /\ Refill[2] \in 0..now /\ now - Refill[2] < Cost
  <2>1. e * Cost \in Nat
    BY <1>1
  <2> QED
    BY <1>1, <1>3, <2>1 DEF RateTypeOK
<1>4. CASE Refill = <<limit, now>>
  BY <1>1, <1>4 DEF RateTypeOK
<1> QED
  BY <1>2, <1>3, <1>4, RefillEffect

\* A refill loses nothing an exact bucket would have.
LEMMA RefillCovers ==
    ASSUME RateTypeOK, limit > 0, Covers(tokens, filled)
    PROVE  Covers(Refill[1], Refill[2])
<1>1. Cost \in Nat \ {0}
  BY CostPositive
<1>2. CASE Refill = <<tokens, filled>>
  BY <1>2
<1>3. ASSUME NEW e \in Nat, Refill = <<tokens + e, filled + e * Cost>>
      PROVE  Covers(Refill[1], Refill[2])
  <2>1. (tokens + e) * Cost = tokens * Cost + e * Cost
    BY <1>1, Distribute DEF RateTypeOK
  <2>2. tokens * Cost \in Int /\ e * Cost \in Int
    BY <1>1 DEF RateTypeOK
  <2>3. credit <= (tokens + e) * Cost + (now - (filled + e * Cost))
    BY <2>1, <2>2 DEF RateTypeOK, Covers
  <2> QED
    BY <1>3, <2>3 DEF Covers
<1>4. CASE Refill = <<limit, now>>
  <2>1. credit <= limit * Cost + (now - now)
    BY <1>1 DEF RateTypeOK
  <2> QED
    BY <1>4, <2>1 DEF Covers
<1> QED
  BY <1>2, <1>3, <1>4, RefillEffect

\* A refill is paid for by time.
LEMMA RefillPays ==
    ASSUME RateTypeOK, limit > 0, Pays(tokens, filled)
    PROVE  /\ Pays(Refill[1], Refill[2])
           /\ Refill[2] < since => since - Refill[2] < Cost
<1>1. Cost \in Nat \ {0} /\ limit \in Nat /\ tokens \in Nat /\ passed \in Nat
      /\ now \in Nat /\ filled \in Nat /\ since \in Nat /\ filled <= now /\ since <= now
      /\ tokens <= limit
  BY CostPositive DEF RateTypeOK
<1>2. now - Refill[2] < Cost
  BY RefillType
<1>3. Refill[2] \in Int
  BY RefillType, <1>1
<1>4. Refill[2] < since => since - Refill[2] < Cost
  BY <1>1, <1>2, <1>3
<1>5. CASE Refill = <<tokens, filled>>
  BY <1>4, <1>5
<1>6. ASSUME NEW e \in Nat \ {0}, e < limit - tokens, Refill = <<tokens + e, filled + e * Cost>>
      PROVE  Pays(Refill[1], Refill[2])
  <2> DEFINE f == filled + e * Cost
  <2>1. e * Cost \in Nat /\ e * Cost >= Cost
    <3>1. 1 * Cost <= e * Cost
      BY <1>1, Monotone
    <3> QED
      BY <1>1, <3>1
  <2>2. (passed + (tokens + e)) * Cost = (passed + tokens) * Cost + e * Cost
    BY <1>1, Distribute
  <2>3. (passed + tokens) * Cost \in Int /\ limit * Cost \in Int
    BY <1>1
  <2>4. CASE passed = 0 /\ f < since
    BY <1>1, <1>4, <1>6, <2>4 DEF Pays
  <2>5. CASE passed = 0 /\ f >= since
    <3>1. (passed + (tokens + e)) * Cost <= limit * Cost
      BY <1>1, <1>6, <2>5, Monotone
    <3>2. (passed + (tokens + e)) * Cost < limit * Cost + (f - since) + Cost
      BY <1>1, <2>1, <2>2, <2>3, <2>5, <3>1
    <3> QED
      BY <1>6, <2>5, <3>2 DEF Pays
  <2>6. CASE passed > 0 /\ filled < since
    <3>1. passed + tokens <= limit /\ since - filled < Cost
      BY <1>1, <2>6 DEF Pays
    <3>2. (passed + tokens) * Cost <= limit * Cost
      BY <1>1, <3>1, Monotone
    <3>3. f >= since
      BY <1>1, <2>1, <3>1
    <3>4. (passed + (tokens + e)) * Cost < limit * Cost + (f - since) + Cost
      BY <1>1, <2>1, <2>2, <2>3, <3>1, <3>2
    <3> QED
      BY <1>6, <3>3, <3>4 DEF Pays
  <2>7. CASE filled >= since
    <3>1. (passed + tokens) * Cost < limit * Cost + (filled - since) + Cost
      BY <1>1, <2>7 DEF Pays
    <3>2. (passed + (tokens + e)) * Cost < limit * Cost + (f - since) + Cost /\ f >= since
      BY <1>1, <2>1, <2>2, <2>3, <2>7, <3>1
    <3> QED
      BY <1>6, <3>2 DEF Pays
  <2> QED
    BY <1>1, <2>1, <2>4, <2>5, <2>6, <2>7
<1>7. ASSUME NEW e \in Nat, limit - tokens <= e, Refill = <<limit, now>>,
             e * Cost <= now - filled
      PROVE  Pays(Refill[1], Refill[2])
  <2>1. (passed + limit) * Cost = passed * Cost + limit * Cost
    BY <1>1, Distribute
  <2>2. passed * Cost \in Int /\ limit * Cost \in Int /\ e * Cost \in Int
    BY <1>1
  <2>3. passed * Cost < (now - since) + Cost
    <3>1. CASE passed = 0
      BY <1>1, <3>1
    <3>2. CASE passed > 0 /\ filled < since
      <4>1. passed <= e /\ since - filled < Cost
        BY <1>1, <1>7, <3>2 DEF Pays
      <4>2. passed * Cost <= e * Cost
        BY <1>1, <4>1, Monotone
      <4> QED
        BY <1>1, <1>7, <2>2, <4>1, <4>2
    <3>3. CASE filled >= since
      <4>1. (passed + tokens) * Cost < limit * Cost + (filled - since) + Cost
        BY <1>1, <3>3 DEF Pays
      <4>2. limit * Cost <= (tokens + e) * Cost
        BY <1>1, <1>7, Monotone
      <4>3. (tokens + e) * Cost = tokens * Cost + e * Cost
        BY <1>1, Distribute
      <4>4. (passed + tokens) * Cost = passed * Cost + tokens * Cost
        BY <1>1, Distribute
      <4>5. tokens * Cost \in Int
        BY <1>1
      <4> QED
        BY <1>1, <1>7, <2>2, <4>1, <4>2, <4>3, <4>4, <4>5
    <3> QED
      BY <1>1, <3>1, <3>2, <3>3
  <2>4. (passed + limit) * Cost < limit * Cost + (now - since) + Cost
    BY <1>1, <2>1, <2>2, <2>3
  <2> QED
    BY <1>1, <1>7, <2>4 DEF Pays
<1> QED
  BY <1>4, <1>5, <1>6, <1>7, RefillEffect

\* The cost is fixed with the limit.
LEMMA CostStays == ASSUME UNCHANGED limit PROVE Cost' = Cost
  BY DEF Cost

LEMMA RateTypeStep == ASSUME RateTypeOK, [RateNext]_rateVars PROVE RateTypeOK'
<1>1. limit' = limit /\ Cost' = Cost
  <2>1. UNCHANGED limit
    BY DEF RateNext, Tick, Observe, AllowUnmetered, AllowMetered, Refuse, rateVars
  <2> QED
    BY <2>1, CostStays
<1>2. limit > 0 => Cost \in Nat \ {0}
  BY CostPositive
<1>3. limit * Cost \in Nat
  <2>1. CASE limit > 0
    BY <1>2, <2>1 DEF RateTypeOK
  <2>2. CASE limit = 0
    BY <2>2 DEF Cost
  <2> QED
    BY <2>1, <2>2 DEF RateTypeOK
<1>4. CASE UNCHANGED rateVars
  BY <1>1, <1>4 DEF rateVars, RateTypeOK
<1>5. CASE Tick
  BY <1>1, <1>3, <1>5, RateAssumption DEF Tick, RateTypeOK
<1>6. CASE Observe
  BY <1>1, <1>6, RateAssumption DEF Observe, RateTypeOK
<1>7. CASE AllowUnmetered
  BY <1>1, <1>7, RateAssumption DEF AllowUnmetered, RateTypeOK
<1>8. CASE AllowMetered
  <2>1. Refill[1] \in 0..limit /\ Refill[2] \in 0..now
    BY <1>8, RefillType DEF AllowMetered
  <2>2. Cost \in Nat \ {0}
    BY <1>2, <1>8 DEF AllowMetered
  <2> QED
    BY <1>1, <1>3, <1>8, <2>1, <2>2, RateAssumption DEF AllowMetered, RateTypeOK
<1>9. CASE Refuse
  <2>1. Refill[1] \in 0..limit /\ Refill[2] \in 0..now
    BY <1>9, RefillType DEF Refuse
  <2> QED
    BY <1>1, <1>9, <2>1 DEF Refuse, RateTypeOK
<1> QED
  BY <1>4, <1>5, <1>6, <1>7, <1>8, <1>9 DEF RateNext

LEMMA CoversStep ==
    ASSUME RateTypeOK, [RateNext]_rateVars, limit > 0, Covers(tokens, filled)
    PROVE  Covers(tokens, filled)'
<1>1. Cost' = Cost
  <2>1. UNCHANGED limit
    BY DEF RateNext, Tick, Observe, AllowUnmetered, AllowMetered, Refuse, rateVars
  <2> QED
    BY <2>1, CostStays
<1>2. Cost \in Nat \ {0} /\ tokens * Cost \in Int /\ limit * Cost \in Int
  BY CostPositive DEF RateTypeOK
<1>3. CASE UNCHANGED rateVars \/ Observe
  BY <1>1, <1>3 DEF rateVars, Observe, Covers
<1>4. CASE Tick
  <2>1. credit' <= credit + 1 /\ now' = now + 1 /\ tokens' = tokens /\ filled' = filled
    BY <1>4 DEF Tick, RateTypeOK
  <2>2. credit' \in Int
    BY <1>4 DEF Tick, RateTypeOK
  <2> QED
    BY <1>1, <1>2, <2>1, <2>2 DEF Covers, RateTypeOK
<1>5. CASE AllowMetered
  <2>1. Refill[1] \in 0..limit /\ Refill[2] \in 0..now /\ Covers(Refill[1], Refill[2])
    BY RefillType, RefillCovers
  <2>2. (Refill[1] + (-1)) * Cost = Refill[1] * Cost + (-1) * Cost
    BY <1>2, <2>1, Distribute DEF RateTypeOK
  <2>3. Refill[1] * Cost \in Int /\ (-1) * Cost = 0 - Cost
    BY <1>2, <2>1 DEF RateTypeOK
  <2>4. 0 <= (Refill[1] - 1) * Cost
    <3>1. 0 * Cost <= (Refill[1] - 1) * Cost
      BY <1>2, <1>5, <2>1, Monotone DEF AllowMetered, RateTypeOK
    <3> QED
      BY <1>2, <3>1
  <2>5. (Refill[1] - 1) * Cost = Refill[1] * Cost - Cost
    <3>1. Refill[1] - 1 = Refill[1] + (-1)
      BY <2>1 DEF RateTypeOK
    <3> QED
      BY <1>2, <2>2, <2>3, <3>1
  <2>6. credit' <= (Refill[1] - 1) * Cost + (now - Refill[2])
    <3>1. (Refill[1] - 1) * Cost \in Int
      BY <1>2, <2>3, <2>5
    <3> QED
      BY <1>2, <1>5, <2>1, <2>3, <2>4, <2>5, <3>1 DEF AllowMetered, Covers, RateTypeOK
  <2> QED
    BY <1>1, <1>5, <2>6 DEF AllowMetered, Covers
<1>6. CASE Refuse
  <2>1. Covers(Refill[1], Refill[2])
    BY RefillCovers
  <2> QED
    BY <1>1, <1>6, <2>1 DEF Refuse, Covers
<1> QED
  BY <1>3, <1>4, <1>5, <1>6 DEF RateNext, AllowUnmetered

LEMMA PaysStep ==
    ASSUME RateTypeOK, [RateNext]_rateVars, limit > 0, Pays(tokens, filled)
    PROVE  Pays(tokens, filled)'
<1>1. Cost' = Cost /\ limit' = limit
  <2>1. UNCHANGED limit
    BY DEF RateNext, Tick, Observe, AllowUnmetered, AllowMetered, Refuse, rateVars
  <2> QED
    BY <2>1, CostStays
<1>2. Cost \in Nat \ {0} /\ tokens * Cost \in Int /\ limit * Cost \in Int
  BY CostPositive DEF RateTypeOK
<1>3. CASE UNCHANGED rateVars \/ Tick
  BY <1>1, <1>3 DEF rateVars, Tick, Pays
<1>4. CASE Observe
  <2>1. tokens * Cost <= limit * Cost
    BY <1>2, Monotone DEF RateTypeOK
  <2>2. filled' >= since' => (passed' + tokens') * Cost < limit * Cost + (filled' - since') + Cost
    <3>1. passed' + tokens' = tokens
      BY <1>4 DEF Observe, RateTypeOK
    <3>2. since' = now /\ filled' = filled
      BY <1>4 DEF Observe
    <3> QED
      BY <1>2, <2>1, <3>1, <3>2 DEF RateTypeOK
  <2>3. passed' = 0 /\ passed' + tokens' <= limit'
    BY <1>1, <1>4 DEF Observe, RateTypeOK
  <2> QED
    BY <1>1, <1>2, <1>4, <2>2, <2>3 DEF Observe, Pays, RateTypeOK
<1>5. CASE AllowMetered
  <2>1. /\ Refill[1] \in 0..limit /\ Refill[2] \in 0..now
        /\ Pays(Refill[1], Refill[2])
        /\ Refill[2] < since => since - Refill[2] < Cost
    BY RefillType, RefillPays
  <2>2. passed' + tokens' = passed + Refill[1]
    BY <1>5, <2>1 DEF AllowMetered, RateTypeOK
  <2> QED
    BY <1>1, <1>5, <2>1, <2>2 DEF AllowMetered, Pays
<1>6. CASE Refuse
  <2>1. Pays(Refill[1], Refill[2])
    BY RefillPays
  <2> QED
    BY <1>1, <1>6, <2>1 DEF Refuse, Pays
<1> QED
  BY <1>3, <1>4, <1>5, <1>6 DEF RateNext, AllowUnmetered

LEMMA RateInvInit == RateInit => RateInv
<1> SUFFICES ASSUME RateInit PROVE RateInv
  OBVIOUS
<1>1. PICK l \in Limits : limit = Effective(l)
  BY DEF RateInit
<1>2. l \in Nat /\ Second \in Nat \ {0} /\ MaxTime \in Nat /\ MaxFrames \in Nat
  BY RateAssumption
<1>3. limit \in Nat /\ Cost \in Nat /\ (limit > 0 => Cost > 0)
  <2>1. CASE limit = 0
    BY <2>1 DEF Cost
  <2>2. CASE limit # 0
    <3>1. limit = l /\ Second \div l # 0 /\ l # 0
      BY <1>1, <2>2 DEF Effective
    <3>2. Second \div l \in Nat
      BY <1>2, <3>1, Division
    <3> QED
      BY <1>2, <2>2, <3>1, <3>2 DEF Cost
  <2> QED
    BY <2>1, <2>2
<1>4. limit * Cost \in Nat
  BY <1>3
<1>5. RateTypeOK
  BY <1>2, <1>3, <1>4 DEF RateInit, RateTypeOK
<1>6. Covers(tokens, filled)
  BY <1>4 DEF RateInit, Covers
<1>7. limit > 0 => Pays(tokens, filled)
  <2>1. passed + tokens = limit
    BY <1>3 DEF RateInit
  <2> QED
    BY <1>3, <1>4, <2>1 DEF RateInit, Pays
<1> QED
  BY <1>5, <1>6, <1>7 DEF RateInv

LEMMA RateInvariance == RateSpec => []RateInv
<1>1. RateInv /\ [RateNext]_rateVars => RateInv'
  <2> SUFFICES ASSUME RateInv, [RateNext]_rateVars PROVE RateInv'
    OBVIOUS
  <2>1. limit' = limit
    BY DEF RateNext, Tick, Observe, AllowUnmetered, AllowMetered, Refuse, rateVars
  <2>2. RateTypeOK'
    BY RateTypeStep DEF RateInv
  <2>3. limit > 0 => Covers(tokens, filled)' /\ Pays(tokens, filled)'
    BY CoversStep, PaysStep DEF RateInv
  <2> QED
    BY <2>1, <2>2, <2>3 DEF RateInv
<1> QED
  BY <1>1, RateInvInit, PTL DEF RateSpec

\* The tokens of rateLimiter never exceed its limit, and a limiter that meters
\* never divides by zero.
THEOREM RateTypeCorrect == RateSpec => []RateTypeOK
<1>1. RateInv => RateTypeOK
  BY DEF RateInv
<1> QED
  BY <1>1, RateInvariance, PTL

\* From any instant on, allow lets through a full bucket, what the time buys, and
\* at most one frame more.
THEOREM Bounded == RateSpec => []NeverOverspent
<1>1. RateInv => NeverOverspent
  <2> SUFFICES ASSUME RateInv, limit > 0
               PROVE  passed <= limit + ((now - since) \div Cost) + 1
    BY DEF NeverOverspent
  <2> DEFINE w == now - since
  <2>1. /\ Cost \in Nat \ {0} /\ limit \in Nat /\ tokens \in Nat /\ passed \in Nat /\ w \in Nat
        /\ filled <= now /\ filled \in Nat /\ since \in Nat /\ now \in Nat
    BY CostPositive DEF RateInv, RateTypeOK
  <2>2. w \div Cost \in Nat
    BY <2>1, Division
  <2>3. CASE passed + tokens <= limit
    BY <2>1, <2>2, <2>3
  <2>4. CASE filled >= since /\ (passed + tokens) * Cost < limit * Cost + (filled - since) + Cost
    <3>1. passed * Cost <= (passed + tokens) * Cost
      BY <2>1, Monotone
    <3>2. passed * Cost = (passed - limit) * Cost + limit * Cost
      <4>1. passed = (passed - limit) + limit
        BY <2>1
      <4>2. ((passed - limit) + limit) * Cost = (passed - limit) * Cost + limit * Cost
        BY <2>1, Distribute
      <4> QED
        BY <4>1, <4>2
    <3>3. /\ passed * Cost \in Int /\ limit * Cost \in Int
          /\ (passed - limit) * Cost \in Int /\ (passed + tokens) * Cost \in Int
      BY <2>1
    <3>4. (passed - limit) * Cost < w + Cost
      BY <2>1, <2>4, <3>1, <3>2, <3>3
    <3>5. passed - limit <= (w \div Cost) + 1
      BY <2>1, <3>4, Quotient
    <3> QED
      BY <2>1, <2>2, <3>5
  <2> QED
    BY <2>3, <2>4 DEF RateInv, Pays
<1> QED
  BY <1>1, RateInvariance, PTL

\* allow never refuses a frame an exact bucket would have paid for.
THEOREM Generous == RateSpec => []NeverShortChanged
<1>1. RateInv => NeverShortChanged
  <2> SUFFICES ASSUME RateInv, limit > 0, credit >= Cost
               PROVE  Refill[1] > 0
    BY DEF NeverShortChanged
  <2>1. /\ Cost \in Nat \ {0} /\ limit \in Nat /\ now \in Nat /\ credit \in Int
    BY CostPositive DEF RateInv, RateTypeOK
  <2>2. Refill[1] \in 0..limit /\ Refill[2] \in 0..now /\ now - Refill[2] < Cost
    BY RefillType DEF RateInv
  <2>3. credit <= Refill[1] * Cost + (now - Refill[2])
    BY RefillCovers DEF RateInv, Covers
  <2>4. Refill[1] = 0 => Refill[1] * Cost = 0
    BY <2>1
  <2> QED
    BY <2>1, <2>2, <2>3, <2>4
<1> QED
  BY <1>1, RateInvariance, PTL

-----------------------------------------------------------------------------
(* Frame, for every width of the length field and of the mask, every       *)
(* payload, any number of frames and a stream that ends anywhere. The      *)
(* invariant lays the frames that were written on the stream, each at its  *)
(* place, and says that what ReadFrame holds is the part of its frame that *)
(* it has read. The units of a frame come first, then what writing and     *)
(* reading do to the layout, then one lemma per action.                    *)

\* What may be on the wire: the two bytes of a header, and a unit of the rest.
WireUnits ==
    [final : BOOLEAN, reserved : BOOLEAN, opcode : Framing!Opcodes \union {"reserved"}]
      \union [masked : BOOLEAN, length : Nat] \union [unit : Nat]

\* The masks of a writing end that is a client or is not, and their bytes; the
\* bytes of an extended length.
KeySet(c) == IF c THEN Masks ELSE {<<>>}
MaskLen(c) == IF c THEN KeyLen ELSE 0
ExtLen(n) == IF n > Short THEN 1 ELSE 0

\* The bytes before a payload of this length, and the bytes of a frame.
Before(c, n) == 2 + ExtLen(n) + MaskLen(c)
Size(c, f) == Before(c, Len(f.payload)) + Len(f.payload)

\* A payload as it travels.
Body(c, f, k) == IF c THEN Framing!Mask(f.payload, k) ELSE f.payload

\* The j-th of the units that WriteFrame makes of a frame.
UnitOf(c, f, k, j) ==
    LET n == Len(f.payload) IN
    IF j = 1 THEN Framing!First(f.final, FALSE, f.opcode)
    ELSE IF j = 2 THEN Framing!Second(c, Framing!LengthByte(n))
    ELSE IF j <= 2 + ExtLen(n) THEN [unit |-> n]
    ELSE IF j <= Before(c, n) THEN [unit |-> k[j - 2 - ExtLen(n)]]
    ELSE [unit |-> Body(c, f, k)[j - Before(c, n)]]

Header(f, length) == [final |-> f.final, opcode |-> f.opcode, length |-> length]

Strays == {<<first, Framing!Second(masked, l[1]), l[2]>> :
              first \in Framing!StrayFirsts, masked \in BOOLEAN, l \in Framing!StrayLengths}

FramingTyped ==
    /\ end \in Ends
    /\ stream \in Seq(WireUnits)
    /\ ended \in BOOLEAN
    /\ pc \in {"head", "extended", "key", "payload", "failed"}
    /\ head \in [final : BOOLEAN, opcode : Framing!Opcodes, length : 0..Ceiling]
    /\ mask \in Masks \union {<<>>}
    /\ got \in Seq({0, 1})
    /\ Len(got) <= head.length
    /\ alloc \in Nat
    /\ framed \in Seq(Framing!Frames)
    /\ handed \in Seq(Framing!Frames)
    /\ odd \in {<<>>} \union Strays
    /\ odd # <<>> => ended
    /\ pc = "failed" <=> err # "none"
    /\ \A i \in 1..Len(framed) : Framing!Writable(framed[i])

\* The bytes of the frame in progress that were read.
TakenSoFar ==
    CASE pc = "extended" -> 2
      [] pc = "key" -> 2 + ExtLen(head.length)
      [] pc = "payload" -> Before(end.fromClient, head.length) + Len(got)
      [] OTHER -> 0

\* Where the frames fs lie on a wire w when r of them were returned: frame i ends
\* at pos[i], and what was read of the first that was not returned lies before 1.
\* What was cut off lies past the end.
Laid(c, w, fs, r, pos, ks) ==
    /\ pos \in [0..Len(fs) -> Int]
    /\ ks \in [1..Len(fs) -> KeySet(c)]
    /\ \A i \in (r + 1)..Len(fs) : pos[i] = pos[i - 1] + Size(c, fs[i])
    /\ \A i \in (r + 1)..Len(fs) : \A j \in 1..Size(c, fs[i]) :
         pos[i - 1] + j \in 1..Len(w) => w[pos[i - 1] + j] = UnitOf(c, fs[i], ks[i], j)
    /\ \A i \in r..Len(fs) : pos[i] <= pos[Len(fs)]

\* What follows the frames: nothing, less than nothing when the stream was cut, or
\* the odd header.
Followed(w, p, e, o) ==
    /\ ~e => Len(w) = p
    /\ o = <<>> => Len(w) <= p
    /\ o # <<>> =>
         /\ Len(w) = p + 2 + Len(o[3])
         /\ p + 1 \in 1..Len(w) => w[p + 1] = o[1]
         /\ p + 2 \in 1..Len(w) => w[p + 2] = o[2]
         /\ p + 3 \in 1..Len(w) => w[p + 3] = [unit |-> o[3][1]]

\* What ReadFrame holds of the frame in progress is that frame's.
AtFrame(f, k) ==
    /\ pc = "extended" =>
         /\ head = Header(f, Framing!LengthByte(Len(f.payload)))
         /\ Len(f.payload) > Short
    /\ pc \in {"key", "payload"} => head = Header(f, Len(f.payload))
    /\ pc = "payload" =>
         /\ end.fromClient => mask = k
         /\ \A i \in 1..Len(got) : got[i] = Body(end.fromClient, f, k)[i]

\* What it holds of the odd header, the last there is.
AtStray ==
    /\ odd = <<>> => pc = "head"
    /\ pc = "extended" =>
         /\ head = Header(odd[1], odd[2].length)
         /\ odd[2].length > Short
         /\ Framing!HeadWrong(odd[1], odd[2]) = "none"
    /\ pc \in {"key", "payload"} =>
         /\ head = Header(odd[1], Framing!OddLength)
         /\ got = <<>>
         /\ ~Framing!Forbidden

Placed(pos, ks) ==
    /\ Laid(end.fromClient, stream, framed, Len(handed), pos, ks)
    /\ Followed(stream, pos[Len(framed)], ended, odd)
    /\ pos[Len(handed)] = - TakenSoFar
    /\ Len(handed) < Len(framed) => AtFrame(framed[Len(handed) + 1], ks[Len(handed) + 1])
    /\ Len(handed) = Len(framed) => AtStray

\* A payload begins empty, a mask is a client's, and a length was found right for
\* its frame.
InProgress ==
    /\ pc \in {"head", "extended", "key"} => got = <<>>
    /\ pc = "key" => end.fromClient
    /\ pc \in {"key", "payload"} => Framing!SizeWrong(head.opcode, head.final, head.length) = "none"

FramingInv ==
    /\ FramingTyped
    /\ Framing!ReadBack
    /\ InProgress
    /\ Framing!RefusedForCause
    /\ Framing!AllocationBounded
    /\ pc # "failed" => \E pos, ks : Placed(pos, ks)

-----------------------------------------------------------------------------
(* What WriteFrame writes.                                                 *)

\* The position of a byte under the mask.
LEMMA MaskIndex ==
    ASSUME Framing!FrameAssumption, NEW i \in Nat \ {0}
    PROVE  ((i - 1) % KeyLen) + 1 \in 1..KeyLen
<1>1. KeyLen \in Nat \ {0} /\ i - 1 \in Nat
  BY DEF Framing!FrameAssumption
<1> DEFINE a == i - 1
<1> HIDE DEF a
<1>2. \A c \in Nat \ {0}, b \in Nat : b % c \in 0..(c - 1)
  BY SMT
<1>3. a % KeyLen \in 0..(KeyLen - 1)
  BY <1>1, <1>2 DEF a
<1> QED
  BY <1>1, <1>3 DEF a

\* Masking twice gives back what was masked.
LEMMA MaskTwice ==
    ASSUME Framing!FrameAssumption, NEW b \in Seq({0, 1}), NEW k \in Masks
    PROVE  /\ Framing!Mask(b, k) \in Seq({0, 1})
           /\ Len(Framing!Mask(b, k)) = Len(b)
           /\ Framing!Mask(Framing!Mask(b, k), k) = b
<1>1. DOMAIN b = 1..Len(b) /\ Len(b) \in Nat /\ \A i \in 1..Len(b) : b[i] \in {0, 1}
  OBVIOUS
<1>2. \A i \in 1..Len(b) : k[((i - 1) % KeyLen) + 1] \in {0, 1}
  <2> SUFFICES ASSUME NEW i \in 1..Len(b) PROVE k[((i - 1) % KeyLen) + 1] \in {0, 1}
    OBVIOUS
  <2>1. ((i - 1) % KeyLen) + 1 \in 1..KeyLen
    BY <1>1, MaskIndex
  <2>2. k \in [1..KeyLen -> {0, 1}]
    BY DEF Framing!FrameAssumption
  <2> QED
    BY <2>1, <2>2
<1> DEFINE m(i) == k[((i - 1) % KeyLen) + 1]
<1>3. Framing!Mask(b, k) = [i \in 1..Len(b) |-> (b[i] + m(i)) % 2]
  BY <1>1 DEF Framing!Mask
<1>4. \A i \in 1..Len(b) : m(i) \in {0, 1}
  BY <1>2
<1> HIDE DEF m
<1>5. \A x, y \in {0, 1} : (x + y) % 2 \in {0, 1} /\ (((x + y) % 2) + y) % 2 = x
  BY SMT
<1>6. Framing!Mask(b, k) \in Seq({0, 1}) /\ Len(Framing!Mask(b, k)) = Len(b)
  BY <1>1, <1>3, <1>4, <1>5
<1>7. Framing!Mask(Framing!Mask(b, k), k) = [i \in 1..Len(b) |-> (Framing!Mask(b, k)[i] + m(i)) % 2]
  <2> DEFINE x == Framing!Mask(b, k)
  <2>1. DOMAIN x = 1..Len(b)
    BY <1>3
  <2> HIDE DEF x
  <2>2. Framing!Mask(x, k) = [i \in DOMAIN x |-> (x[i] + k[((i - 1) % KeyLen) + 1]) % 2]
    BY DEF Framing!Mask
  <2> QED
    BY <2>1, <2>2 DEF x, m
<1>8. \A i \in 1..Len(b) : (Framing!Mask(b, k)[i] + m(i)) % 2 = b[i]
  BY <1>1, <1>3, <1>4, <1>5
<1>9. b = [i \in 1..Len(b) |-> b[i]]
  BY <1>1
<1> QED
  BY <1>6, <1>7, <1>8, <1>9

\* The extended length is there when the length needs one, and is the length.
LEMMA ExtendedIs ==
    ASSUME Framing!FrameAssumption, NEW n \in Nat
    PROVE  Framing!Extended(n) = IF n > Short THEN <<n>> ELSE <<>>
<1>1. Short \in Nat /\ Medium \in Nat /\ Short < Medium
  BY DEF Framing!FrameAssumption
<1>2. \A a, c \in Nat : a < c => a % c = a
  BY SMT
<1>3. n <= Medium => n % (Medium + 1) = n
  BY <1>1, <1>2
<1> QED
  BY <1>1, <1>3 DEF Framing!Extended

LEMMA ConstantsAre ==
    ASSUME Framing!FrameAssumption
    PROVE  /\ Short \in Nat /\ Medium \in Nat /\ Ceiling \in Nat /\ KeyLen \in Nat \ {0}
           /\ Chunk \in Nat \ {0} /\ Short < Medium /\ Medium < Ceiling /\ Short <= Chunk
  BY DEF Framing!FrameAssumption

LEMMA WrittenIs ==
    ASSUME Framing!FrameAssumption, NEW f \in Framing!Frames
    PROVE  /\ f.final \in BOOLEAN /\ f.opcode \in Framing!Opcodes
           /\ f.payload \in Seq({0, 1}) /\ Len(f.payload) \in 0..Ceiling
           /\ f = [final |-> f.final, opcode |-> f.opcode, payload |-> f.payload]
<1>1. f \in [final : BOOLEAN, opcode : Kinds, payload : Bodies]
  BY DEF Framing!Frames
<1>2. f.payload \in Seq({0, 1}) /\ Len(f.payload) <= Ceiling /\ Ceiling \in Nat
  BY <1>1 DEF Framing!FrameAssumption
<1>3. f.opcode \in Framing!Opcodes
  BY <1>1 DEF Framing!FrameAssumption, Framing!Opcodes, Framing!Data, Framing!Controls
<1>4. Len(f.payload) \in Nat
  BY <1>2, LenProperties
<1>5. f = [final |-> f.final, opcode |-> f.opcode, payload |-> f.payload]
  BY <1>1
<1> QED
  BY <1>1, <1>2, <1>3, <1>4, <1>5

LEMMA SizeIs ==
    ASSUME Framing!FrameAssumption, NEW c \in BOOLEAN, NEW f \in Framing!Frames
    PROVE  /\ MaskLen(c) \in Nat
           /\ ExtLen(Len(f.payload)) \in 0..1
           /\ Before(c, Len(f.payload)) = 2 + ExtLen(Len(f.payload)) + MaskLen(c)
           /\ Size(c, f) = 2 + ExtLen(Len(f.payload)) + MaskLen(c) + Len(f.payload)
           /\ Size(c, f) \in Nat
  BY WrittenIs, ConstantsAre DEF MaskLen, ExtLen, Before, Size

LEMMA TravelsAs ==
    ASSUME Framing!FrameAssumption, NEW c \in BOOLEAN, NEW f \in Framing!Frames, NEW k \in KeySet(c)
    PROVE  Body(c, f, k) \in Seq({0, 1}) /\ Len(Body(c, f, k)) = Len(f.payload)
<1>1. CASE c
  BY <1>1, WrittenIs, MaskTwice DEF Body, KeySet
<1>2. CASE ~c
  BY <1>2, WrittenIs DEF Body
<1> QED
  BY <1>1, <1>2

LEMMA UnitsAre ==
    ASSUME NEW s \in Seq(Nat)
    PROVE  /\ Framing!Units(s) \in Seq(WireUnits) /\ Len(Framing!Units(s)) = Len(s)
           /\ \A i \in 1..Len(s) : Framing!Units(s)[i] = [unit |-> s[i]]
<1>1. Framing!Units(s) = [i \in 1..Len(s) |-> [unit |-> s[i]]] /\ Len(s) \in Nat
  BY DEF Framing!Units
<1>2. \A i \in 1..Len(s) : [unit |-> s[i]] \in WireUnits
  BY DEF WireUnits
<1> HIDE DEF WireUnits
<1> QED
  BY <1>1, <1>2

\* The units of a frame, one by one.
LEMMA EncodedIs ==
    ASSUME Framing!FrameAssumption, end \in Ends, NEW f \in Framing!Frames,
           NEW k \in KeySet(end.fromClient)
    PROVE  /\ Framing!Encoded(f, k) \in Seq(WireUnits)
           /\ Len(Framing!Encoded(f, k)) = Size(end.fromClient, f)
           /\ \A j \in 1..Size(end.fromClient, f) :
                Framing!Encoded(f, k)[j] = UnitOf(end.fromClient, f, k, j)
<1> DEFINE c == end.fromClient
           n == Len(f.payload)
           x == <<Framing!First(f.final, FALSE, f.opcode), Framing!Second(c, Framing!LengthByte(n))>>
           y == Framing!Units(Framing!Extended(n))
           b == IF c THEN k \o Framing!Mask(f.payload, k) ELSE f.payload
           z == Framing!Units(b)
<1>1. c \in BOOLEAN
  BY DEF Framing!FrameAssumption
<1>2. /\ f.final \in BOOLEAN /\ f.opcode \in Framing!Opcodes /\ f.payload \in Seq({0, 1}) /\ n \in Nat
      /\ f \in Framing!Frames
  BY WrittenIs
<1>3. Framing!Encoded(f, k) = x \o y \o z
  BY DEF Framing!Encoded, Framing!FromClient
<1>4. x \in Seq(WireUnits) /\ Len(x) = 2
  BY <1>1, <1>2, ConstantsAre DEF WireUnits, Framing!First, Framing!Second, Framing!LengthByte
<1>5. /\ y \in Seq(WireUnits) /\ Len(y) = ExtLen(n)
      /\ \A i \in 1..ExtLen(n) : y[i] = [unit |-> n]
  <2>1. /\ Framing!Extended(n) \in Seq(Nat) /\ Len(Framing!Extended(n)) = ExtLen(n)
        /\ \A i \in 1..ExtLen(n) : Framing!Extended(n)[i] = n
    <3>1. CASE n > Short
      <4>1. Framing!Extended(n) = <<n>> /\ ExtLen(n) = 1
        BY <1>2, <3>1, ExtendedIs DEF ExtLen
      <4> QED
        BY <1>2, <4>1
    <3>2. CASE ~(n > Short)
      <4>1. Framing!Extended(n) = <<>> /\ ExtLen(n) = 0
        BY <1>2, <3>2, ExtendedIs DEF ExtLen
      <4> QED
        BY <4>1
    <3> QED
      BY <3>1, <3>2
  <2> QED
    BY <2>1, UnitsAre
<1>6. /\ b \in Seq({0, 1}) /\ Len(b) = MaskLen(c) + n
      /\ \A i \in 1..MaskLen(c) : b[i] = k[i]
      /\ \A i \in 1..n : b[MaskLen(c) + i] = Body(c, f, k)[i]
  <2>1. CASE c
    <3>1. k \in Masks
      BY <2>1 DEF KeySet
    <3>2. k \in Seq({0, 1}) /\ Len(k) = KeyLen
      BY <3>1, ConstantsAre DEF Framing!FrameAssumption
    <3> DEFINE m == Framing!Mask(f.payload, k)
    <3>3. m \in Seq({0, 1}) /\ Len(m) = n
      BY <1>2, <3>1, MaskTwice
    <3> HIDE DEF m
    <3>4. /\ k \o m \in Seq({0, 1}) /\ Len(k \o m) = KeyLen + n
          /\ \A i \in 1..(KeyLen + n) : (k \o m)[i] = IF i <= KeyLen THEN k[i] ELSE m[i - KeyLen]
      <4>1. /\ k \o m \in Seq({0, 1}) /\ Len(k \o m) = Len(k) + Len(m)
            /\ \A i \in 1..(Len(k) + Len(m)) :
                 (k \o m)[i] = IF i <= Len(k) THEN k[i] ELSE m[i - Len(k)]
        BY <3>2, <3>3, ConcatProperties
      <4> QED
        BY <3>2, <3>3, <4>1
    <3>5. /\ KeyLen \in Nat
          /\ \A i \in 1..KeyLen : i \in 1..(KeyLen + n) /\ i <= KeyLen
          /\ \A i \in 1..n : /\ KeyLen + i \in 1..(KeyLen + n) /\ ~(KeyLen + i <= KeyLen)
                             /\ KeyLen + i - KeyLen = i
      BY <1>2, ConstantsAre, SMTT(20)
    <3>6. b = k \o m /\ MaskLen(c) = KeyLen /\ Body(c, f, k) = m
      BY <2>1 DEF m, Body, MaskLen
    <3> HIDE DEF b
    <3> QED
      BY <3>4, <3>5, <3>6
  <2>2. CASE ~c
    BY <1>2, <2>2 DEF Body, MaskLen
  <2> QED
    BY <2>1, <2>2
<1>7. /\ z \in Seq(WireUnits) /\ Len(z) = MaskLen(c) + n
      /\ \A i \in 1..(MaskLen(c) + n) : z[i] = [unit |-> b[i]]
  <2>1. b \in Seq(Nat)
    BY <1>6, SeqMonotonic
  <2> QED
    BY <2>1, <1>6, UnitsAre
<1>8. /\ MaskLen(c) \in Nat /\ ExtLen(n) \in 0..1 /\ Before(c, n) = 2 + ExtLen(n) + MaskLen(c)
      /\ Size(c, f) = 2 + ExtLen(n) + MaskLen(c) + n
  BY <1>1, <1>2, SizeIs
<1>9. x[1] = Framing!First(f.final, FALSE, f.opcode) /\ x[2] = Framing!Second(c, Framing!LengthByte(n))
  OBVIOUS
<1> HIDE DEF x, y, z, b
<1>10. /\ x \o y \o z \in Seq(WireUnits)
       /\ Len(x \o y \o z) = Size(c, f)
       /\ \A j \in 1..Size(c, f) :
            (x \o y \o z)[j] = IF j <= 2 THEN x[j] ELSE IF j <= 2 + ExtLen(n) THEN y[j - 2]
                                ELSE z[j - 2 - ExtLen(n)]
  <2> HIDE DEF c, n
  <2> DEFINE xy == x \o y
  <2>1. /\ xy \in Seq(WireUnits) /\ Len(xy) = 2 + ExtLen(n)
        /\ \A j \in 1..(2 + ExtLen(n)) : xy[j] = IF j <= 2 THEN x[j] ELSE y[j - 2]
    <3>1. /\ x \o y \in Seq(WireUnits) /\ Len(x \o y) = Len(x) + Len(y)
          /\ \A j \in 1..(Len(x) + Len(y)) : (x \o y)[j] = IF j <= Len(x) THEN x[j] ELSE y[j - Len(x)]
      BY <1>4, <1>5, ConcatProperties
    <3> QED
      BY <1>4, <1>5, <3>1
  <2> HIDE DEF xy
  <2>2. /\ xy \o z \in Seq(WireUnits) /\ Len(xy \o z) = 2 + ExtLen(n) + (MaskLen(c) + n)
        /\ \A j \in 1..(2 + ExtLen(n) + (MaskLen(c) + n)) :
             (xy \o z)[j] = IF j <= 2 + ExtLen(n) THEN xy[j] ELSE z[j - (2 + ExtLen(n))]
    BY <1>7, <1>8, <2>1, ConcatProperties
  <2>3. /\ n \in Nat /\ Size(c, f) = 2 + ExtLen(n) + (MaskLen(c) + n) /\ Size(c, f) \in Nat
    BY <1>2, <1>8 DEF n
  <2> SUFFICES ASSUME NEW j \in 1..Size(c, f)
               PROVE  (xy \o z)[j] = IF j <= 2 THEN x[j] ELSE IF j <= 2 + ExtLen(n) THEN y[j - 2]
                                     ELSE z[j - 2 - ExtLen(n)]
    BY <2>2, <2>3 DEF xy
  <2>4. (xy \o z)[j] = IF j <= 2 + ExtLen(n) THEN xy[j] ELSE z[j - (2 + ExtLen(n))]
    BY <2>2, <2>3
  <2>5. j - (2 + ExtLen(n)) = j - 2 - ExtLen(n) /\ (j <= 2 => j <= 2 + ExtLen(n))
    BY <1>8, <2>3
  <2>6. j <= 2 + ExtLen(n) => xy[j] = IF j <= 2 THEN x[j] ELSE y[j - 2]
    BY <1>8, <2>1, <2>3
  <2> QED
    BY <2>4, <2>5, <2>6
<1> SUFFICES ASSUME NEW j \in 1..Size(c, f) PROVE Framing!Encoded(f, k)[j] = UnitOf(c, f, k, j)
  BY <1>3, <1>10
<1>15. UnitOf(c, f, k, j) = IF j = 1 THEN Framing!First(f.final, FALSE, f.opcode)
                          ELSE IF j = 2 THEN Framing!Second(c, Framing!LengthByte(n))
                          ELSE IF j <= 2 + ExtLen(n) THEN [unit |-> n]
                          ELSE IF j <= Before(c, n) THEN [unit |-> k[j - 2 - ExtLen(n)]]
                          ELSE [unit |-> Body(c, f, k)[j - Before(c, n)]]
  BY DEF UnitOf
<1>16. n \in Nat /\ Size(c, f) \in Nat /\ j \in Nat /\ j >= 1 /\ j <= Size(c, f)
  BY <1>2, <1>8
<1>17. Framing!Encoded(f, k)[j] = IF j <= 2 THEN x[j] ELSE IF j <= 2 + ExtLen(n) THEN y[j - 2]
                          ELSE z[j - 2 - ExtLen(n)]
  BY <1>3, <1>10
<1> HIDE DEF c, n
<1>11. CASE j <= 2
  <2>1. j = 1 \/ j = 2
    BY <1>11, <1>16
  <2>2. Framing!Encoded(f, k)[j] = x[j]
    BY <1>11, <1>17
  <2> QED
    BY <1>9, <1>15, <2>1, <2>2
<1>12. CASE j > 2 /\ j <= 2 + ExtLen(n)
  <2>1. j - 2 \in 1..ExtLen(n) /\ ~(j <= 2) /\ j # 1 /\ j # 2
    BY <1>8, <1>12, <1>16
  <2> QED
    BY <1>5, <1>12, <1>15, <1>17, <2>1
<1>13. CASE j > 2 + ExtLen(n) /\ j <= Before(c, n)
  <2>1. /\ j - 2 - ExtLen(n) \in 1..MaskLen(c) /\ ~(j <= 2) /\ ~(j <= 2 + ExtLen(n))
        /\ j - 2 - ExtLen(n) \in 1..(MaskLen(c) + n) /\ j # 1 /\ j # 2
    BY <1>8, <1>13, <1>16
  <2> QED
    BY <1>6, <1>7, <1>13, <1>15, <1>17, <2>1
<1>14. CASE j > Before(c, n)
  <2> DEFINE i == j - Before(c, n)
  <2>1. /\ i \in 1..n /\ j - 2 - ExtLen(n) = MaskLen(c) + i /\ ~(j <= 2) /\ ~(j <= 2 + ExtLen(n))
        /\ MaskLen(c) + i \in 1..(MaskLen(c) + n) /\ j # 1 /\ j # 2 /\ ~(j <= Before(c, n))
    BY <1>8, <1>14, <1>16
  <2> HIDE DEF i
  <2>2. Framing!Encoded(f, k)[j] = [unit |-> Body(c, f, k)[i]]
    BY <1>6, <1>7, <1>17, <2>1
  <2> QED
    BY <1>15, <2>1, <2>2 DEF i
<1> QED
  BY <1>8, <1>16, <1>11, <1>12, <1>13, <1>14

-----------------------------------------------------------------------------
(* How the wire changes: it grows at its end, is cut there, and is read    *)
(* from its front.                                                         *)

\* Another frame is written.
LEMMA LaidGrows ==
    ASSUME Framing!FrameAssumption, NEW c \in BOOLEAN, NEW w \in Seq(WireUnits),
           NEW fs \in Seq(Framing!Frames),
           NEW r \in 0..Len(fs), NEW pos, NEW ks, Laid(c, w, fs, r, pos, ks),
           Len(w) = pos[Len(fs)], NEW f \in Framing!Frames, NEW k \in KeySet(c),
               NEW u \in Seq(WireUnits),
           Len(u) = Size(c, f), \A j \in 1..Size(c, f) : u[j] = UnitOf(c, f, k, j)
    PROVE  \E more, keys :
              /\ Laid(c, w \o u, Append(fs, f), r, more, keys)
              /\ more[Len(fs) + 1] = Len(w \o u)
              /\ more[r] = pos[r]
              /\ r < Len(fs) => keys[r + 1] = ks[r + 1]
<1> DEFINE n == Len(fs)
           gs == Append(fs, f)
           v == w \o u
           more == [i \in 0..(n + 1) |-> IF i <= n THEN pos[i] ELSE Len(w) + Size(c, f)]
           keys == [i \in 1..(n + 1) |-> IF i <= n THEN ks[i] ELSE k]
<1>1. /\ n \in Nat /\ Len(w) \in Nat /\ Size(c, f) \in Nat /\ r \in Nat /\ r <= n
      /\ pos \in [0..n -> Int] /\ ks \in [1..n -> KeySet(c)] /\ Len(w) = pos[n]
  BY SizeIs DEF Laid
<1>2. /\ gs \in Seq(Framing!Frames) /\ Len(gs) = n + 1 /\ gs[n + 1] = f
      /\ \A i \in 1..n : gs[i] = fs[i]
  BY AppendProperties
<1>3. /\ v \in Seq(WireUnits) /\ Len(v) = Len(w) + Size(c, f)
      /\ \A i \in 1..(Len(w) + Size(c, f)) : v[i] = IF i <= Len(w) THEN w[i] ELSE u[i - Len(w)]
  <2>1. /\ w \o u \in Seq(WireUnits) /\ Len(w \o u) = Len(w) + Len(u)
        /\ \A i \in 1..(Len(w) + Len(u)) : (w \o u)[i] = IF i <= Len(w) THEN w[i] ELSE u[i - Len(w)]
    BY ConcatProperties
  <2> QED
    BY <2>1
<1>4. /\ more \in [0..(n + 1) -> Int] /\ more[n + 1] = Len(w) + Size(c, f)
      /\ \A i \in 0..n : more[i] = pos[i]
  BY <1>1
<1>5. /\ keys \in [1..(n + 1) -> KeySet(c)] /\ keys[n + 1] = k
      /\ \A i \in 1..n : keys[i] = ks[i]
  BY <1>1
<1> HIDE DEF n, gs, v, more, keys
<1>6. ASSUME NEW i \in (r + 1)..(n + 1)
      PROVE  /\ more[i] = more[i - 1] + Size(c, gs[i])
             /\ \A j \in 1..Size(c, gs[i]) :
                  more[i - 1] + j \in 1..Len(v) => v[more[i - 1] + j] = UnitOf(c, gs[i], keys[i], j)
  <2>1. CASE i = n + 1
    <3>1. i - 1 = n /\ i - 1 \in 0..n /\ more[i - 1] = Len(w) /\ gs[i] = f /\ keys[i] = k
      BY <1>1, <1>2, <1>4, <1>5, <2>1
    <3>2. ASSUME NEW j \in 1..Size(c, f)
          PROVE  v[Len(w) + j] = UnitOf(c, f, k, j)
      <4> DEFINE x == Len(w) + j
      <4>1. x \in 1..(Len(w) + Size(c, f)) /\ ~(x <= Len(w)) /\ x - Len(w) = j
        BY <1>1
      <4> HIDE DEF x
      <4>2. v[x] = u[x - Len(w)]
        BY <1>3, <4>1
      <4> QED
        BY <4>1, <4>2 DEF x
    <3> QED
      BY <1>4, <2>1, <3>1, <3>2
  <2>2. CASE i <= n
    <3>1. /\ i \in (r + 1)..n /\ i \in 1..n /\ i - 1 \in 0..n /\ i \in 0..n /\ i \in r..n
      BY <1>1, <2>2
    <3>2. /\ more[i] = pos[i] /\ more[i - 1] = pos[i - 1] /\ gs[i] = fs[i] /\ keys[i] = ks[i]
      BY <1>2, <1>4, <1>5, <3>1
    <3>3. pos[i] = pos[i - 1] + Size(c, fs[i]) /\ pos[i] <= Len(w)
      BY <1>1, <3>1 DEF Laid, n
    <3>4. fs[i] \in Framing!Frames
      BY <3>1, ElementOfSeq DEF n
    <3>5. Size(c, fs[i]) \in Nat /\ pos[i - 1] \in Int
      BY <1>1, <3>1, <3>4, SizeIs
    <3>6. ASSUME NEW j \in 1..Size(c, fs[i]), pos[i - 1] + j \in 1..Len(v)
          PROVE  v[pos[i - 1] + j] = UnitOf(c, fs[i], ks[i], j)
      <4>1. pos[i - 1] + j \in 1..Len(w) /\ pos[i - 1] + j <= Len(w)
        <5>1. pos[i - 1] + j >= 1 /\ j \in Nat /\ j <= Size(c, fs[i])
          BY <3>5, <3>6
        <5> QED
          BY <1>1, <3>3, <3>5, <5>1, SMTT(20)
      <4>2. v[pos[i - 1] + j] = w[pos[i - 1] + j]
        <5>1. pos[i - 1] + j \in 1..(Len(w) + Size(c, f))
          BY <1>1, <4>1
        <5> QED
          BY <1>3, <4>1, <5>1
      <4> QED
        BY <3>1, <4>1, <4>2 DEF Laid, n
    <3> QED
      BY <3>2, <3>3, <3>6
  <2> QED
    BY <1>1, <2>1, <2>2
<1>7. ASSUME NEW i \in r..(n + 1) PROVE more[i] <= more[n + 1]
  <2>1. CASE i = n + 1
    BY <1>1, <1>4, <2>1
  <2>2. CASE i <= n
    <3>1. i \in r..n /\ i \in 0..n
      BY <1>1, <2>2
    <3>2. pos[i] <= Len(w) /\ pos[i] \in Int
      BY <1>1, <3>1 DEF Laid, n
    <3> QED
      BY <1>1, <1>4, <3>1, <3>2
  <2> QED
    BY <1>1, <2>1, <2>2
<1>8. Laid(c, v, gs, r, more, keys)
  BY <1>2, <1>4, <1>5, <1>6, <1>7 DEF Laid
<1>9. more[r] = pos[r] /\ (r < n => keys[r + 1] = ks[r + 1]) /\ more[n + 1] = Len(v)
  BY <1>1, <1>3, <1>4, <1>5
<1> QED
  BY <1>8, <1>9 DEF v, gs, n

\* Something else is written after the frames.
LEMMA LaidFollowed ==
    ASSUME Framing!FrameAssumption, NEW c \in BOOLEAN, NEW w \in Seq(WireUnits),
           NEW fs \in Seq(Framing!Frames),
           NEW r \in 0..Len(fs), NEW pos, NEW ks, Laid(c, w, fs, r, pos, ks),
           Len(w) = pos[Len(fs)], NEW u \in Seq(WireUnits)
    PROVE  Laid(c, w \o u, fs, r, pos, ks)
<1> DEFINE v == w \o u
<1>1. /\ v \in Seq(WireUnits) /\ Len(v) = Len(w) + Len(u) /\ Len(w) \in Nat /\ Len(u) \in Nat
      /\ \A i \in 1..(Len(w) + Len(u)) : v[i] = IF i <= Len(w) THEN w[i] ELSE u[i - Len(w)]
  <2>1. /\ w \o u \in Seq(WireUnits) /\ Len(w \o u) = Len(w) + Len(u)
        /\ \A i \in 1..(Len(w) + Len(u)) : (w \o u)[i] = IF i <= Len(w) THEN w[i] ELSE u[i - Len(w)]
    BY ConcatProperties
  <2> QED
    BY <2>1, LenProperties
<1> HIDE DEF v
<1>2. ASSUME NEW i \in (r + 1)..Len(fs), NEW j \in 1..Size(c, fs[i]), pos[i - 1] + j \in 1..Len(v)
      PROVE  v[pos[i - 1] + j] = UnitOf(c, fs[i], ks[i], j)
  <2>1. /\ i \in 1..Len(fs) /\ i - 1 \in 0..Len(fs) /\ i \in r..Len(fs) /\ fs[i] \in Framing!Frames
    BY ElementOfSeq
  <2>2. pos[i - 1] \in Int /\ pos[i] = pos[i - 1] + Size(c, fs[i]) /\ pos[i] <= Len(w)
    BY <2>1 DEF Laid
  <2>3. Size(c, fs[i]) \in Nat
    BY <2>1, SizeIs
  <2>4. pos[i - 1] + j \in 1..Len(w) /\ pos[i - 1] + j <= Len(w)
    BY <1>1, <1>2, <2>2, <2>3, SMTT(20)
  <2>5. v[pos[i - 1] + j] = w[pos[i - 1] + j]
    BY <1>1, <1>2, <2>4
  <2> QED
    BY <2>4, <2>5 DEF Laid
<1>3. Laid(c, v, fs, r, pos, ks)
  BY <1>2 DEF Laid
<1> QED
  BY <1>3 DEF v

\* The stream is cut.
LEMMA LaidCut ==
    ASSUME Framing!FrameAssumption, NEW c \in BOOLEAN, NEW w \in Seq(WireUnits),
           NEW fs \in Seq(Framing!Frames),
           NEW r \in 0..Len(fs), NEW pos, NEW ks, Laid(c, w, fs, r, pos, ks), NEW n \in 0..Len(w)
    PROVE  Laid(c, SubSeq(w, 1, n), fs, r, pos, ks)
<1> DEFINE v == SubSeq(w, 1, n)
<1>1. Len(v) = n /\ \A x \in 1..n : v[x] = w[x] /\ x \in 1..Len(w)
  BY SubSeqProperties
<1> HIDE DEF v
<1>2. ASSUME NEW i \in (r + 1)..Len(fs), NEW j \in 1..Size(c, fs[i]), pos[i - 1] + j \in 1..Len(v)
      PROVE  v[pos[i - 1] + j] = UnitOf(c, fs[i], ks[i], j)
  <2>1. v[pos[i - 1] + j] = w[pos[i - 1] + j] /\ pos[i - 1] + j \in 1..Len(w)
    BY <1>1, <1>2
  <2> QED
    BY <2>1 DEF Laid
<1>3. Laid(c, v, fs, r, pos, ks)
  BY <1>2 DEF Laid
<1> QED
  BY <1>3 DEF v

\* A sequence without its first m elements.
LEMMA RestIs ==
    ASSUME NEW S, NEW w \in Seq(S), NEW m \in 0..Len(w)
    PROVE  /\ SubSeq(w, m + 1, Len(w)) \in Seq(S)
           /\ Len(SubSeq(w, m + 1, Len(w))) = Len(w) - m
           /\ \A x \in 1..(Len(w) - m) :
                SubSeq(w, m + 1, Len(w))[x] = w[x + m] /\ x + m \in 1..Len(w)
  OBVIOUS

\* The first m bytes are read.
LEMMA LaidRead ==
    ASSUME Framing!FrameAssumption, NEW c \in BOOLEAN, NEW w \in Seq(WireUnits),
           NEW fs \in Seq(Framing!Frames),
           NEW r \in 0..Len(fs), NEW pos, NEW ks, Laid(c, w, fs, r, pos, ks), NEW m \in 0..Len(w),
           NEW less, less = [i \in 0..Len(fs) |-> pos[i] - m]
    PROVE  Laid(c, SubSeq(w, m + 1, Len(w)), fs, r, less, ks)
<1> DEFINE v == SubSeq(w, m + 1, Len(w))
<1>1. /\ Len(v) = Len(w) - m /\ Len(w) \in Nat /\ m \in Nat
      /\ \A x \in 1..(Len(w) - m) : v[x] = w[x + m] /\ x + m \in 1..Len(w)
  BY RestIs
<1> HIDE DEF v
<1>2. /\ pos \in [0..Len(fs) -> Int] /\ less \in [0..Len(fs) -> Int] /\ Len(fs) \in Nat
      /\ \A i \in 0..Len(fs) : less[i] = pos[i] - m
  BY <1>1 DEF Laid
<1>3. ASSUME NEW i \in (r + 1)..Len(fs)
      PROVE  /\ less[i] = less[i - 1] + Size(c, fs[i])
             /\ \A j \in 1..Size(c, fs[i]) :
                  less[i - 1] + j \in 1..Len(v) => v[less[i - 1] + j] = UnitOf(c, fs[i], ks[i], j)
  <2>1. i \in 0..Len(fs) /\ i - 1 \in 0..Len(fs) /\ i \in 1..Len(fs)
    BY <1>2
  <2>2. fs[i] \in Framing!Frames
    BY <2>1, ElementOfSeq
  <2>3. Size(c, fs[i]) \in Nat
    BY <2>2, SizeIs
  <2>4. pos[i] = pos[i - 1] + Size(c, fs[i]) /\ pos[i - 1] \in Int
    BY <1>2, <2>1 DEF Laid
  <2>5. less[i] = pos[i] - m /\ less[i - 1] = pos[i - 1] - m
    BY <1>2, <2>1
  <2>6. ASSUME NEW j \in 1..Size(c, fs[i]), less[i - 1] + j \in 1..Len(v)
        PROVE  v[less[i - 1] + j] = UnitOf(c, fs[i], ks[i], j)
    <3>1. less[i - 1] + j + m = pos[i - 1] + j
      BY <1>1, <2>3, <2>4, <2>5, SMTT(20)
    <3>2. v[less[i - 1] + j] = w[pos[i - 1] + j] /\ pos[i - 1] + j \in 1..Len(w)
      BY <1>1, <2>6, <3>1
    <3> QED
      BY <3>2 DEF Laid
  <2>7. less[i] = less[i - 1] + Size(c, fs[i])
    BY <1>1, <2>3, <2>4, <2>5
  <2> QED
    BY <2>6, <2>7
<1>4. ASSUME NEW i \in r..Len(fs) PROVE less[i] <= less[Len(fs)]
  <2>1. i \in 0..Len(fs) /\ Len(fs) \in 0..Len(fs)
    BY <1>2
  <2>2. pos[i] <= pos[Len(fs)] /\ pos[i] \in Int /\ pos[Len(fs)] \in Int
    BY <1>2, <2>1 DEF Laid
  <2> QED
    BY <1>1, <1>2, <2>1, <2>2
<1>5. Laid(c, v, fs, r, less, ks)
  BY <1>2, <1>3, <1>4 DEF Laid
<1> QED
  BY <1>5 DEF v

\* A frame is returned.
LEMMA LaidNext ==
    ASSUME NEW c, NEW w, NEW fs \in Seq(Framing!Frames), NEW r \in Nat, NEW pos, NEW ks,
           Laid(c, w, fs, r, pos, ks)
    PROVE  Laid(c, w, fs, r + 1, pos, ks)
<1>1. (r + 2)..Len(fs) \subseteq (r + 1)..Len(fs) /\ (r + 1)..Len(fs) \subseteq r..Len(fs)
  OBVIOUS
<1>2. r + 1 + 1 = r + 2
  OBVIOUS
<1> QED
  BY <1>1, <1>2 DEF Laid

\* What follows the frames is read past like them.
LEMMA FollowedRead ==
    ASSUME NEW w \in Seq(WireUnits), NEW p \in Int, NEW e, NEW o, Followed(w, p, e, o),
           NEW m \in 0..Len(w), o = <<>> \/ Len(o[3]) \in Nat
    PROVE  Followed(SubSeq(w, m + 1, Len(w)), p - m, e, o)
<1> DEFINE v == SubSeq(w, m + 1, Len(w))
<1>1. /\ Len(v) = Len(w) - m /\ Len(w) \in Nat /\ m \in Nat
      /\ \A x \in 1..(Len(w) - m) : v[x] = w[x + m] /\ x + m \in 1..Len(w)
  BY RestIs
<1> HIDE DEF v
<1>2. ASSUME NEW d \in 1..3, p - m + d \in 1..Len(v)
      PROVE  p + d \in 1..Len(w) /\ v[p - m + d] = w[p + d]
  <2>1. p - m + d + m = p + d
    OBVIOUS
  <2> QED
    BY <1>1, <1>2, <2>1
<1>3. ~e => Len(v) = p - m
  BY <1>1 DEF Followed
<1>4. o = <<>> => Len(v) <= p - m
  BY <1>1 DEF Followed
<1>5. ASSUME o # <<>>
      PROVE  /\ Len(v) = p - m + 2 + Len(o[3])
             /\ p - m + 1 \in 1..Len(v) => v[p - m + 1] = o[1]
             /\ p - m + 2 \in 1..Len(v) => v[p - m + 2] = o[2]
             /\ p - m + 3 \in 1..Len(v) => v[p - m + 3] = [unit |-> o[3][1]]
  <2>1. /\ Len(w) = p + 2 + Len(o[3])
        /\ p + 1 \in 1..Len(w) => w[p + 1] = o[1]
        /\ p + 2 \in 1..Len(w) => w[p + 2] = o[2]
        /\ p + 3 \in 1..Len(w) => w[p + 3] = [unit |-> o[3][1]]
    BY <1>5 DEF Followed
  <2>2. Len(v) = p - m + 2 + Len(o[3])
    BY <1>1, <1>5, <2>1
  <2>3. p - m + 1 \in 1..Len(v) => p + 1 \in 1..Len(w) /\ v[p - m + 1] = w[p + 1]
    BY <1>2
  <2>4. p - m + 2 \in 1..Len(v) => p + 2 \in 1..Len(w) /\ v[p - m + 2] = w[p + 2]
    BY <1>2
  <2>5. p - m + 3 \in 1..Len(v) => p + 3 \in 1..Len(w) /\ v[p - m + 3] = w[p + 3]
    BY <1>2
  <2> QED
    BY <2>1, <2>2, <2>3, <2>4, <2>5
<1>6. Followed(v, p - m, e, o)
  BY <1>3, <1>4, <1>5 DEF Followed
<1> QED
  BY <1>6 DEF v

-----------------------------------------------------------------------------
(* The writing end.                                                        *)

\* What the writing end leaves alone, and what that keeps.
LEMMA IdleKeeps ==
    ASSUME InProgress, Framing!AllocationBounded, UNCHANGED Framing!Idle
    PROVE  InProgress' /\ Framing!AllocationBounded'
  BY DEF Framing!Idle, InProgress, Framing!SizeWrong, Framing!Limit, Framing!AllocationBounded

\* The counters of frames.
LEMMA CountsAre ==
    ASSUME FramingTyped, Framing!ReadBack
    PROVE  /\ Len(framed) \in Nat /\ Len(handed) \in 0..Len(framed) /\ Len(stream) \in Nat
           /\ Len(handed) < Len(framed) => framed[Len(handed) + 1] \in Framing!Frames
           /\ \A i \in 1..Len(handed) : handed[i] = framed[i]
<1>1. Len(framed) \in Nat /\ Len(handed) \in Nat /\ Len(stream) \in Nat /\ Len(handed) <= Len(framed)
  BY LenProperties DEF FramingTyped, Framing!ReadBack
<1>2. ASSUME Len(handed) < Len(framed) PROVE framed[Len(handed) + 1] \in Framing!Frames
  <2>1. Len(handed) + 1 \in 1..Len(framed)
    BY <1>1, <1>2
  <2> QED
    BY <2>1, ElementOfSeq DEF FramingTyped
<1>3. \A i \in 1..Len(handed) : handed[i] = framed[i]
  BY DEF FramingTyped, Framing!ReadBack
<1> QED
  BY <1>1, <1>2, <1>3

LEMMA ClientIs == ASSUME Framing!FrameAssumption, FramingTyped PROVE end.fromClient \in BOOLEAN
    /\ end.limit \in Nat
  BY DEF Framing!FrameAssumption, FramingTyped

\* A write changes nothing ReadFrame has returned or refused.
LEMMA RefusalKept ==
    ASSUME FramingTyped, Framing!ReadBack, Framing!RefusedForCause, odd = <<>>, UNCHANGED Framing!Idle,
           \/ framed' = framed
           \/ \E f : framed' = Append(framed, f)
    PROVE  Framing!RefusedForCause'
<1>1. Len(framed) \in Nat /\ Len(handed) \in 0..Len(framed)
  BY CountsAre
<1>2. end' = end /\ handed' = handed /\ err' = err /\ Framing!Limit' = Framing!Limit
  BY DEF Framing!Idle, Framing!Limit
<1> SUFFICES ASSUME err \notin {"none", "EOF"}
             PROVE  /\ Len(handed) < Len(framed')
                    /\ framed'[Len(handed) + 1].opcode \in Framing!Data
                    /\ Framing!Limit > 0
                    /\ Len(framed'[Len(handed) + 1].payload) > Framing!Limit
  BY <1>2 DEF Framing!RefusedForCause
<1>3. /\ Len(handed) < Len(framed)
      /\ framed[Len(handed) + 1].opcode \in Framing!Data
      /\ Framing!Limit > 0
      /\ Len(framed[Len(handed) + 1].payload) > Framing!Limit
  BY DEF Framing!RefusedForCause, Framing!AtOdd
<1>4. Len(handed) < Len(framed') /\ framed'[Len(handed) + 1] = framed[Len(handed) + 1]
  <2>1. CASE framed' = framed
    BY <1>3, <2>1
  <2>2. ASSUME NEW f, framed' = Append(framed, f)
        PROVE  Len(handed) < Len(framed') /\ framed'[Len(handed) + 1] = framed[Len(handed) + 1]
    <3>1. Len(handed) + 1 \in 1..Len(framed)
      BY <1>1, <1>3
    <3>2. Len(framed') = Len(framed) + 1 /\ \A i \in 1..Len(framed) : framed'[i] = framed[i]
      BY <2>2 DEF FramingTyped
    <3> QED
      BY <1>1, <3>1, <3>2
  <2> QED
    BY <2>1, <2>2
<1> QED
  BY <1>3, <1>4

LEMMA WriteFrameStep ==
    ASSUME Framing!FrameAssumption, FramingInv, NEW f \in Framing!Frames,
           NEW k \in KeySet(end.fromClient),
           Framing!WriteFrame(f, k)
    PROVE  FramingInv'
<1> DEFINE c == end.fromClient
<1>1. /\ ~ended /\ odd = <<>> /\ Framing!Writable(f) /\ stream' = stream \o Framing!Encoded(f, k)
      /\ framed' = Append(framed, f) /\ UNCHANGED <<ended, odd, Framing!Idle>> /\ UNCHANGED Framing!Idle
      /\ UNCHANGED <<end, pc, head, mask, got, alloc, err, handed, ended, odd>>
  BY DEF Framing!WriteFrame, Framing!Idle, FramingInv, FramingTyped
<1>2. c \in BOOLEAN /\ end \in Ends
  BY ClientIs DEF FramingInv, FramingTyped
<1>3. /\ Framing!Encoded(f, k) \in Seq(WireUnits) /\ Len(Framing!Encoded(f, k)) = Size(c, f)
      /\ \A j \in 1..Size(c, f) : Framing!Encoded(f, k)[j] = UnitOf(c, f, k, j)
  BY <1>2, EncodedIs
<1>4. stream' \in Seq(WireUnits)
  BY <1>1, <1>3, ConcatProperties DEF FramingInv, FramingTyped
<1>5. /\ framed' \in Seq(Framing!Frames) /\ Len(framed') = Len(framed) + 1
           /\ framed'[Len(framed) + 1] = f
      /\ \A i \in 1..Len(framed) : framed'[i] = framed[i]
  BY <1>1, AppendProperties DEF FramingInv, FramingTyped
<1>6. /\ Len(framed) \in Nat /\ Len(handed) \in 0..Len(framed)
      /\ \A i \in 1..Len(handed) : handed[i] = framed[i]
  BY CountsAre DEF FramingInv
<1>7. FramingTyped'
  <2>1. \A i \in 1..Len(framed') : Framing!Writable(framed'[i])
    <3> SUFFICES ASSUME NEW i \in 1..(Len(framed) + 1) PROVE Framing!Writable(framed'[i])
      BY <1>5
    <3>1. i = Len(framed) + 1 \/ i \in 1..Len(framed)
      BY <1>6
    <3> QED
      BY <1>1, <1>5, <3>1 DEF FramingInv, FramingTyped
  <2> QED
    BY <1>1, <1>4, <1>5, <2>1 DEF FramingInv, FramingTyped, Framing!Writable
<1>8. Framing!ReadBack'
  <2>1. DOMAIN handed = 1..Len(handed)
    BY DEF FramingInv, FramingTyped
  <2> QED
    BY <1>1, <1>5, <1>6, <2>1 DEF Framing!ReadBack
<1>9. Framing!RefusedForCause'
  BY <1>1, RefusalKept DEF FramingInv
<1>10. ASSUME pc # "failed" PROVE \E pos, ks : Placed(pos, ks)'
  <2>1. PICK pos, ks : Placed(pos, ks)
    BY <1>10 DEF FramingInv
  <2>2. Laid(c, stream, framed, Len(handed), pos, ks) /\ Len(stream) = pos[Len(framed)]
    BY <1>1, <2>1 DEF Placed, Followed
  <2>3. PICK more, keys :
              /\ Laid(c, stream \o Framing!Encoded(f, k), Append(framed, f), Len(handed), more, keys)
              /\ more[Len(framed) + 1] = Len(stream \o Framing!Encoded(f, k))
              /\ more[Len(handed)] = pos[Len(handed)]
              /\ Len(handed) < Len(framed) => keys[Len(handed) + 1] = ks[Len(handed) + 1]
    <3> DEFINE u == Framing!Encoded(f, k)
    <3>1. u \in Seq(WireUnits) /\ Len(u) = Size(c, f)
          /\ \A j \in 1..Size(c, f) : u[j] = UnitOf(c, f, k, j)
      BY <1>3
    <3>2. stream \in Seq(WireUnits) /\ framed \in Seq(Framing!Frames)
      BY DEF FramingInv, FramingTyped
    <3>4. k \in KeySet(c) /\ c \in BOOLEAN /\ Laid(c, stream, framed, Len(handed), pos, ks)
      BY <1>2, <2>2
    <3> HIDE DEF u, c
    <3>3. \E more, keys :
              /\ Laid(c, stream \o u, Append(framed, f), Len(handed), more, keys)
              /\ more[Len(framed) + 1] = Len(stream \o u)
              /\ more[Len(handed)] = pos[Len(handed)]
              /\ Len(handed) < Len(framed) => keys[Len(handed) + 1] = ks[Len(handed) + 1]
      BY <1>6, <2>2, <3>1, <3>2, <3>4, LaidGrows, SMTT(20)
    <3> QED
      BY <3>3 DEF u, c
  <2>5. Followed(stream', more[Len(framed')], ended', odd')
    <3>1. Len(stream') = more[Len(framed')] /\ Len(stream') \in Nat
      BY <1>1, <1>4, <1>5, <2>3, LenProperties
    <3> QED
      BY <1>1, <3>1 DEF Followed
  <2>6. more[Len(handed')] = - TakenSoFar'
    BY <1>1, <2>1, <2>3 DEF Placed, TakenSoFar
  <2>7. AtFrame(framed[Len(handed) + 1], keys[Len(handed) + 1])'
    <3>1. CASE Len(handed) < Len(framed)
      <4>1. framed'[Len(handed') + 1] = framed[Len(handed) + 1]
        BY <1>1, <1>5, <1>6, <3>1
      <4>2. AtFrame(framed[Len(handed) + 1], ks[Len(handed) + 1])
        BY <2>1, <3>1 DEF Placed
      <4> QED
        BY <1>1, <2>3, <3>1, <4>1, <4>2 DEF AtFrame
    <3>2. CASE Len(handed) = Len(framed)
      <4>1. pc = "head"
        BY <1>1, <2>1, <3>2 DEF Placed, AtStray
      <4> QED
        BY <1>1, <4>1 DEF AtFrame
    <3> QED
      BY <1>6, <3>1, <3>2
  <2>8. Len(handed') # Len(framed')
    BY <1>1, <1>5, <1>6
  <2>9. Placed(more, keys)'
    BY <1>1, <2>3, <2>5, <2>6, <2>7, <2>8 DEF Placed
  <2> QED
    BY <2>9
<1> QED
  BY <1>1, <1>7, <1>8, <1>9, <1>10, IdleKeeps DEF FramingInv


\* The odd header a peer may write.
LEMMA StrayIs ==
    ASSUME Framing!FrameAssumption, NEW o \in Strays
    PROVE  /\ o # <<>> /\ o = <<o[1], o[2], o[3]>>
           /\ o[1] \in [final : BOOLEAN, reserved : BOOLEAN,
                opcode : Framing!Opcodes \union {"reserved"}]
           /\ o[2] \in [masked : BOOLEAN, length : Nat]
           /\ o[3] \in Seq(Nat)
           /\ \/ o[3] = <<>> /\ Len(o[3]) = 0 /\ o[2].length \in 1..Short
              \/ /\ o[3] # <<>> /\ Len(o[3]) = 1 /\ o[3][1] \in Nat \ {0}
                 /\ \/ o[2].length = Short + 1 /\ o[3][1] <= Medium
                    \/ o[2].length = Short + 2
<1>1. PICK first \in Framing!StrayFirsts, masked \in BOOLEAN, l \in Framing!StrayLengths :
        o = <<first, Framing!Second(masked, l[1]), l[2]>>
  BY DEF Strays
<1>2. first \in [final : BOOLEAN, reserved : BOOLEAN, opcode : Framing!Opcodes \union {"reserved"}]
  BY DEF Framing!StrayFirsts, Framing!First, Framing!FrameAssumption, Framing!Opcodes, Framing!Data,
      Framing!Controls
<1>3. Declared \subseteq Nat \ {0} /\ Short \in Nat /\ Medium \in Nat
  BY DEF Framing!FrameAssumption
<1>4. \/ \E n \in Declared \intersect 0..Short : l = <<n, <<>>>>
      \/ \E n \in Declared \intersect 0..Medium : l = <<Short + 1, <<n>>>>
      \/ \E n \in Declared : l = <<Short + 2, <<n>>>>
  BY DEF Framing!StrayLengths
<1>5. /\ l[1] \in Nat /\ l[2] \in Seq(Nat)
      /\ \/ l[2] = <<>> /\ Len(l[2]) = 0 /\ l[1] \in 1..Short
         \/ /\ l[2] # <<>> /\ Len(l[2]) = 1 /\ l[2][1] \in Nat \ {0}
            /\ \/ l[1] = Short + 1 /\ l[2][1] <= Medium
               \/ l[1] = Short + 2
  <2>1. CASE \E n \in Declared \intersect 0..Short : l = <<n, <<>>>>
    BY <1>3, <2>1
  <2>2. CASE \E n \in Declared \intersect 0..Medium : l = <<Short + 1, <<n>>>>
    BY <1>3, <2>2
  <2>3. CASE \E n \in Declared : l = <<Short + 2, <<n>>>>
    BY <1>3, <2>3
  <2> QED
    BY <1>4, <2>1, <2>2, <2>3
<1>6. /\ o # <<>> /\ o[1] = first /\ o[2] = Framing!Second(masked, l[1]) /\ o[3] = l[2]
      /\ o = <<o[1], o[2], o[3]>>
  BY <1>1
<1>7. o[2] \in [masked : BOOLEAN, length : Nat] /\ o[2].length = l[1]
  BY <1>5, <1>6 DEF Framing!Second
<1> QED
  BY <1>2, <1>5, <1>6, <1>7

\* The odd header after the frames.
LEMMA StrayFollows ==
    ASSUME Framing!FrameAssumption, NEW w \in Seq(WireUnits), NEW o \in Strays
    PROVE  \E u \in Seq(WireUnits) :
              /\ w \o <<o[1], o[2]>> \o Framing!Units(o[3]) = w \o u
              /\ Followed(w \o u, Len(w), TRUE, o)
<1> DEFINE x == <<o[1], o[2]>>
           y == Framing!Units(o[3])
           u == x \o y
<1>1. /\ o[3] \in Seq(Nat) /\ Len(o[3]) \in 0..1 /\ o # <<>>
      /\ o[1] \in WireUnits /\ o[2] \in WireUnits
  BY StrayIs DEF WireUnits
<1>2. /\ x \in Seq(WireUnits) /\ Len(x) = 2 /\ x[1] = o[1] /\ x[2] = o[2]
  BY <1>1
<1>3. /\ y \in Seq(WireUnits) /\ Len(y) = Len(o[3])
      /\ \A i \in 1..Len(o[3]) : y[i] = [unit |-> o[3][i]]
  BY <1>1, UnitsAre
<1> HIDE DEF x, y
<1>4. /\ u \in Seq(WireUnits) /\ Len(u) = 2 + Len(o[3])
      /\ u[1] = o[1] /\ u[2] = o[2] /\ (Len(o[3]) = 1 => u[3] = [unit |-> o[3][1]])
  <2>1. /\ x \o y \in Seq(WireUnits) /\ Len(x \o y) = Len(x) + Len(y)
        /\ \A i \in 1..(Len(x) + Len(y)) : (x \o y)[i] = IF i <= Len(x) THEN x[i] ELSE y[i - Len(x)]
    <3>1. x \in Seq(WireUnits) /\ y \in Seq(WireUnits)
      BY <1>2, <1>3
    <3> QED
      BY <3>1, ConcatProperties
  <2>2. \A i \in 1..(2 + Len(o[3])) : u[i] = IF i <= 2 THEN x[i] ELSE y[i - 2]
    BY <1>2, <1>3, <2>1
  <2> HIDE DEF u
  <2>3. Len(o[3]) = 1 => u[3] = y[1]
    BY <2>2
  <2> QED
    BY <1>1, <1>2, <1>3, <2>1, <2>2, <2>3 DEF u
<1>5. w \o x \o y = w \o u
  BY <1>2, <1>3, ConcatAssociative, SMTT(20)
<1> HIDE DEF u
<1>6. /\ w \o u \in Seq(WireUnits) /\ Len(w \o u) = Len(w) + Len(u)
      /\ \A i \in 1..(Len(w) + Len(u)) : (w \o u)[i] = IF i <= Len(w) THEN w[i] ELSE u[i - Len(w)]
  <2>1. u \in Seq(WireUnits)
    BY <1>4
  <2> QED
    BY <2>1, ConcatProperties
<1>7. Len(w) \in Nat
  BY LenProperties
<1>8. \A d \in 1..3 : Len(w) + d <= Len(w) + Len(u) => (w \o u)[Len(w) + d] = u[d]
  BY <1>1, <1>4, <1>6, <1>7, SMTT(20)
<1> DEFINE v == w \o u
           n == Len(w)
<1>9. /\ Len(v) = n + 2 + Len(o[3]) /\ n \in Nat
      /\ \A d \in 1..3 : n + d <= n + 2 + Len(o[3]) => v[n + d] = u[d]
  <2>1. Len(u) = 2 + Len(o[3]) /\ Len(o[3]) \in Nat
    BY <1>1, <1>4
  <2>2. n + (2 + Len(o[3])) = n + 2 + Len(o[3])
    <3>1. \A a, b \in Nat : a + (2 + b) = a + 2 + b
      OBVIOUS
    <3> HIDE DEF n
    <3> QED
      BY <1>7, <2>1, <3>1 DEF n
  <2> QED
    BY <1>6, <1>7, <1>8, <2>1, <2>2
<1> HIDE DEF v, n
<1>10. Followed(v, n, TRUE, o)
  <2>1. /\ n + 1 \in 1..Len(v) => v[n + 1] = o[1]
        /\ n + 2 \in 1..Len(v) => v[n + 2] = o[2]
    BY <1>1, <1>4, <1>9
  <2>2. n + 3 \in 1..Len(v) => v[n + 3] = [unit |-> o[3][1]]
    <3> SUFFICES ASSUME n + 3 \in 1..Len(v) PROVE v[n + 3] = [unit |-> o[3][1]]
      OBVIOUS
    <3>1. Len(o[3]) = 1 /\ n + 3 <= n + 2 + Len(o[3])
      <4> DEFINE q == Len(o[3])
      <4>1. q \in 0..1 /\ Len(v) = n + 2 + q /\ n \in Nat
        BY <1>1, <1>9
      <4> HIDE DEF q
      <4>2. q = 1
        BY <4>1
      <4> QED
        BY <4>1, <4>2 DEF q
    <3>2. v[n + 3] = u[3]
      BY <1>9, <3>1
    <3> QED
      BY <1>4, <3>1, <3>2
  <2> QED
    BY <1>1, <1>9, <2>1, <2>2 DEF Followed
<1> QED
  BY <1>4, <1>5, <1>10 DEF v, n, x, y

LEMMA StrayStep ==
    ASSUME Framing!FrameAssumption, FramingInv, NEW o \in Strays, Framing!Stray(o[1], o[2], o[3])
    PROVE  FramingInv'
<1> DEFINE c == end.fromClient
<1>1. /\ ~ended /\ odd = <<>> /\ ended' = TRUE /\ framed' = framed /\ UNCHANGED Framing!Idle
      /\ stream' = stream \o <<o[1], o[2]>> \o Framing!Units(o[3])
      /\ UNCHANGED <<end, pc, head, mask, got, alloc, err, handed>>
  BY DEF Framing!Stray, Framing!Idle, FramingInv, FramingTyped
<1>2. odd' = o
  BY StrayIs DEF Framing!Stray
<1>3. stream \in Seq(WireUnits) /\ framed \in Seq(Framing!Frames) /\ c \in BOOLEAN
  BY ClientIs DEF FramingInv, FramingTyped
<1>4. PICK u \in Seq(WireUnits) : stream' = stream \o u /\ Followed(stream', Len(stream), TRUE, o)
  BY <1>1, <1>3, StrayFollows
<1>5. stream' \in Seq(WireUnits)
  BY <1>3, <1>4, ConcatProperties
<1>6. FramingTyped' /\ Framing!ReadBack' /\ InProgress' /\ Framing!AllocationBounded'
      /\ Framing!RefusedForCause'
  <2>1. Framing!RefusedForCause'
    BY <1>1, RefusalKept DEF FramingInv
  <2>2. Framing!ReadBack'
    BY <1>1 DEF FramingInv, Framing!ReadBack
  <2> QED
    BY <1>1, <1>2, <1>5, <2>1, <2>2, IdleKeeps DEF FramingInv, FramingTyped, Framing!Writable
<1>7. ASSUME pc # "failed" PROVE \E pos, ks : Placed(pos, ks)'
  <2>1. PICK pos, ks : Placed(pos, ks)
    BY <1>7 DEF FramingInv
  <2>2. Laid(c, stream, framed, Len(handed), pos, ks) /\ Len(stream) = pos[Len(framed)]
    BY <1>1, <2>1 DEF Placed, Followed
  <2>3. Len(handed) \in 0..Len(framed)
    BY CountsAre DEF FramingInv
  <2>4. Laid(c, stream', framed, Len(handed), pos, ks)
    <3> HIDE DEF c
    <3>1. Laid(c, stream \o u, framed, Len(handed), pos, ks)
      BY <1>3, <2>2, <2>3, LaidFollowed
    <3> QED
      BY <1>4, <3>1
  <2>5. Followed(stream', pos[Len(framed)], TRUE, o)
    BY <1>4, <2>2
  <2>6. pos[Len(handed)] = - TakenSoFar'
    BY <1>1, <2>1 DEF Placed, TakenSoFar
  <2>7. Len(handed) < Len(framed) => AtFrame(framed[Len(handed) + 1], ks[Len(handed) + 1])'
    BY <1>1, <2>1 DEF Placed, AtFrame
  <2>8. Len(handed) = Len(framed) => AtStray'
    BY <1>1, <1>2, <2>1, StrayIs DEF Placed, AtStray
  <2>9. Placed(pos, ks)'
    BY <1>1, <1>2, <2>4, <2>5, <2>6, <2>7, <2>8 DEF Placed
  <2> QED
    BY <2>9
<1> QED
  BY <1>1, <1>6, <1>7 DEF FramingInv

LEMMA CutStep ==
    ASSUME Framing!FrameAssumption, FramingInv, NEW n \in 0..Len(stream), Framing!Cut(n)
    PROVE  FramingInv'
<1> DEFINE c == end.fromClient
<1>1. /\ ~ended /\ odd = <<>> /\ ended' = TRUE /\ framed' = framed /\ odd' = odd
      /\ stream' = SubSeq(stream, 1, n) /\ UNCHANGED Framing!Idle
      /\ UNCHANGED <<end, pc, head, mask, got, alloc, err, handed>>
  BY DEF Framing!Cut, Framing!Idle, FramingInv, FramingTyped
<1>2. stream \in Seq(WireUnits) /\ framed \in Seq(Framing!Frames) /\ c \in BOOLEAN
  BY ClientIs DEF FramingInv, FramingTyped
<1>3. stream' \in Seq(WireUnits) /\ Len(stream') = n
  BY <1>1, <1>2, SubSeqProperties
<1>4. FramingTyped' /\ Framing!ReadBack' /\ InProgress' /\ Framing!AllocationBounded'
      /\ Framing!RefusedForCause'
  <2>1. Framing!RefusedForCause'
    BY <1>1, RefusalKept DEF FramingInv
  <2>2. Framing!ReadBack'
    BY <1>1 DEF FramingInv, Framing!ReadBack
  <2> QED
    BY <1>1, <1>3, <2>1, <2>2, IdleKeeps DEF FramingInv, FramingTyped, Framing!Writable
<1>5. ASSUME pc # "failed" PROVE \E pos, ks : Placed(pos, ks)'
  <2>1. PICK pos, ks : Placed(pos, ks)
    BY <1>5 DEF FramingInv
  <2>2. Laid(c, stream, framed, Len(handed), pos, ks) /\ Len(stream) = pos[Len(framed)]
    BY <1>1, <2>1 DEF Placed, Followed
  <2>3. Len(handed) \in 0..Len(framed) /\ Len(stream) \in Nat
    BY CountsAre DEF FramingInv
  <2>4. Laid(c, stream', framed, Len(handed), pos, ks)
    <3> HIDE DEF c
    <3>1. Laid(c, SubSeq(stream, 1, n), framed, Len(handed), pos, ks)
      BY <1>2, <2>2, <2>3, LaidCut
    <3> QED
      BY <1>1, <3>1
  <2>5. Followed(stream', pos[Len(framed)], TRUE, <<>>)
    BY <1>3, <2>2, <2>3 DEF Followed
  <2>6. pos[Len(handed)] = - TakenSoFar'
    BY <1>1, <2>1 DEF Placed, TakenSoFar
  <2>7. Len(handed) < Len(framed) => AtFrame(framed[Len(handed) + 1], ks[Len(handed) + 1])'
    BY <1>1, <2>1 DEF Placed, AtFrame
  <2>8. Len(handed) = Len(framed) => AtStray'
    BY <1>1, <2>1 DEF Placed, AtStray
  <2>9. Placed(pos, ks)'
    BY <1>1, <2>4, <2>5, <2>6, <2>7, <2>8 DEF Placed
  <2> QED
    BY <2>9
<1> QED
  BY <1>1, <1>4, <1>5 DEF FramingInv

-----------------------------------------------------------------------------
(* The reading end.                                                        *)

\* What is refused for cause is refused for this.
Cause ==
    \/ /\ Len(handed) < Len(framed)
       /\ framed[Len(handed) + 1].opcode \in Framing!Data
       /\ Framing!Limit > 0
       /\ Len(framed[Len(handed) + 1].payload) > Framing!Limit
    \/ /\ Framing!AtOdd
       /\ \/ Framing!Forbidden
          \/ odd[1].opcode \in Framing!Data /\ Framing!Limit > 0 /\ Framing!OddLength > Framing!Limit
          \/ Framing!OddLength > Ceiling

\* ReadFrame fails: with a cause, or because the stream ended.
LEMMA FailsStep ==
    ASSUME Framing!FrameAssumption, FramingInv, NEW e, Framing!Fails(e), e # "none", e = "EOF" \/ Cause,
           UNCHANGED <<end, ended, framed, odd>>, stream' \in Seq(WireUnits)
    PROVE  FramingInv'
<1>1. /\ err' = e /\ pc' = "failed"
      /\ UNCHANGED <<end, head, mask, got, alloc, handed, ended, framed, odd>>
  BY DEF Framing!Fails
<1>2. FramingTyped'
  BY <1>1 DEF FramingInv, FramingTyped, Framing!Writable
<1>3. Framing!ReadBack' /\ InProgress'
  BY <1>1 DEF FramingInv, Framing!ReadBack, InProgress
<1>4. Framing!AllocationBounded'
  BY <1>1 DEF FramingInv, Framing!AllocationBounded, Framing!Limit
<1>5. Framing!RefusedForCause'
  <2>1. Cause => Cause'
    BY <1>1 DEF Cause, Framing!Limit, Framing!AtOdd, Framing!Forbidden, Framing!OddLength,
        Framing!FromClient
  <2>2. Framing!RefusedForCause' <=> (err' \notin {"none", "EOF"} => Cause')
    BY DEF Framing!RefusedForCause, Cause
  <2> QED
    BY <1>1, <2>1, <2>2
<1> QED
  BY <1>1, <1>2, <1>3, <1>4, <1>5 DEF FramingInv

\* Bytes are read: the frames and what follows them come that much closer.
LEMMA Consumed ==
    ASSUME Framing!FrameAssumption, FramingTyped, Framing!ReadBack, NEW pos, NEW ks, Placed(pos, ks),
           NEW m \in 0..Len(stream), Framing!Consume(m)
    PROVE  /\ stream' \in Seq(WireUnits)
           /\ TakenSoFar \in Int => \E less :
                /\ Laid(end.fromClient, stream', framed, Len(handed), less, ks)
                /\ Followed(stream', less[Len(framed)], ended, odd)
                /\ less[Len(handed)] = - TakenSoFar - m
<1> DEFINE c == end.fromClient
           less == [i \in 0..Len(framed) |-> pos[i] - m]
<1>1. stream' = SubSeq(stream, m + 1, Len(stream))
  BY DEF Framing!Consume
<1>2. stream \in Seq(WireUnits) /\ framed \in Seq(Framing!Frames) /\ c \in BOOLEAN
  BY ClientIs DEF FramingTyped
<1>3. stream' \in Seq(WireUnits)
  <2>1. SubSeq(stream, m + 1, Len(stream)) \in Seq(WireUnits)
    BY <1>2, RestIs
  <2> QED
    BY <1>1, <2>1
<1>4. Len(handed) \in 0..Len(framed) /\ Len(framed) \in Nat /\ Len(framed) \in 0..Len(framed)
  BY CountsAre
<1>5. /\ Laid(c, stream, framed, Len(handed), pos, ks) /\ Followed(stream, pos[Len(framed)], ended, odd)
      /\ pos[Len(handed)] = - TakenSoFar
  BY DEF Placed
<1>6. pos \in [0..Len(framed) -> Int]
  BY <1>5 DEF Laid
<1>7. Laid(c, stream', framed, Len(handed), less, ks)
  <2>1. less = [i \in 0..Len(framed) |-> pos[i] - m]
    OBVIOUS
  <2> HIDE DEF c, less
  <2>2. Laid(c, SubSeq(stream, m + 1, Len(stream)), framed, Len(handed), less, ks)
    BY <1>2, <1>4, <1>5, <2>1, LaidRead
  <2> QED
    BY <1>1, <2>2
<1>8. Followed(stream', less[Len(framed)], ended, odd)
  <2>1. odd = <<>> \/ Len(odd[3]) \in Nat
    BY StrayIs DEF FramingTyped
  <2>2. pos[Len(framed)] \in Int /\ less[Len(framed)] = pos[Len(framed)] - m
    BY <1>4, <1>6
  <2> HIDE DEF less
  <2>3. Followed(SubSeq(stream, m + 1, Len(stream)), pos[Len(framed)] - m, ended, odd)
    BY <1>2, <1>5, <2>1, <2>2, FollowedRead
  <2> QED
    BY <1>1, <2>2, <2>3
<1>9. less[Len(handed)] = - TakenSoFar - m
  BY <1>4, <1>5
<1> QED
  BY <1>3, <1>7, <1>8, <1>9

\* What arrives of a frame is the frame's.
LEMMA FramePeek ==
    ASSUME Framing!FrameAssumption, FramingTyped, Framing!ReadBack, NEW pos, NEW ks, Placed(pos, ks),
           Len(handed) < Len(framed), NEW t \in Nat, TakenSoFar = t
    PROVE  /\ ks[Len(handed) + 1] \in KeySet(end.fromClient)
           /\ \A x \in 1..Len(stream) :
                t + x \in 1..Size(end.fromClient, framed[Len(handed) + 1]) =>
                  stream[x] = UnitOf(end.fromClient, framed[Len(handed) + 1], ks[Len(handed) + 1],
                      t + x)
<1> DEFINE c == end.fromClient
           r == Len(handed)
           f == framed[r + 1]
           k == ks[r + 1]
<1>1. r \in Nat /\ Len(framed) \in Nat /\ r + 1 \in (r + 1)..Len(framed) /\ r + 1 \in 1..Len(framed)
  BY CountsAre
<1>2. Laid(c, stream, framed, r, pos, ks) /\ pos[r] = - t
  BY DEF Placed
<1>3. k \in KeySet(c)
  BY <1>1, <1>2 DEF Laid
<1>4. \A j \in 1..Size(c, f) :
        pos[r + 1 - 1] + j \in 1..Len(stream) => stream[pos[r + 1 - 1] + j] = UnitOf(c, f, k, j)
  BY <1>1, <1>2 DEF Laid
<1>5. r + 1 - 1 = r
  BY <1>1
<1> HIDE DEF c, r, f, k
<1>6. ASSUME NEW x \in 1..Len(stream), t + x \in 1..Size(c, f)
      PROVE  stream[x] = UnitOf(c, f, k, t + x)
  <2>1. - t + (t + x) = x
    OBVIOUS
  <2> QED
    BY <1>2, <1>4, <1>5, <1>6, <2>1
<1> QED
  BY <1>3, <1>6 DEF c, r, f, k

\* What arrives after the frames is the odd header's.
LEMMA StrayPeek ==
    ASSUME Framing!FrameAssumption, FramingTyped, Framing!ReadBack, NEW pos, NEW ks, Placed(pos, ks),
           Len(handed) = Len(framed), NEW t \in Nat, TakenSoFar = t, stream # <<>>
    PROVE  /\ odd \in Strays
           /\ Len(stream) = 2 + Len(odd[3]) - t
           /\ \A x \in 1..Len(stream) :
                /\ t + x = 1 => stream[x] = odd[1]
                /\ t + x = 2 => stream[x] = odd[2]
                /\ t + x = 3 => stream[x] = [unit |-> odd[3][1]]
<1>1. Followed(stream, - t, ended, odd)
  BY DEF Placed
<1>2. Len(stream) \in Nat \ {0}
  BY EmptySeq, LenProperties DEF FramingTyped
<1>3. odd # <<>> /\ odd \in Strays
  BY <1>1, <1>2 DEF Followed, FramingTyped
<1>4. Len(odd[3]) \in Nat
  BY <1>3, StrayIs
<1>5. Len(stream) = 2 + Len(odd[3]) - t
  <2>1. Len(stream) = - t + 2 + Len(odd[3])
    BY <1>1, <1>3 DEF Followed
  <2> DEFINE q == Len(odd[3])
             n == Len(stream)
  <2>2. n = - t + 2 + q /\ q \in Nat
    BY <1>4, <2>1
  <2> HIDE DEF q, n
  <2>3. n = 2 + q - t
    BY <2>2
  <2> QED
    BY <2>3 DEF q, n
<1>6. /\ - t + 1 \in 1..Len(stream) => stream[- t + 1] = odd[1]
      /\ - t + 2 \in 1..Len(stream) => stream[- t + 2] = odd[2]
      /\ - t + 3 \in 1..Len(stream) => stream[- t + 3] = [unit |-> odd[3][1]]
  BY <1>1, <1>3 DEF Followed
<1>7. ASSUME NEW x \in 1..Len(stream)
      PROVE  /\ t + x = 1 => x = - t + 1
             /\ t + x = 2 => x = - t + 2
             /\ t + x = 3 => x = - t + 3
  BY <1>2
<1> QED
  BY <1>3, <1>5, <1>6, <1>7

\* What readPayload allocates at once follows the limit or is two chunks.
LEMMA BuffersBounded ==
    ASSUME Framing!FrameAssumption, end \in Ends, NEW h \in [final : BOOLEAN, opcode : Framing!Opcodes,
           length : Nat],
           Framing!SizeWrong(h.opcode, h.final, h.length) = "none"
    PROVE  /\ Framing!Buffers(h.length) \in Nat
           /\ \/ /\ Framing!Limit > 0
                 /\ Framing!Buffers(h.length) <= (IF Framing!Limit > Short THEN Framing!Limit ELSE Short)
              \/ Framing!Limit = 0 /\ Framing!Buffers(h.length) <= 2 * Chunk
<1>1. Framing!Limit \in Nat
  BY DEF Framing!FrameAssumption, Framing!Limit
<1>2. h.length \in Nat /\ Chunk \in Nat /\ Short \in Nat
  BY ConstantsAre
<1>3. h.opcode \in Framing!Data \/ h.opcode \in Framing!Controls
  BY DEF Framing!Opcodes
<1>4. /\ h.opcode \in Framing!Controls => h.length <= Short
      /\ h.opcode \in Framing!Data /\ h.opcode \notin Framing!Controls /\ Framing!Limit > 0
           => h.length <= Framing!Limit
  <2> DEFINE n == h.length
             o == h.opcode
             g == h.final
  <2>1. n \in Nat /\ Framing!SizeWrong(o, g, n) = "none"
    BY <1>2
  <2> HIDE DEF n, o, g
  <2>2. /\ o \in Framing!Controls => n <= Short
        /\ o \in Framing!Data /\ o \notin Framing!Controls /\ Framing!Limit > 0 => n <= Framing!Limit
    BY <1>1, <1>2, <2>1 DEF Framing!SizeWrong
  <2> QED
    BY <2>2 DEF n, o, g
<1> QED
  BY <1>1, <1>2, <1>3, <1>4 DEF Framing!Buffers, Framing!Whole

\* The length of the frame in progress is known.
LEMMA LengthKnownStep ==
    ASSUME Framing!FrameAssumption, FramingInv, pc \in {"head", "extended"}, NEW pos, NEW ks,
           Placed(pos, ks),
           NEW m \in 0..Len(stream), Framing!Consume(m), UNCHANGED <<end, ended, framed, odd>>,
           NEW h \in [final : BOOLEAN, opcode : Framing!Opcodes, length : 0..Ceiling],
               Framing!LengthKnown(h),
           NEW t \in Nat, TakenSoFar = t, t + m = 2 + ExtLen(h.length),
           Len(handed) < Len(framed) =>
             h = Header(framed[Len(handed) + 1], Len(framed[Len(handed) + 1].payload)),
           Len(handed) = Len(framed) =>
             /\ odd \in Strays
             /\ h = Header(odd[1], Framing!OddLength)
             /\ Framing!SizeWrong(h.opcode, h.final, h.length) = "none" => ~Framing!Forbidden
    PROVE  FramingInv'
<1> DEFINE wrong == Framing!SizeWrong(h.opcode, h.final, h.length)
           c == end.fromClient
<1>1. FramingTyped /\ Framing!ReadBack /\ InProgress /\ got = <<>>
  BY DEF FramingInv, InProgress
<1>2. /\ Len(handed) \in 0..Len(framed) /\ Len(framed) \in Nat
      /\ Len(handed) < Len(framed) => framed[Len(handed) + 1] \in Framing!Frames
  BY <1>1, CountsAre
<1>3. stream' \in Seq(WireUnits)
  BY <1>1, Consumed
<1>4. c \in BOOLEAN /\ end.limit \in Nat /\ Framing!Limit \in Nat
  BY <1>1, ClientIs DEF Framing!Limit
<1>5. CASE wrong # "none"
  <2>1. Framing!Fails(wrong)
    BY <1>5 DEF Framing!LengthKnown
  <2>2. \/ h.opcode \in Framing!Controls /\ (h.length > Short \/ ~h.final)
        \/ h.opcode \in Framing!Data /\ Framing!Limit > 0 /\ h.length > Framing!Limit
    BY <1>5 DEF Framing!SizeWrong
  <2>3. CASE Len(handed) < Len(framed)
    <3> DEFINE f == framed[Len(handed) + 1]
    <3>1. h.opcode = f.opcode /\ h.final = f.final /\ h.length = Len(f.payload)
      BY <2>3 DEF Header
    <3>2. Framing!Writable(f)
      <4>1. Len(handed) + 1 \in 1..Len(framed)
        BY <1>2, <2>3
      <4> QED
        BY <1>1, <4>1 DEF FramingTyped
    <3>3. Len(f.payload) \in Nat /\ Short \in Nat
      BY <1>2, <2>3, WrittenIs, ConstantsAre
    <3>4. f.opcode \in Framing!Data /\ Framing!Limit > 0 /\ Len(f.payload) > Framing!Limit
      BY <2>2, <3>1, <3>2, <3>3 DEF Framing!Writable
    <3>5. Cause
      BY <2>3, <3>4 DEF Cause
    <3> HIDE DEF wrong
    <3> QED
      BY <1>3, <1>5, <2>1, <3>5, FailsStep
  <2>4. CASE Len(handed) = Len(framed)
    <3>1. odd \in Strays /\ odd # <<>>
      BY <2>4, StrayIs
    <3>2. h.opcode = odd[1].opcode /\ h.final = odd[1].final /\ h.length = Framing!OddLength
      BY <2>4 DEF Header
    <3>3. Cause
      BY <2>2, <2>4, <3>1, <3>2 DEF Cause, Framing!AtOdd, Framing!Forbidden
    <3> HIDE DEF wrong
    <3> QED
      BY <1>3, <1>5, <2>1, <3>3, FailsStep
  <2> QED
    BY <1>2, <2>3, <2>4
<1>6. CASE wrong = "none"
  <2>1. /\ head' = h
        /\ pc' = IF c THEN "key" ELSE "payload"
        /\ alloc' = IF c THEN 0 ELSE Framing!Buffers(h.length)
        /\ UNCHANGED <<end, ended, framed, odd, mask, got, err, handed>>
    BY <1>6 DEF Framing!LengthKnown, Framing!FromClient
  <2>2. /\ Framing!Buffers(h.length) \in Nat
        /\ \/ /\ Framing!Limit > 0
              /\ Framing!Buffers(h.length) <= (IF Framing!Limit > Short THEN Framing!Limit ELSE Short)
           \/ Framing!Limit = 0 /\ Framing!Buffers(h.length) <= 2 * Chunk
    <3>1. h \in [final : BOOLEAN, opcode : Framing!Opcodes, length : Nat] /\ end \in Ends
      BY <1>1, ConstantsAre DEF FramingTyped
    <3> QED
      BY <1>6, <3>1, BuffersBounded
  <2>3. h.length \in 0..Ceiling /\ Ceiling \in Nat /\ Short \in Nat /\ Chunk \in Nat /\ KeyLen \in Nat
    BY ConstantsAre
  <2>4. FramingTyped'
    <3>1. err = "none" /\ pc' # "failed" /\ pc' \in {"head", "extended", "key", "payload", "failed"}
      BY <1>1, <2>1 DEF FramingTyped
    <3>2. alloc' \in Nat
      BY <2>1, <2>2
    <3>3. got' = <<>> /\ Len(got') <= head'.length
      BY <1>1, <2>1, <2>3
    <3> QED
      BY <1>1, <1>3, <2>1, <3>1, <3>2, <3>3 DEF FramingTyped, Framing!Writable
  <2>5. Framing!ReadBack' /\ Framing!RefusedForCause'
    <3>1. err = "none"
      BY <1>1 DEF FramingTyped
    <3> QED
      BY <1>1, <2>1, <3>1 DEF Framing!ReadBack, Framing!RefusedForCause
  <2>6. InProgress'
    <3>1. Framing!SizeWrong(h.opcode, h.final, h.length)' = Framing!SizeWrong(h.opcode, h.final,
          h.length)
      BY DEF Framing!SizeWrong, Framing!Limit
    <3>2. Framing!SizeWrong(head.opcode, head.final, head.length)' = "none"
      BY <1>6, <2>1, <3>1 DEF Framing!SizeWrong
    <3> QED
      BY <1>1, <2>1, <3>2 DEF InProgress
  <2>7. Framing!AllocationBounded'
    <3>1. Framing!Limit' = Framing!Limit /\ Len(got') = 0
      BY <1>1, <2>1 DEF Framing!Limit
    <3>2. CASE c
      BY <1>4, <2>1, <2>3, <3>1, <3>2 DEF Framing!AllocationBounded
    <3>3. CASE ~c
      BY <1>4, <2>1, <2>2, <2>3, <3>1, <3>3 DEF Framing!AllocationBounded
    <3> QED
      BY <3>2, <3>3
  <2>8. TakenSoFar' = t + m
    <3>1. ExtLen(h.length) \in Nat
      BY <2>3 DEF ExtLen
    <3>2. CASE c
      BY <2>1, <3>2 DEF TakenSoFar
    <3>3. CASE ~c
      BY <1>1, <2>1, <3>1, <3>3 DEF TakenSoFar, Before, MaskLen
    <3> QED
      BY <3>2, <3>3
  <2>9. PICK less : /\ Laid(c, stream', framed, Len(handed), less, ks)
                    /\ Followed(stream', less[Len(framed)], ended, odd)
                    /\ less[Len(handed)] = - TakenSoFar - m
    BY <1>1, Consumed
  <2>10. less[Len(handed)] = - TakenSoFar'
    BY <2>8, <2>9
  <2>11. Len(handed) < Len(framed) => AtFrame(framed[Len(handed) + 1], ks[Len(handed) + 1])'
    <3> SUFFICES ASSUME Len(handed) < Len(framed)
                 PROVE  AtFrame(framed[Len(handed) + 1], ks[Len(handed) + 1])'
      OBVIOUS
    <3>1. head' = Header(framed'[Len(handed') + 1], Len(framed'[Len(handed') + 1].payload))
      BY <2>1
    <3>2. got' = <<>> /\ pc' # "extended"
      BY <1>1, <2>1
    <3>3. pc' = "payload" => ~end'.fromClient
      BY <2>1
    <3> QED
      BY <3>1, <3>2, <3>3 DEF AtFrame
  <2>12. Len(handed) = Len(framed) => AtStray'
    <3> SUFFICES ASSUME Len(handed) = Len(framed) PROVE AtStray'
      OBVIOUS
    <3>1. odd' = odd /\ odd # <<>> /\ Framing!OddLength' = Framing!OddLength /\ ~Framing!Forbidden
          /\ Framing!Forbidden' = Framing!Forbidden
      BY <1>6, <2>1, StrayIs DEF Framing!OddLength, Framing!Forbidden, Framing!FromClient
    <3> QED
      BY <1>1, <2>1, <3>1 DEF AtStray, Header
  <2>13. Placed(less, ks)'
    BY <2>1, <2>9, <2>10, <2>11, <2>12 DEF Placed
  <2> QED
    BY <2>4, <2>5, <2>6, <2>7, <2>13 DEF FramingInv
<1> QED
  BY <1>5, <1>6

\* A frame's own length byte.
LEMMA LengthByteIs ==
    ASSUME Framing!FrameAssumption, NEW n \in 0..Ceiling
    PROVE  /\ Framing!LengthByte(n) \in 0..Ceiling
           /\ Framing!LengthByte(n) > Short <=> n > Short
           /\ n <= Short => Framing!LengthByte(n) = n
           /\ n > Short => Framing!LengthWrong(Framing!LengthByte(n), n) = "none"
<1>1. /\ Short \in Nat /\ Medium \in Nat /\ Ceiling \in Nat /\ Short < Medium /\ Medium < Ceiling
  BY ConstantsAre
<1> QED
  BY <1>1 DEF Framing!LengthByte, Framing!LengthWrong

LEMMA ReadHeadStep ==
    ASSUME Framing!FrameAssumption, FramingInv, Framing!ReadHead
    PROVE  FramingInv'
<1> DEFINE c == end.fromClient
           first == stream[1]
           second == stream[2]
           wrong == Framing!HeadWrong(first, second)
           h == [final |-> first.final, opcode |-> first.opcode, length |-> second.length]
<1>1. pc = "head" /\ Len(stream) >= 2 /\ Framing!Consume(2) /\ UNCHANGED <<end, ended, framed, odd>>
  BY DEF Framing!ReadHead, Framing!Arrived
<1>2. FramingTyped /\ Framing!ReadBack /\ InProgress /\ got = <<>> /\ err = "none"
  BY <1>1 DEF FramingInv, InProgress, FramingTyped
<1>3. PICK pos, ks : Placed(pos, ks)
  BY <1>1 DEF FramingInv
<1>4. /\ Len(handed) \in 0..Len(framed) /\ Len(framed) \in Nat /\ Len(stream) \in Nat
      /\ Len(handed) < Len(framed) => framed[Len(handed) + 1] \in Framing!Frames
  BY <1>2, CountsAre
<1>5. TakenSoFar = 0 /\ 2 \in 0..Len(stream) /\ stream # <<>> /\ 1 \in 1..Len(stream)
      /\ 2 \in 1..Len(stream)
  BY <1>1, <1>4 DEF TakenSoFar
<1>6. stream' \in Seq(WireUnits)
  BY <1>1, <1>2, <1>3, <1>5, Consumed
<1>7. \/ wrong # "none" /\ Framing!Fails(wrong)
      \/ /\ wrong = "none" /\ second.length > Short
         /\ head' = h /\ pc' = "extended" /\ UNCHANGED <<mask, got, alloc, err, handed>>
      \/ wrong = "none" /\ ~(second.length > Short) /\ Framing!LengthKnown(h)
  BY DEF Framing!ReadHead
<1>8. c \in BOOLEAN
  BY <1>2, ClientIs
<1>9. CASE Len(handed) < Len(framed)
  <2> DEFINE f == framed[Len(handed) + 1]
             k == ks[Len(handed) + 1]
             n == Len(f.payload)
  <2>1. /\ f.final \in BOOLEAN /\ f.opcode \in Framing!Opcodes /\ n \in 0..Ceiling
             /\ f \in Framing!Frames
        /\ Size(c, f) \in Nat /\ Size(c, f) >= 2 /\ Short \in Nat /\ Ceiling \in Nat
    <3>1. f \in Framing!Frames
      BY <1>4, <1>9
    <3> HIDE DEF f, c
    <3>2. f.final \in BOOLEAN /\ f.opcode \in Framing!Opcodes /\ n \in 0..Ceiling
      BY <3>1, WrittenIs
    <3>3. /\ MaskLen(c) \in Nat /\ ExtLen(n) \in 0..1
          /\ Size(c, f) = 2 + ExtLen(n) + MaskLen(c) + n
      BY <1>8, <3>1, SizeIs
    <3>4. Short \in Nat /\ Ceiling \in Nat
      BY ConstantsAre
    <3> HIDE DEF n
    <3> QED
      BY <3>1, <3>2, <3>3, <3>4 DEF n
  <2>2. first = UnitOf(c, f, k, 1) /\ second = UnitOf(c, f, k, 2)
    <3>1. 0 \in Nat /\ 0 + 1 = 1 /\ 0 + 2 = 2 /\ 1 \in 1..Size(c, f) /\ 2 \in 1..Size(c, f)
      BY <2>1
    <3>2. \A x \in 1..Len(stream) : 0 + x \in 1..Size(c, f) => stream[x] = UnitOf(c, f, k, 0 + x)
      BY <1>2, <1>3, <1>5, <1>9, FramePeek
    <3> HIDE DEF f, k, c
    <3> QED
      BY <1>5, <3>1, <3>2
  <2>3. first = Framing!First(f.final, FALSE, f.opcode)
        /\ second = Framing!Second(c, Framing!LengthByte(n))
    BY <2>2 DEF UnitOf
  <2>4. wrong = "none" /\ h = Header(f, Framing!LengthByte(n)) /\ second.length = Framing!LengthByte(n)
    BY <1>8, <2>1, <2>3 DEF Framing!HeadWrong, Framing!First, Framing!Second, Framing!FromClient, Header
  <2>5. CASE n > Short
    <3>1. second.length > Short /\ Framing!LengthByte(n) \in 0..Ceiling
      BY <2>1, <2>4, <2>5, LengthByteIs
    <3>2. /\ head' = h /\ pc' = "extended"
          /\ UNCHANGED <<mask, got, alloc, err, handed, end, ended, framed, odd>>
      BY <1>1, <1>7, <2>4, <3>1
    <3>3. head' \in [final : BOOLEAN, opcode : Framing!Opcodes, length : 0..Ceiling]
          /\ head'.length \in Nat
      BY <2>1, <2>4, <3>1, <3>2 DEF Header
    <3>4. FramingTyped'
      <4>1. got' = <<>> /\ Len(got') <= head'.length
        BY <1>2, <3>2, <3>3
      <4> QED
        BY <1>2, <1>6, <3>2, <3>3, <4>1 DEF FramingTyped, Framing!Writable
    <3>5. Framing!ReadBack' /\ InProgress' /\ Framing!RefusedForCause' /\ Framing!AllocationBounded'
      BY <1>2, <3>2 DEF FramingInv, Framing!ReadBack, InProgress, Framing!RefusedForCause,
          Framing!AllocationBounded, Framing!Limit
    <3>6. PICK less : /\ Laid(c, stream', framed, Len(handed), less, ks)
                      /\ Followed(stream', less[Len(framed)], ended, odd)
                      /\ less[Len(handed)] = - TakenSoFar - 2
      BY <1>1, <1>2, <1>3, <1>5, Consumed
    <3>7. less[Len(handed)] = - TakenSoFar'
      BY <1>5, <3>2, <3>6 DEF TakenSoFar
    <3>8. AtFrame(framed[Len(handed) + 1], ks[Len(handed) + 1])'
      BY <2>4, <2>5, <3>2 DEF AtFrame
    <3>9. Placed(less, ks)'
      BY <1>4, <1>9, <3>2, <3>6, <3>7, <3>8 DEF Placed
    <3> QED
      BY <3>4, <3>5, <3>9 DEF FramingInv
  <2>6. CASE n <= Short
    <3>1. ~(second.length > Short) /\ Framing!LengthByte(n) = n
      BY <2>1, <2>4, <2>6, LengthByteIs
    <3>2. Framing!LengthKnown(h) /\ h = Header(f, n)
      BY <1>7, <2>4, <3>1
    <3>3. h \in [final : BOOLEAN, opcode : Framing!Opcodes, length : 0..Ceiling]
      BY <2>1, <3>2 DEF Header
    <3>4. 0 + 2 = 2 + ExtLen(h.length)
      BY <2>1, <2>6, <3>2 DEF ExtLen, Header
    <3> HIDE DEF h
    <3> QED
      BY <1>1, <1>3, <1>5, <1>9, <3>2, <3>3, <3>4, LengthKnownStep
  <2> QED
    BY <2>1, <2>5, <2>6
<1>10. CASE Len(handed) = Len(framed)
  <2>1. odd \in Strays /\ first = odd[1] /\ second = odd[2]
    <3>1. /\ odd \in Strays
          /\ \A x \in 1..Len(stream) :
                /\ 0 + x = 1 => stream[x] = odd[1]
                /\ 0 + x = 2 => stream[x] = odd[2]
                /\ 0 + x = 3 => stream[x] = [unit |-> odd[3][1]]
      BY <1>2, <1>3, <1>5, <1>10, StrayPeek
    <3>2. 0 + 1 = 1 /\ 0 + 2 = 2
      OBVIOUS
    <3> QED
      BY <1>5, <3>1, <3>2
  <2>2. /\ odd # <<>> /\ Framing!AtOdd
        /\ odd[1].final \in BOOLEAN /\ odd[1].opcode \in Framing!Opcodes \union {"reserved"}
        /\ odd[2].masked \in BOOLEAN /\ odd[2].length \in Nat
        /\ \/ odd[3] = <<>> /\ odd[2].length \in 1..Short
           \/ odd[3] # <<>> /\ odd[2].length \in {Short + 1, Short + 2}
    BY <1>10, <2>1, StrayIs DEF Framing!AtOdd
  <2>3. Short \in Nat /\ Medium \in Nat /\ Ceiling \in Nat /\ Short < Medium /\ Medium < Ceiling
    BY ConstantsAre
  <2>4. CASE wrong # "none"
    <3>1. Framing!Forbidden
      BY <1>8, <2>1, <2>2, <2>4 DEF Framing!HeadWrong, Framing!Forbidden, Framing!FromClient
    <3>2. Cause /\ Framing!Fails(wrong) /\ wrong # "none"
      BY <1>7, <2>2, <2>4, <3>1 DEF Cause
    <3> HIDE DEF wrong
    <3> QED
      BY <1>1, <1>6, <3>2, FailsStep
  <2>5. CASE wrong = "none" /\ second.length > Short
    <3>1. /\ head' = h /\ pc' = "extended"
          /\ UNCHANGED <<mask, got, alloc, err, handed, end, ended, framed, odd>>
      BY <1>1, <1>7, <2>5
    <3>2. h = Header(odd[1], odd[2].length) /\ odd[2].length \in 0..Ceiling
      BY <2>1, <2>2, <2>3, <2>5 DEF Header
    <3>3. odd[1].opcode \in Framing!Opcodes
      BY <2>1, <2>5 DEF Framing!HeadWrong
    <3>4. head' \in [final : BOOLEAN, opcode : Framing!Opcodes, length : 0..Ceiling]
          /\ head'.length \in Nat
      BY <2>2, <3>1, <3>2, <3>3 DEF Header
    <3>5. FramingTyped'
      <4>1. got' = <<>> /\ Len(got') <= head'.length
        BY <1>2, <3>1, <3>4
      <4> QED
        BY <1>2, <1>6, <3>1, <3>4, <4>1 DEF FramingTyped, Framing!Writable
    <3>6. Framing!ReadBack' /\ InProgress' /\ Framing!RefusedForCause' /\ Framing!AllocationBounded'
      BY <1>2, <3>1 DEF FramingInv, Framing!ReadBack, InProgress, Framing!RefusedForCause,
          Framing!AllocationBounded, Framing!Limit
    <3>7. PICK less : /\ Laid(c, stream', framed, Len(handed), less, ks)
                      /\ Followed(stream', less[Len(framed)], ended, odd)
                      /\ less[Len(handed)] = - TakenSoFar - 2
      BY <1>1, <1>2, <1>3, <1>5, Consumed
    <3>8. less[Len(handed)] = - TakenSoFar'
      BY <1>5, <3>1, <3>7 DEF TakenSoFar
    <3>9. AtStray'
      <4>1. Framing!HeadWrong(odd[1], odd[2])' = Framing!HeadWrong(odd[1], odd[2])
        BY <3>1 DEF Framing!HeadWrong, Framing!FromClient
      <4> QED
        BY <2>1, <2>2, <2>5, <3>1, <3>2, <4>1 DEF AtStray
    <3>10. Placed(less, ks)'
      BY <1>4, <1>10, <3>1, <3>7, <3>8, <3>9 DEF Placed
    <3> QED
      BY <3>5, <3>6, <3>10 DEF FramingInv
  <2>6. CASE wrong = "none" /\ ~(second.length > Short)
    <3>1. odd[3] = <<>> /\ Framing!OddLength = odd[2].length /\ Framing!OddLength \in 1..Short
      BY <2>1, <2>2, <2>3, <2>6 DEF Framing!OddLength
    <3>2. Framing!LengthKnown(h) /\ h = Header(odd[1], Framing!OddLength)
      BY <1>7, <2>1, <2>6, <3>1 DEF Header
    <3>3. odd[1].opcode \in Framing!Opcodes /\ ~odd[1].reserved /\ odd[2].masked = c
      BY <1>8, <2>1, <2>2, <2>6 DEF Framing!HeadWrong, Framing!FromClient
    <3>4. h \in [final : BOOLEAN, opcode : Framing!Opcodes, length : 0..Ceiling]
      BY <2>2, <2>3, <3>1, <3>2, <3>3 DEF Header
    <3>5. Framing!SizeWrong(h.opcode, h.final, h.length) = "none" => ~Framing!Forbidden
      <4>1. Framing!SizeWrong(odd[1].opcode, odd[1].final, Framing!OddLength) = "none" =>
              ~(odd[1].opcode \in Framing!Controls /\ (Framing!OddLength > Short \/ ~odd[1].final))
        BY DEF Framing!SizeWrong
      <4>2. ~(odd[2].length > Short) /\ ~(odd[2].length > Short + 1)
        BY <2>3, <3>1
      <4> QED
        BY <3>2, <3>3, <4>1, <4>2 DEF Header, Framing!Forbidden, Framing!FromClient
    <3>6. 0 + 2 = 2 + ExtLen(h.length)
      BY <2>3, <3>1, <3>2 DEF ExtLen, Header
    <3> HIDE DEF h
    <3> QED
      BY <1>1, <1>3, <1>5, <1>10, <2>1, <3>2, <3>4, <3>5, <3>6, LengthKnownStep
  <2> QED
    BY <2>4, <2>5, <2>6
<1> QED
  BY <1>4, <1>9, <1>10

LEMMA ReadExtendedStep ==
    ASSUME Framing!FrameAssumption, FramingInv, Framing!ReadExtended
    PROVE  FramingInv'
<1> DEFINE c == end.fromClient
           x == stream[1].unit
           wrong == Framing!LengthWrong(head.length, x)
           h == [head EXCEPT !.length = x]
<1>1. pc = "extended" /\ Len(stream) >= 1 /\ Framing!Consume(1) /\ UNCHANGED <<end, ended, framed, odd>>
  BY DEF Framing!ReadExtended, Framing!Arrived
<1>2. FramingTyped /\ Framing!ReadBack
  BY DEF FramingInv
<1>3. PICK pos, ks : Placed(pos, ks)
  BY <1>1 DEF FramingInv
<1>4. /\ Len(handed) \in 0..Len(framed) /\ Len(framed) \in Nat /\ Len(stream) \in Nat
      /\ Len(handed) < Len(framed) => framed[Len(handed) + 1] \in Framing!Frames
  BY <1>2, CountsAre
<1>5. TakenSoFar = 2 /\ 1 \in 0..Len(stream) /\ stream # <<>> /\ 1 \in 1..Len(stream) /\ 2 + 1 = 3
  BY <1>1, <1>4 DEF TakenSoFar
<1>6. stream' \in Seq(WireUnits)
  BY <1>1, <1>2, <1>3, <1>5, Consumed
<1>7. IF wrong # "none" THEN Framing!Fails(wrong) ELSE Framing!LengthKnown(h)
  BY DEF Framing!ReadExtended
<1>8. c \in BOOLEAN
  BY <1>2, ClientIs
<1>9. /\ Short \in Nat /\ Medium \in Nat /\ Ceiling \in Nat /\ Short < Medium /\ Medium < Ceiling
      /\ head \in [final : BOOLEAN, opcode : Framing!Opcodes, length : 0..Ceiling]
  BY <1>2, ConstantsAre DEF FramingTyped
<1>10. h = [final |-> head.final, opcode |-> head.opcode, length |-> x]
  BY <1>9
<1>11. CASE Len(handed) < Len(framed)
  <2> DEFINE f == framed[Len(handed) + 1]
             k == ks[Len(handed) + 1]
             n == Len(f.payload)
  <2>1. f \in Framing!Frames
    BY <1>4, <1>11
  <2>2. n \in 0..Ceiling /\ f.final \in BOOLEAN /\ f.opcode \in Framing!Opcodes
    BY <2>1, WrittenIs
  <2>3. head = Header(f, Framing!LengthByte(n)) /\ n > Short
    BY <1>1, <1>3, <1>11 DEF Placed, AtFrame
  <2>4. ExtLen(n) = 1 /\ Size(c, f) \in Nat /\ 3 \in 1..Size(c, f)
    <3>1. /\ MaskLen(c) \in Nat /\ Size(c, f) = 2 + ExtLen(n) + MaskLen(c) + n
      BY <1>8, <2>1, SizeIs
    <3>2. ExtLen(n) = 1
      BY <2>3 DEF ExtLen
    <3> HIDE DEF n, f, c
    <3> QED
      BY <2>2, <3>1, <3>2
  <2>5. stream[1] = UnitOf(c, f, k, 3)
    <3>1. \A i \in 1..Len(stream) : 2 + i \in 1..Size(c, f) => stream[i] = UnitOf(c, f, k, 2 + i)
      BY <1>2, <1>3, <1>5, <1>11, FramePeek
    <3> HIDE DEF f, k, c
    <3> QED
      BY <1>5, <2>4, <3>1
  <2>6. x = n
    BY <2>4, <2>5 DEF UnitOf
  <2>7. wrong = "none"
    BY <2>2, <2>3, <2>6, LengthByteIs DEF Header
  <2>8. Framing!LengthKnown(h) /\ h = Header(f, n) /\ h.length = n
    BY <1>7, <1>10, <2>3, <2>6, <2>7 DEF Header
  <2>9. h \in [final : BOOLEAN, opcode : Framing!Opcodes, length : 0..Ceiling]
    BY <2>2, <2>8 DEF Header
  <2>10. 2 + 1 = 2 + ExtLen(h.length)
    BY <2>4, <2>8
  <2> HIDE DEF h
  <2> QED
    BY <1>1, <1>3, <1>5, <1>11, <2>8, <2>9, <2>10, LengthKnownStep
<1>12. CASE Len(handed) = Len(framed)
  <2>1. odd \in Strays /\ Len(stream) = 2 + Len(odd[3]) - 2 /\ stream[1] = [unit |-> odd[3][1]]
    <3>1. /\ odd \in Strays
          /\ Len(stream) = 2 + Len(odd[3]) - 2
          /\ \A i \in 1..Len(stream) :
                /\ 2 + i = 1 => stream[i] = odd[1]
                /\ 2 + i = 2 => stream[i] = odd[2]
                /\ 2 + i = 3 => stream[i] = [unit |-> odd[3][1]]
      BY <1>2, <1>3, <1>5, <1>12, StrayPeek
    <3> QED
      BY <1>5, <3>1
  <2>2. /\ odd # <<>> /\ Framing!AtOdd /\ Len(odd[3]) \in 0..1
        /\ odd[1].final \in BOOLEAN
        /\ \/ odd[3] = <<>> /\ Len(odd[3]) = 0
           \/ /\ odd[3] # <<>> /\ odd[3][1] \in Nat \ {0}
              /\ \/ odd[2].length = Short + 1 /\ odd[3][1] <= Medium
                 \/ odd[2].length = Short + 2
    BY <1>12, <2>1, StrayIs DEF Framing!AtOdd
  <2>3. /\ head = Header(odd[1], odd[2].length) /\ odd[2].length > Short
        /\ Framing!HeadWrong(odd[1], odd[2]) = "none"
    BY <1>1, <1>3, <1>12 DEF Placed, AtStray
  <2>4. Len(odd[3]) = 1 /\ odd[3] # <<>>
    <3> DEFINE q == Len(odd[3])
               w == Len(stream)
    <3>1. w = 2 + q - 2 /\ w >= 1 /\ q \in 0..1
      BY <1>1, <2>1, <2>2
    <3> HIDE DEF q, w
    <3>2. q = 1
      BY <3>1
    <3> QED
      BY <2>2, <3>2 DEF q
  <2>5. x = Framing!OddLength /\ Framing!OddLength \in Nat \ {0}
    BY <2>1, <2>2, <2>4 DEF Framing!OddLength
  <2>6. /\ head.length = odd[2].length
        /\ \/ odd[2].length = Short + 1 /\ Framing!OddLength <= Medium
           \/ odd[2].length = Short + 2
    BY <2>1, <2>2, <2>3, <2>4, <2>5 DEF Header
  <2> DEFINE z == odd[2].length
             y == Framing!OddLength
  <2>7. CASE wrong # "none"
    <3>1. Framing!Forbidden \/ Framing!OddLength > Ceiling
      <4>1. \/ z > Short /\ y <= Short
            \/ z > Short + 1 /\ y <= Medium
            \/ y > Ceiling
        <5>1. Framing!LengthWrong(z, y) # "none"
          BY <2>5, <2>6, <2>7
        <5> HIDE DEF z, y
        <5> QED
          BY <1>9, <5>1 DEF Framing!LengthWrong
      <4> QED
        BY <4>1 DEF Framing!Forbidden
    <3>2. Cause /\ Framing!Fails(wrong)
      BY <1>7, <2>2, <2>7, <3>1 DEF Cause
    <3> HIDE DEF wrong
    <3> QED
      BY <1>1, <1>6, <2>7, <3>2, FailsStep
  <2>8. CASE wrong = "none"
    <3>1. /\ ~(z > Short /\ y <= Short) /\ ~(z > Short + 1 /\ y <= Medium)
          /\ y \in 0..Ceiling /\ y > Short
      <4>1. Framing!LengthWrong(z, y) = "none" /\ y \in Nat
        BY <2>5, <2>6, <2>8
      <4>2. (z = Short + 1 /\ y <= Medium) \/ z = Short + 2
        BY <2>6
      <4> HIDE DEF z, y
      <4>3. CASE z = Short + 1 /\ y <= Medium
        BY <1>9, <4>1, <4>3 DEF Framing!LengthWrong
      <4>4. CASE z = Short + 2
        BY <1>9, <4>1, <4>4 DEF Framing!LengthWrong
      <4> QED
        BY <4>2, <4>3, <4>4
    <3>2. Framing!LengthKnown(h) /\ h = Header(odd[1], Framing!OddLength)
      BY <1>7, <1>10, <2>3, <2>5, <2>8 DEF Header
    <3>3. odd[1].opcode \in Framing!Opcodes /\ ~odd[1].reserved /\ odd[2].masked = c
      <4>1. odd[2].masked \in BOOLEAN
        BY <2>1, StrayIs
      <4> QED
        BY <1>8, <2>3, <4>1 DEF Framing!HeadWrong, Framing!FromClient
    <3>4. h \in [final : BOOLEAN, opcode : Framing!Opcodes, length : 0..Ceiling]
      BY <2>2, <3>1, <3>2, <3>3 DEF Header
    <3>5. Framing!SizeWrong(h.opcode, h.final, h.length) = "none" => ~Framing!Forbidden
      <4>1. Framing!SizeWrong(odd[1].opcode, odd[1].final, Framing!OddLength) = "none" =>
              ~(odd[1].opcode \in Framing!Controls /\ (Framing!OddLength > Short \/ ~odd[1].final))
        BY DEF Framing!SizeWrong
      <4> QED
        BY <3>1, <3>2, <3>3, <4>1 DEF Header, Framing!Forbidden, Framing!FromClient
    <3>6. 2 + 1 = 2 + ExtLen(h.length)
      BY <3>1, <3>2 DEF ExtLen, Header
    <3> HIDE DEF h
    <3> QED
      BY <1>1, <1>3, <1>5, <1>12, <2>1, <3>2, <3>4, <3>5, <3>6, LengthKnownStep
  <2> QED
    BY <2>7, <2>8
<1> QED
  BY <1>4, <1>11, <1>12

LEMMA ReadEndsStep ==
    ASSUME Framing!FrameAssumption, FramingInv, Framing!ReadEnds
    PROVE  FramingInv'
<1>1. Framing!Fails("EOF") /\ stream' = <<>> /\ UNCHANGED <<end, ended, framed, odd>>
  BY DEF Framing!ReadEnds
<1>2. stream' \in Seq(WireUnits)
  BY <1>1
<1> QED
  BY <1>1, <1>2, FailsStep

\* Past the header of an odd frame nothing arrives.
LEMMA StrayEnds ==
    ASSUME Framing!FrameAssumption, FramingInv, pc \in {"key", "payload"}, Len(handed) = Len(framed)
    PROVE  stream = <<>> /\ got = <<>> /\ head.length > 0
<1>1. FramingTyped /\ Framing!ReadBack
  BY DEF FramingInv
<1>2. PICK pos, ks : Placed(pos, ks)
  BY DEF FramingInv
<1>3. AtStray /\ Followed(stream, - TakenSoFar, ended, odd)
  BY <1>2 DEF Placed
<1>4. odd \in Strays /\ got = <<>> /\ ~Framing!Forbidden /\ head = Header(odd[1], Framing!OddLength)
  BY <1>1, <1>3 DEF AtStray, FramingTyped
<1>5. /\ odd # <<>> /\ Len(odd[3]) \in 0..1
      /\ \/ odd[3] = <<>> /\ Len(odd[3]) = 0 /\ odd[2].length \in 1..Short
         \/ /\ odd[3] # <<>> /\ Len(odd[3]) = 1 /\ odd[3][1] \in Nat \ {0}
            /\ odd[2].length \in {Short + 1, Short + 2}
  BY <1>4, StrayIs
<1>6. Short \in Nat /\ Medium \in Nat /\ Short < Medium
  BY ConstantsAre
<1>7. Framing!OddLength \in Nat \ {0} /\ Len(odd[3]) = ExtLen(Framing!OddLength)
  <2>1. CASE odd[3] = <<>> /\ Len(odd[3]) = 0 /\ odd[2].length \in 1..Short
    BY <1>6, <2>1 DEF Framing!OddLength, ExtLen
  <2>2. CASE /\ odd[3] # <<>> /\ Len(odd[3]) = 1 /\ odd[3][1] \in Nat \ {0}
             /\ odd[2].length \in {Short + 1, Short + 2}
    <3>1. Framing!OddLength = odd[3][1] /\ odd[2].length > Short
      BY <1>6, <2>2 DEF Framing!OddLength
    <3>2. ~(Framing!OddLength <= Short)
      BY <1>4, <3>1 DEF Framing!Forbidden
    <3> QED
      BY <1>6, <2>2, <3>1, <3>2 DEF ExtLen
  <2> QED
    BY <1>5, <2>1, <2>2
<1>8. head.length = Framing!OddLength
  BY <1>4 DEF Header
<1>9. TakenSoFar \in Nat /\ TakenSoFar >= 2 + Len(odd[3])
  <2>1. Len(got) = 0 /\ MaskLen(end.fromClient) \in Nat /\ ExtLen(Framing!OddLength) \in Nat
    BY <1>4, <1>5, <1>7, ConstantsAre DEF MaskLen
  <2> QED
    BY <1>7, <1>8, <2>1 DEF TakenSoFar, Before
<1>10. Len(stream) = - TakenSoFar + 2 + Len(odd[3])
  BY <1>3, <1>5 DEF Followed
<1>11. Len(stream) = 0
  <2> DEFINE a == Len(stream)
             b == TakenSoFar
             d == Len(odd[3])
  <2>1. a \in Nat /\ b \in Nat /\ d \in 0..1 /\ b >= 2 + d /\ a = - b + 2 + d
    BY <1>1, <1>5, <1>9, <1>10, LenProperties DEF FramingTyped
  <2> HIDE DEF a, b, d
  <2>2. a = 0
    BY <2>1
  <2> QED
    BY <2>2 DEF a
<1> QED
  BY <1>1, <1>4, <1>7, <1>8, <1>11, EmptySeq DEF FramingTyped

LEMMA ReadKeyStep ==
    ASSUME Framing!FrameAssumption, FramingInv, Framing!ReadKey
    PROVE  FramingInv'
<1> DEFINE c == end.fromClient
           f == framed[Len(handed) + 1]
           n == Len(f.payload)
<1>1. /\ pc = "key" /\ Len(stream) >= KeyLen /\ Framing!Consume(KeyLen) /\ pc' = "payload"
      /\ mask' = Framing!Values(SubSeq(stream, 1, KeyLen)) /\ alloc' = Framing!Buffers(head.length)
      /\ UNCHANGED <<end, ended, head, got, err, framed, odd, handed>>
  BY DEF Framing!ReadKey, Framing!Arrived
<1>2. FramingTyped /\ Framing!ReadBack /\ InProgress /\ c = TRUE /\ got = <<>>
  BY <1>1, ClientIs DEF FramingInv, InProgress
<1>3. PICK pos, ks : Placed(pos, ks)
  BY <1>1 DEF FramingInv
<1>4. /\ Len(handed) \in 0..Len(framed) /\ Len(framed) \in Nat /\ Len(stream) \in Nat
      /\ Len(handed) < Len(framed) => framed[Len(handed) + 1] \in Framing!Frames
  BY <1>2, CountsAre
<1>5. KeyLen \in Nat \ {0} /\ Short \in Nat /\ Ceiling \in Nat /\ Chunk \in Nat
  BY ConstantsAre
<1>6. stream # <<>> /\ KeyLen \in 0..Len(stream)
  BY <1>1, <1>4, <1>5
<1>7. Len(handed) < Len(framed)
  BY <1>1, <1>4, <1>6, StrayEnds
<1>8. f \in Framing!Frames /\ n \in 0..Ceiling
  BY <1>4, <1>7, WrittenIs
<1> DEFINE k == ks[Len(handed) + 1]
           t == 2 + ExtLen(n)
<1>9. head = Header(f, n) /\ head.length = n
  BY <1>1, <1>3, <1>7 DEF Placed, AtFrame, Header
<1>10. ExtLen(n) \in 0..1 /\ MaskLen(c) = KeyLen /\ Size(c, f) = 2 + ExtLen(n) + KeyLen + n
  <2>1. c \in BOOLEAN
    BY <1>2
  <2>2. ExtLen(n) \in 0..1 /\ Size(c, f) = 2 + ExtLen(n) + MaskLen(c) + n
    BY <1>8, <2>1, SizeIs
  <2> QED
    BY <1>2, <2>2 DEF MaskLen
<1>11. TakenSoFar = t /\ t \in Nat
  BY <1>1, <1>9, <1>10 DEF TakenSoFar
<1>12. /\ k \in KeySet(c)
       /\ \A x \in 1..Len(stream) : t + x \in 1..Size(c, f) => stream[x] = UnitOf(c, f, k, t + x)
  <2> HIDE DEF t
  <2> QED
    BY <1>2, <1>3, <1>7, <1>11, FramePeek
<1>13. ASSUME NEW x \in 1..KeyLen PROVE stream[x] = [unit |-> k[x]]
  <2> DEFINE e == ExtLen(n)
  <2>1. e \in 0..1 /\ t = 2 + e /\ Before(c, n) = 2 + e + KeyLen
    BY <1>10 DEF Before
  <2>2. x \in 1..Len(stream) /\ t + x \in 1..Size(c, f)
    <3> HIDE DEF e, t, n, f, c
    <3> QED
      BY <1>1, <1>4, <1>5, <1>8, <1>10, <2>1, SMTT(20) DEF e
  <2>3. stream[x] = UnitOf(c, f, k, t + x)
    BY <1>12, <2>2
  <2>4. /\ t + x # 1 /\ t + x # 2 /\ ~(t + x <= 2 + e) /\ t + x <= Before(c, n)
        /\ t + x - 2 - e = x
    <3> HIDE DEF e, t
    <3> QED
      BY <1>5, <2>1
  <2>5. UnitOf(c, f, k, t + x) = [unit |-> k[t + x - 2 - e]]
    <3> DEFINE j == t + x
    <3>1. /\ j # 1 /\ j # 2 /\ ~(j <= 2 + ExtLen(Len(f.payload))) /\ j <= Before(c, Len(f.payload))
      BY <2>4
    <3> HIDE DEF t, f, k, c, j
    <3>2. UnitOf(c, f, k, j) = [unit |-> k[j - 2 - e]]
      BY <3>1 DEF UnitOf
    <3>3. j = t + x
      BY DEF j
    <3> HIDE DEF e
    <3> QED
      BY <1>5, <2>1, <2>4, <3>2, <3>3
  <2> QED
    BY <2>3, <2>4, <2>5
<1>14. mask' = k /\ k \in Masks
  <2>1. k \in Masks
    BY <1>2, <1>12 DEF KeySet
  <2>2. k \in [1..KeyLen -> {0, 1}]
    BY <2>1 DEF Framing!FrameAssumption
  <2> DEFINE w == SubSeq(stream, 1, KeyLen)
  <2>3. DOMAIN w = 1..KeyLen /\ \A x \in 1..KeyLen : w[x] = stream[x]
    BY <1>2, <1>5, <1>6 DEF FramingTyped
  <2>5. \A x \in 1..KeyLen : w[x].unit = k[x]
    <3> HIDE DEF w, k
    <3> SUFFICES ASSUME NEW x \in 1..KeyLen PROVE w[x].unit = k[x]
      OBVIOUS
    <3>1. stream[x] = [unit |-> k[x]]
      BY <1>13
    <3>2. w[x] = stream[x]
      BY <2>3
    <3> QED
      BY <3>1, <3>2
  <2> HIDE DEF w, k
  <2>4. Framing!Values(w) = [x \in 1..KeyLen |-> k[x]]
    BY <2>3, <2>5 DEF Framing!Values
  <2> QED
    BY <1>1, <2>1, <2>2, <2>4 DEF w
<1>15. stream' \in Seq(WireUnits)
  BY <1>1, <1>2, <1>3, <1>6, Consumed
<1>16. Framing!SizeWrong(head.opcode, head.final, head.length) = "none"
  BY <1>1, <1>2 DEF InProgress
<1>17. /\ Framing!Buffers(head.length) \in Nat
       /\ \/ /\ Framing!Limit > 0
             /\ Framing!Buffers(head.length) <= (IF Framing!Limit > Short THEN Framing!Limit ELSE Short)
          \/ Framing!Limit = 0 /\ Framing!Buffers(head.length) <= 2 * Chunk
  <2>1. end \in Ends /\ head \in [final : BOOLEAN, opcode : Framing!Opcodes, length : Nat]
    BY <1>2, <1>5 DEF FramingTyped
  <2> QED
    BY <1>16, <2>1, BuffersBounded
<1>18. FramingTyped'
  BY <1>1, <1>2, <1>14, <1>15, <1>17 DEF FramingTyped, Framing!Writable
<1>19. Framing!ReadBack' /\ Framing!RefusedForCause'
  <2>1. err = "none"
    BY <1>1, <1>2 DEF FramingTyped
  <2> QED
    BY <1>1, <1>2, <2>1 DEF Framing!ReadBack, Framing!RefusedForCause
<1>20. InProgress'
  BY <1>1, <1>16 DEF InProgress, Framing!SizeWrong, Framing!Limit
<1>21. Framing!AllocationBounded'
  <2>1. Framing!Limit' = Framing!Limit /\ Len(got') = 0
    BY <1>1, <1>2 DEF Framing!Limit
  <2> QED
    BY <1>1, <1>5, <1>17, <2>1 DEF Framing!AllocationBounded
<1>22. PICK less : /\ Laid(c, stream', framed, Len(handed), less, ks)
                   /\ Followed(stream', less[Len(framed)], ended, odd)
                   /\ less[Len(handed)] = - TakenSoFar - KeyLen
  BY <1>1, <1>2, <1>3, <1>6, <1>11, Consumed
<1>23. less[Len(handed)] = - TakenSoFar'
  <2>1. TakenSoFar' = 2 + ExtLen(n) + KeyLen + 0
    BY <1>1, <1>2, <1>9, <1>10 DEF TakenSoFar, Before
  <2> QED
    BY <1>5, <1>10, <1>11, <1>22, <2>1
<1>24. AtFrame(framed[Len(handed) + 1], ks[Len(handed) + 1])'
  BY <1>1, <1>2, <1>9, <1>14 DEF AtFrame
<1>25. Placed(less, ks)'
  BY <1>1, <1>4, <1>7, <1>22, <1>23, <1>24 DEF Placed
<1> QED
  BY <1>18, <1>19, <1>20, <1>21, <1>25 DEF FramingInv

\* One round of readPayload asks for what is owed, or a chunk of it.
LEMMA WantIs ==
    ASSUME Framing!FrameAssumption, FramingTyped
    PROVE  /\ Framing!Want \in Nat
           /\ Len(got) \in Nat /\ head.length \in Nat /\ Len(got) + Framing!Want <= head.length
           /\ head.length > Len(got) => Framing!Want > 0
           /\ Len(got) + Framing!Want # head.length => Framing!Limit = 0
<1>1. Len(got) \in Nat /\ head.length \in Nat /\ Len(got) <= head.length
  BY ConstantsAre, LenProperties DEF FramingTyped
<1>2. Chunk \in Nat \ {0} /\ Framing!Limit \in Nat
  BY ConstantsAre, ClientIs DEF Framing!Limit
<1> DEFINE g == Len(got)
           n == head.length
<1>3. /\ Framing!Whole(n) <=> Framing!Limit > 0 \/ n <= Chunk
      /\ Framing!Want = IF ~Framing!Whole(n) /\ n - g > Chunk THEN Chunk ELSE n - g
  BY DEF Framing!Want, Framing!Whole
<1> HIDE DEF g, n
<1>4. /\ Framing!Want \in Nat
      /\ g \in Nat /\ n \in Nat /\ g + Framing!Want <= n
      /\ n > g => Framing!Want > 0
      /\ g + Framing!Want # n => Framing!Limit = 0
  <2>1. g \in Nat /\ n \in Nat /\ g <= n
    BY <1>1 DEF g, n
  <2>2. CASE ~Framing!Whole(n) /\ n - g > Chunk
    <3>1. Framing!Want = Chunk /\ ~(Framing!Limit > 0)
      BY <1>3, <2>2
    <3> QED
      BY <1>2, <2>1, <2>2, <3>1
  <2>3. CASE ~(~Framing!Whole(n) /\ n - g > Chunk)
    <3>1. Framing!Want = n - g
      BY <1>3, <2>3
    <3> QED
      BY <2>1, <3>1
  <2> QED
    BY <2>2, <2>3
<1> QED
  BY <1>4 DEF g, n

\* What a round reads of a frame's payload.
LEMMA PayloadRead ==
    ASSUME Framing!FrameAssumption, FramingInv, pc = "payload", Len(handed) < Len(framed),
           Len(stream) >= Framing!Want,
           NEW pos, NEW ks, Placed(pos, ks)
    PROVE  LET b == Body(end.fromClient, framed[Len(handed) + 1], ks[Len(handed) + 1])
               p == got \o Framing!Values(SubSeq(stream, 1, Framing!Want))
           IN  /\ ks[Len(handed) + 1] \in KeySet(end.fromClient)
               /\ b \in Seq({0, 1}) /\ Len(b) = head.length
               /\ p \in Seq({0, 1}) /\ Len(p) = Len(got) + Framing!Want
               /\ \A i \in 1..Len(p) : p[i] = b[i]
               /\ TakenSoFar \in Nat
               /\ TakenSoFar = Size(end.fromClient, framed[Len(handed) + 1]) - head.length + Len(got)
<1> DEFINE c == end.fromClient
           f == framed[Len(handed) + 1]
           k == ks[Len(handed) + 1]
           n == Len(f.payload)
           g == Len(got)
           t == Before(c, n) + g
           w == SubSeq(stream, 1, Framing!Want)
           b == Body(c, f, k)
           p == got \o Framing!Values(w)
<1> HIDE DEF b, p
<1>1. FramingTyped /\ Framing!ReadBack /\ c \in BOOLEAN
  BY ClientIs DEF FramingInv
<1>2. /\ Framing!Want \in Nat /\ g \in Nat /\ head.length \in Nat /\ g + Framing!Want <= head.length
  BY <1>1, WantIs
<1>3. f \in Framing!Frames /\ Len(stream) \in Nat
  BY <1>1, CountsAre
<1>4. n \in Nat
  BY <1>3, WrittenIs
<1>5. /\ head.length = n
      /\ \A i \in 1..g : got[i] = b[i]
  BY DEF Placed, AtFrame, Header, b
<1>6. Before(c, n) \in Nat /\ Before(c, n) >= 2 + ExtLen(n) /\ Size(c, f) = Before(c, n) + n
  <2>1. /\ MaskLen(c) \in Nat /\ ExtLen(n) \in 0..1 /\ Before(c, n) = 2 + ExtLen(n) + MaskLen(c)
        /\ Size(c, f) = 2 + ExtLen(n) + MaskLen(c) + n
    BY <1>1, <1>3, SizeIs
  <2> HIDE DEF n, f, c
  <2> QED
    BY <1>4, <2>1
<1>7. TakenSoFar = t /\ t \in Nat
  BY <1>2, <1>5, <1>6 DEF TakenSoFar
<1>8. /\ k \in KeySet(c)
      /\ \A x \in 1..Len(stream) : t + x \in 1..Size(c, f) => stream[x] = UnitOf(c, f, k, t + x)
  <2> HIDE DEF t
  <2> QED
    BY <1>1, <1>7, FramePeek
<1>9. b \in Seq({0, 1}) /\ Len(b) = n /\ b = Body(c, f, k)
  <2>1. Body(c, f, k) \in Seq({0, 1}) /\ Len(Body(c, f, k)) = n
    BY <1>1, <1>3, <1>8, TravelsAs
  <2> QED
    BY <2>1 DEF b
<1>10. ASSUME NEW x \in 1..Framing!Want PROVE stream[x] = [unit |-> b[g + x]] /\ g + x \in 1..n
  <2> DEFINE d == Before(c, n)
             e == ExtLen(n)
             j == t + x
  <2>0. e \in 0..1
    BY <1>4 DEF ExtLen
  <2>1. d \in Nat /\ d >= 2 + e /\ t = d + g /\ j = d + g + x
    BY <1>6
  <2>2. x \in 1..Len(stream) /\ j \in 1..Size(c, f) /\ g + x \in 1..n
    <3> HIDE DEF d, e, j, t, n, f, c, g
    <3> QED
      BY <1>2, <1>3, <1>4, <1>5, <1>6, <1>10, <2>0, <2>1, SMTT(20) DEF d
  <2>3. stream[x] = UnitOf(c, f, k, j)
    BY <1>8, <2>2
  <2>4. /\ j # 1 /\ j # 2 /\ ~(j <= 2 + e) /\ ~(j <= d) /\ j - d = g + x
    <3> HIDE DEF d, e, j, t, g
    <3> QED
      BY <1>2, <2>0, <2>1
  <2>5. UnitOf(c, f, k, j) = [unit |-> b[j - d]]
    <3> HIDE DEF j, f, k, c
    <3> QED
      BY <1>9, <2>4 DEF UnitOf
  <2> HIDE DEF j, d
  <2> QED
    BY <2>2, <2>3, <2>4, <2>5
<1>11. Len(w) = Framing!Want /\ DOMAIN w = 1..Framing!Want
       /\ \A x \in 1..Framing!Want : w[x] = stream[x]
  BY <1>1, <1>2, <1>3 DEF FramingTyped
<1> DEFINE v == Framing!Values(w)
<1>12. v \in Seq({0, 1}) /\ Len(v) = Framing!Want /\ \A x \in 1..Framing!Want : v[x] = b[g + x]
  <2>1. \A x \in 1..Framing!Want : w[x].unit = b[g + x] /\ b[g + x] \in {0, 1}
    <3> SUFFICES ASSUME NEW x \in 1..Framing!Want PROVE w[x].unit = b[g + x] /\ b[g + x] \in {0, 1}
      OBVIOUS
    <3>1. stream[x] = [unit |-> b[g + x]] /\ g + x \in 1..n
      BY <1>10
    <3>2. b[g + x] \in {0, 1}
      BY <1>9, <3>1
    <3>3. w[x] = stream[x]
      BY <1>11
    <3> HIDE DEF w, g
    <3> QED
      BY <3>1, <3>2, <3>3
  <2> HIDE DEF w, g
  <2>2. v = [x \in 1..Framing!Want |-> b[g + x]]
    BY <1>11, <2>1 DEF Framing!Values
  <2> HIDE DEF v
  <2>3. v \in [1..Framing!Want -> {0, 1}] /\ \A x \in 1..Framing!Want : v[x] = b[g + x]
    BY <2>1, <2>2
  <2> QED
    BY <1>2, <2>3
<1> HIDE DEF v
<1>13. p \in Seq({0, 1}) /\ Len(p) = g + Framing!Want /\ \A i \in 1..Len(p) : p[i] = b[i]
  <2>1. got \in Seq({0, 1}) /\ v \in Seq({0, 1})
    BY <1>1, <1>12 DEF FramingTyped
  <2>2. /\ got \o v \in Seq({0, 1}) /\ Len(got \o v) = Len(got) + Len(v)
        /\ \A i \in 1..(Len(got) + Len(v)) :
             (got \o v)[i] = IF i <= Len(got) THEN got[i] ELSE v[i - Len(got)]
    BY <2>1, ConcatProperties
  <2>3. p = got \o v
    BY DEF v, p
  <2>4. /\ p \in Seq({0, 1}) /\ Len(p) = g + Framing!Want
        /\ \A i \in 1..(g + Framing!Want) : p[i] = IF i <= g THEN got[i] ELSE v[i - g]
    BY <1>12, <2>2, <2>3
  <2> HIDE DEF g
  <2>5. ASSUME NEW i \in 1..(g + Framing!Want) PROVE p[i] = b[i]
    <3>1. CASE i <= g
      BY <1>2, <1>5, <2>4, <3>1
    <3>2. CASE ~(i <= g)
      <4>1. i - g \in 1..Framing!Want /\ g + (i - g) = i
        BY <1>2, <3>2
      <4> QED
        BY <1>12, <2>4, <3>2, <4>1
    <3> QED
      BY <3>1, <3>2
  <2> QED
    BY <2>4, <2>5
<1>14. TakenSoFar \in Nat /\ TakenSoFar = Size(c, f) - head.length + Len(got)
  <2>1. t = Size(c, f) - n + g
    <3> HIDE DEF c, f, n, g
    <3> QED
      BY <1>2, <1>4, <1>6
  <2> QED
    BY <1>5, <1>7, <2>1
<1> QED
  BY <1>5, <1>8, <1>9, <1>13, <1>14 DEF b, p

LEMMA ReadPayloadStep ==
    ASSUME Framing!FrameAssumption, FramingInv, Framing!ReadPayload
    PROVE  FramingInv'
<1> DEFINE c == end.fromClient
           f == framed[Len(handed) + 1]
           p == got \o Framing!Values(SubSeq(stream, 1, Framing!Want))
<1>1. /\ pc = "payload" /\ Len(stream) >= Framing!Want /\ Framing!Consume(Framing!Want)
      /\ UNCHANGED <<end, ended, err, framed, odd>>
      /\ IF Len(p) = head.length THEN Framing!Returned(p)
         ELSE got' = p /\ alloc' = Framing!Grown(Len(p)) /\ UNCHANGED <<pc, head, mask, handed>>
  BY DEF Framing!ReadPayload, Framing!Arrived
<1>2. FramingTyped /\ Framing!ReadBack /\ InProgress /\ err = "none" /\ c \in BOOLEAN
  BY <1>1, ClientIs DEF FramingInv, FramingTyped
<1>3. PICK pos, ks : Placed(pos, ks)
  BY <1>1 DEF FramingInv
<1>4. /\ Len(handed) \in 0..Len(framed) /\ Len(framed) \in Nat /\ Len(stream) \in Nat
      /\ Len(handed) < Len(framed) => framed[Len(handed) + 1] \in Framing!Frames
      /\ \A i \in 1..Len(handed) : handed[i] = framed[i]
  BY <1>2, CountsAre
<1>5. /\ Framing!Want \in Nat /\ Len(got) \in Nat /\ head.length \in Nat
           /\ Len(got) + Framing!Want <= head.length
      /\ head.length > Len(got) => Framing!Want > 0
      /\ Len(got) + Framing!Want # head.length => Framing!Limit = 0
  BY <1>2, WantIs
<1>6. Len(handed) < Len(framed)
  <2> SUFFICES ASSUME Len(handed) = Len(framed) PROVE FALSE
    BY <1>4
  <2>1. stream = <<>> /\ got = <<>> /\ head.length > 0
    BY <1>1, StrayEnds
  <2>2. Len(stream) = 0 /\ Len(got) = 0
    BY <2>1
  <2> QED
    BY <1>1, <1>5, <2>1, <2>2
<1> DEFINE k == ks[Len(handed) + 1]
           b == Body(c, f, k)
<1>7. /\ k \in KeySet(c)
      /\ b \in Seq({0, 1}) /\ Len(b) = head.length
      /\ p \in Seq({0, 1}) /\ Len(p) = Len(got) + Framing!Want
      /\ \A i \in 1..Len(p) : p[i] = b[i]
      /\ TakenSoFar \in Nat /\ TakenSoFar = Size(c, f) - head.length + Len(got)
  <2>1. pc = "payload" /\ Len(stream) >= Framing!Want
    BY <1>1
  <2> QED
    BY <1>3, <1>6, <2>1, PayloadRead
<1>8. f \in Framing!Frames /\ Size(c, f) \in Nat
  BY <1>2, <1>4, <1>6, SizeIs
<1>9. stream' \in Seq(WireUnits)
  <2>1. Framing!Want \in 0..Len(stream)
    BY <1>1, <1>4, <1>5
  <2> QED
    BY <1>1, <1>2, <1>3, <2>1, Consumed
<1>10. PICK less : /\ Laid(c, stream', framed, Len(handed), less, ks)
                   /\ Followed(stream', less[Len(framed)], ended, odd)
                   /\ less[Len(handed)] = - TakenSoFar - Framing!Want
  <2>1. Framing!Want \in 0..Len(stream) /\ TakenSoFar \in Int
    BY <1>1, <1>4, <1>5, <1>7
  <2> QED
    BY <1>1, <1>2, <1>3, <2>1, Consumed
<1>11. head = Header(f, Len(f.payload))
  BY <1>1, <1>3, <1>6 DEF Placed, AtFrame
<1>12. CASE Len(p) = head.length
  <2> DEFINE e == [final |-> head.final, opcode |-> head.opcode,
                   payload |-> IF Framing!FromClient THEN Framing!Mask(p, mask) ELSE p]
  <2>1. /\ handed' = Append(handed, e) /\ pc' = "head" /\ head' = Framing!NoHead /\ mask' = <<>>
        /\ got' = <<>> /\ alloc' = 0
    BY <1>1, <1>12 DEF Framing!Returned
  <2>2. p = b
    <3> HIDE DEF p, b
    <3> QED
      BY <1>7, <1>12, SeqEqual
  <2>3. (IF Framing!FromClient THEN Framing!Mask(p, mask) ELSE p) = f.payload
    <3>1. CASE c
      <4>1. mask = k
        BY <1>1, <1>3, <1>6, <3>1 DEF Placed, AtFrame
      <4>2. k \in Masks /\ b = Framing!Mask(f.payload, k) /\ f.payload \in Seq({0, 1})
        BY <1>7, <1>8, <3>1, WrittenIs DEF KeySet, Body
      <4>3. Framing!Mask(b, k) = f.payload
        BY <4>2, MaskTwice
      <4> QED
        BY <2>2, <3>1, <4>1, <4>3 DEF Framing!FromClient
    <3>2. CASE ~c
      BY <2>2, <3>2 DEF Framing!FromClient, Body
    <3> QED
      BY <3>1, <3>2
  <2>4. e = f
    <3>1. f = [final |-> f.final, opcode |-> f.opcode, payload |-> f.payload]
      BY <1>8, WrittenIs
    <3>2. head.final = f.final /\ head.opcode = f.opcode
      BY <1>11 DEF Header
    <3> QED
      BY <2>3, <3>1, <3>2
  <2>5. /\ handed' \in Seq(Framing!Frames) /\ Len(handed') = Len(handed) + 1
             /\ handed'[Len(handed) + 1] = f
        /\ \A i \in 1..Len(handed) : handed'[i] = handed[i]
    <3>1. handed \in Seq(Framing!Frames)
      BY <1>2 DEF FramingTyped
    <3>2. handed' = Append(handed, f)
      BY <2>1, <2>4
    <3> HIDE DEF f
    <3> QED
      BY <1>8, <3>1, <3>2, AppendProperties
  <2>6. FramingTyped'
    <3>1. head' \in [final : BOOLEAN, opcode : Framing!Opcodes, length : 0..Ceiling] /\ head'.length = 0
      BY <2>1, ConstantsAre DEF Framing!NoHead, Framing!Opcodes, Framing!Data
    <3>2. got' \in Seq({0, 1}) /\ Len(got') = 0
      BY <2>1
    <3> QED
      BY <1>1, <1>2, <1>9, <2>1, <2>5, <3>1, <3>2 DEF FramingTyped, Framing!Writable
  <2>7. Framing!ReadBack'
    <3>1. DOMAIN handed' = 1..(Len(handed) + 1)
      BY <2>5
    <3>2. Len(handed') <= Len(framed)
      BY <1>4, <1>6, <2>5
    <3>3. \A i \in 1..(Len(handed) + 1) : handed'[i] = framed[i]
      <4> SUFFICES ASSUME NEW i \in 1..(Len(handed) + 1) PROVE handed'[i] = framed[i]
        OBVIOUS
      <4>1. i = Len(handed) + 1 \/ i \in 1..Len(handed)
        BY <1>4
      <4> QED
        BY <1>4, <2>5, <4>1
    <3> QED
      BY <1>1, <3>1, <3>2, <3>3 DEF Framing!ReadBack
  <2>8. InProgress' /\ Framing!RefusedForCause'
    BY <1>1, <1>2, <2>1 DEF InProgress, Framing!RefusedForCause
  <2>9. Framing!AllocationBounded'
    <3>1. Framing!Limit' = Framing!Limit /\ Framing!Limit \in Nat /\ Short \in Nat /\ Chunk \in Nat
          /\ Len(got') = 0
      BY <1>1, <1>2, <2>1, ClientIs, ConstantsAre DEF Framing!Limit
    <3> QED
      BY <2>1, <3>1 DEF Framing!AllocationBounded
  <2>10. Laid(c, stream', framed, Len(handed) + 1, less, ks)
    <3>1. framed \in Seq(Framing!Frames) /\ Len(handed) \in Nat
      BY <1>2, <1>4 DEF FramingTyped
    <3> HIDE DEF c
    <3> QED
      BY <1>10, <3>1, LaidNext
  <2>11. less[Len(handed) + 1] = 0
    <3>1. Len(handed) + 1 \in (Len(handed) + 1)..Len(framed) /\ Len(handed) + 1 - 1 = Len(handed)
      BY <1>4, <1>6
    <3>2. less[Len(handed) + 1] = less[Len(handed)] + Size(c, f)
      BY <1>10, <3>1 DEF Laid
    <3> DEFINE z == Size(c, f)
               g == Len(got)
               t == TakenSoFar
               n == head.length
               a == less[Len(handed)]
    <3>3. a = - t - Framing!Want /\ t = z - n + g /\ g + Framing!Want = n
      BY <1>7, <1>10, <1>12
    <3>4. a + z = 0
      <4>1. t \in Nat /\ z \in Nat /\ g \in Nat /\ n \in Nat /\ Framing!Want \in Nat
        BY <1>5, <1>7, <1>8
      <4> HIDE DEF z, g, t, n, a
      <4> QED
        BY <3>3, <4>1
    <3> QED
      BY <3>2, <3>4
  <2>12. less[Len(handed')] = - TakenSoFar'
    BY <2>1, <2>5, <2>11 DEF TakenSoFar
  <2>13. AtFrame(framed[Len(handed) + 1], ks[Len(handed) + 1])' /\ AtStray'
    BY <2>1 DEF AtFrame, AtStray
  <2>14. Placed(less, ks)'
    BY <1>1, <1>10, <2>5, <2>10, <2>12, <2>13 DEF Placed
  <2> QED
    BY <2>6, <2>7, <2>8, <2>9, <2>14 DEF FramingInv
<1>13. CASE Len(p) # head.length
  <2>1. got' = p /\ alloc' = Framing!Grown(Len(p)) /\ UNCHANGED <<pc, head, mask, handed>>
    BY <1>1, <1>13
  <2>2. Framing!Limit = 0 /\ Len(p) \in Nat /\ Len(p) <= head.length /\ Len(p) >= Len(got)
    BY <1>5, <1>7, <1>13
  <2>3. Framing!Grown(Len(p)) \in Nat /\ Framing!Grown(Len(p)) <= 2 * Len(p) + 2 * Chunk
    <3> DEFINE n == Len(p)
               g == Len(got)
    <3>1. alloc \in Nat /\ alloc <= 2 * g + 2 * Chunk
      BY <1>2, <2>2 DEF FramingInv, FramingTyped, Framing!AllocationBounded
    <3>2. n \in Nat /\ g \in Nat /\ g <= n /\ Chunk \in Nat
      BY <1>5, <2>2, ConstantsAre
    <3> HIDE DEF n, g
    <3>3. Framing!Grown(n) \in Nat /\ Framing!Grown(n) <= 2 * n + 2 * Chunk
      BY <3>1, <3>2 DEF Framing!Grown
    <3> QED
      BY <3>3 DEF n
  <2>4. FramingTyped'
    BY <1>1, <1>2, <1>7, <1>9, <2>1, <2>2, <2>3 DEF FramingTyped, Framing!Writable
  <2>5. Framing!ReadBack' /\ Framing!RefusedForCause'
    BY <1>1, <1>2, <2>1 DEF Framing!ReadBack, Framing!RefusedForCause
  <2>6. InProgress'
    BY <1>1, <1>2, <2>1 DEF InProgress, Framing!SizeWrong, Framing!Limit
  <2>7. Framing!AllocationBounded'
    <3>1. Framing!Limit' = 0 /\ Len(got') = Len(p)
      BY <1>1, <2>1, <2>2 DEF Framing!Limit
    <3> QED
      BY <2>1, <2>3, <3>1 DEF Framing!AllocationBounded
  <2>8. less[Len(handed)] = - TakenSoFar'
    <3>1. TakenSoFar' = Before(c, head.length) + Len(p)
          /\ TakenSoFar = Before(c, head.length) + Len(got)
      BY <1>1, <2>1 DEF TakenSoFar
    <3>2. Before(c, head.length) \in Nat
      <4>1. Before(c, Len(f.payload)) = 2 + ExtLen(Len(f.payload)) + MaskLen(c)
            /\ MaskLen(c) \in Nat /\ ExtLen(Len(f.payload)) \in 0..1
        BY <1>2, <1>8, SizeIs
      <4>2. Before(c, Len(f.payload)) \in Nat
        BY <4>1
      <4> QED
        BY <1>11, <4>2 DEF Header
    <3> DEFINE d == Before(c, head.length)
               g == Len(got)
               a == less[Len(handed)]
               x == TakenSoFar
               y == TakenSoFar'
    <3>3. d \in Nat /\ g \in Nat /\ Framing!Want \in Nat /\ x = d + g /\ y = d + (g + Framing!Want)
          /\ a = - x - Framing!Want
      BY <1>5, <1>7, <1>10, <3>1, <3>2
    <3> HIDE DEF d, g, a, x, y
    <3>4. a = - y
      BY <3>3
    <3> QED
      BY <3>4 DEF a, y
  <2>9. AtFrame(framed[Len(handed) + 1], ks[Len(handed) + 1])'
    <3>1. AtFrame(f, k)
      BY <1>3, <1>6 DEF Placed
    <3>2. \A i \in 1..Len(got') : got'[i] = Body(end'.fromClient, framed'[Len(handed') + 1],
          ks[Len(handed') + 1])[i]
      BY <1>1, <1>7, <2>1
    <3> QED
      BY <1>1, <2>1, <3>1, <3>2 DEF AtFrame
  <2>10. Placed(less, ks)'
    BY <1>1, <1>4, <1>6, <1>10, <2>1, <2>8, <2>9 DEF Placed
  <2> QED
    BY <2>4, <2>5, <2>6, <2>7, <2>10 DEF FramingInv
<1> QED
  BY <1>12, <1>13

LEMMA FramingInit ==
    ASSUME Framing!FrameAssumption, Framing!Init
    PROVE  FramingInv
<1>1. /\ end \in Ends /\ stream = <<>> /\ ended = FALSE /\ pc = "head" /\ head = Framing!NoHead
           /\ mask = <<>>
      /\ got = <<>> /\ alloc = 0 /\ err = "none" /\ framed = <<>> /\ odd = <<>> /\ handed = <<>>
  BY DEF Framing!Init
<1>2. Len(stream) = 0 /\ Len(framed) = 0 /\ Len(handed) = 0 /\ Len(got) = 0
  BY <1>1
<1>3. Framing!NoHead \in [final : BOOLEAN, opcode : Framing!Opcodes, length : 0..Ceiling]
      /\ Framing!NoHead.length = 0
  BY ConstantsAre DEF Framing!NoHead, Framing!Opcodes, Framing!Data
<1>4. FramingTyped
  <2>1. \A i \in 1..Len(framed) : Framing!Writable(framed[i])
    BY <1>2
  <2>2. Len(got) <= head.length /\ head \in [final : BOOLEAN, opcode : Framing!Opcodes,
        length : 0..Ceiling]
    BY <1>1, <1>2, <1>3
  <2>3. stream \in Seq(WireUnits) /\ got \in Seq({0, 1}) /\ framed \in Seq(Framing!Frames)
        /\ handed \in Seq(Framing!Frames)
    BY <1>1
  <2> QED
    BY <1>1, <2>1, <2>2, <2>3 DEF FramingTyped
<1>5. Framing!ReadBack /\ InProgress /\ Framing!RefusedForCause
  BY <1>1, <1>2 DEF Framing!ReadBack, InProgress, Framing!RefusedForCause
<1>6. Framing!AllocationBounded
  <2>1. Framing!Limit \in Nat /\ Short \in Nat /\ Chunk \in Nat
    BY <1>4, ClientIs, ConstantsAre DEF Framing!Limit
  <2> QED
    BY <1>1, <1>2, <2>1 DEF Framing!AllocationBounded
<1>7. \E pos, ks : Placed(pos, ks)
  <2> DEFINE pos == [i \in 0..0 |-> 0]
             ks == [i \in 1..0 |-> <<>>]
  <2>1. Laid(end.fromClient, stream, framed, Len(handed), pos, ks)
    BY <1>2 DEF Laid
  <2>2. pos[0] = 0 /\ TakenSoFar = 0
    BY <1>1 DEF TakenSoFar
  <2> HIDE DEF pos, ks
  <2>3. Placed(pos, ks)
    BY <1>1, <1>2, <2>1, <2>2 DEF Placed, Followed, AtStray
  <2> QED
    BY <2>3
<1> QED
  BY <1>4, <1>5, <1>6, <1>7 DEF FramingInv

LEMMA FramingEnough ==
    ASSUME Framing!FrameAssumption, FramingInv
    PROVE  Framing!FramesExact
<1>1. Framing!TypeOK
  BY DEF FramingInv, FramingTyped, Framing!TypeOK
<1>2. Framing!ForbiddenStops
  <2> SUFFICES ASSUME Framing!AtOdd, pc \in {"key", "payload"} PROVE ~Framing!Forbidden
    BY DEF Framing!ForbiddenStops
  <2>1. PICK pos, ks : Placed(pos, ks)
    BY DEF FramingInv
  <2> QED
    BY <2>1 DEF Placed, AtStray, Framing!AtOdd
<1> QED
  BY <1>1, <1>2 DEF FramingInv, Framing!FramesExact

LEMMA FramingStep ==
    ASSUME Framing!FrameAssumption, FramingInv, [Framing!Next]_Framing!vars
    PROVE  FramingInv'
<1>1. ASSUME NEW f \in Framing!Frames, NEW k \in IF Framing!FromClient THEN Masks ELSE {<<>>},
             Framing!WriteFrame(f, k)
      PROVE  FramingInv'
  BY <1>1, WriteFrameStep DEF KeySet, Framing!FromClient
<1>2. ASSUME NEW first \in Framing!StrayFirsts, NEW masked \in BOOLEAN, NEW l \in Framing!StrayLengths,
             Framing!Stray(first, Framing!Second(masked, l[1]), l[2])
      PROVE  FramingInv'
  <2> DEFINE o == <<first, Framing!Second(masked, l[1]), l[2]>>
  <2>1. o \in Strays /\ o[1] = first /\ o[2] = Framing!Second(masked, l[1]) /\ o[3] = l[2]
    BY DEF Strays
  <2> HIDE DEF o
  <2> QED
    BY <1>2, <2>1, StrayStep
<1>3. ASSUME NEW n \in 0..Len(stream), Framing!Cut(n) PROVE FramingInv'
  BY <1>3, CutStep
<1>4. CASE Framing!ReadFrame
  BY <1>4, ReadHeadStep, ReadExtendedStep, ReadKeyStep, ReadPayloadStep, ReadEndsStep
     DEF Framing!ReadFrame
<1>5. CASE UNCHANGED Framing!vars
  <2>1. UNCHANGED <<end, stream, ended, pc, head, mask, got, alloc, err, framed, odd, handed>>
    BY <1>5 DEF Framing!vars
  <2>2. FramingTyped' /\ Framing!ReadBack' /\ InProgress' /\ Framing!AllocationBounded'
    BY <2>1, IdleKeeps DEF FramingInv, FramingTyped, Framing!ReadBack, Framing!Idle, Framing!Writable
  <2>3. Framing!RefusedForCause'
    BY <2>1 DEF FramingInv, Framing!RefusedForCause, Framing!AtOdd, Framing!Forbidden,
        Framing!OddLength, Framing!Limit, Framing!FromClient
  <2>4. ASSUME NEW pos, NEW ks, Placed(pos, ks) PROVE Placed(pos, ks)'
    BY <2>1, <2>4 DEF Placed, TakenSoFar, AtFrame, AtStray, Framing!HeadWrong, Framing!FromClient,
        Framing!Forbidden, Framing!OddLength
  <2> QED
    BY <2>1, <2>2, <2>3, <2>4 DEF FramingInv
<1> QED
  BY <1>1, <1>2, <1>3, <1>4, <1>5 DEF Framing!Next

\* The invariant holds.
LEMMA FramingInvariant == ASSUME Framing!FrameAssumption PROVE Framing!Spec => []FramingInv
<1>1. Framing!Init => FramingInv
  BY FramingInit
<1>2. FramingInv /\ [Framing!Next]_Framing!vars => FramingInv'
  BY FramingStep
<1> QED
  BY <1>1, <1>2, PTL DEF Framing!Spec

\* ReadFrame returns the frames WriteFrame wrote, unmasked, in their order, whatever
\* the lengths and wherever the stream ends. It refuses only what the RFC, the limit
\* or an int64 forbids, reads nothing forbidden past its header, and readPayload's
\* memory follows the limit or the bytes that arrived.
THEOREM FramesAreExact == Framing!Spec => []FramesExact
<1>1. FramingInv => FramesExact
  BY WsAssumption, FramingEnough DEF WsAssumption, FramesExact
<1>2. Framing!Spec => []FramingInv
  BY WsAssumption, FramingInvariant DEF WsAssumption
<1> QED
  BY <1>1, <1>2, PTL

-----------------------------------------------------------------------------
(* Conn, for any number of writers, any frames of the peer and any order   *)
(* in which the goroutines get the mutex. The reader's step is summed up   *)
(* first, then each part of the invariant is kept by each way of writing.  *)

\* The Cardinality the instance brings is the library's.
LEMMA CardinalityIs == ASSUME NEW S PROVE Socket!Cardinality(S) = Cardinality(S)
  BY DEF Socket!Cardinality, Cardinality

FramesIn == Socket!DataFrames \union Socket!ControlFrames \union Socket!Faults
EchoedCodes == {"1000", "1001", "1002", "1007", "1009"}
Protocol == {"ErrTooLarge", "ErrBadFragment", "ErrBadUTF8", "ErrReservedBits", "ErrBadCloseCode"}

\* The frames a goroutine may be writing.
Sendable ==
    {Socket!Frame("none", TRUE, <<>>)}
      \union {Socket!Frame(op, TRUE, <<"normal">>) : op \in Written}
      \union {Socket!Frame("pong", TRUE, f.payload) : f \in Socket!ControlFrames}
      \union {Socket!Frame("close", TRUE, <<c>>) : c \in EchoedCodes}

Units == [part : {"header", "payload"}, by : Socket!Goroutines, frame : Sendable]

SocketTyped ==
    /\ mu \in Socket!Goroutines \union {Socket!Nobody}
    /\ closeSent \in BOOLEAN /\ broken \in BOOLEAN
    /\ sending \in [Socket!Goroutines -> [at : {"idle", "lock", "header", "payload"}, frame : Sendable]]
    /\ out \in Seq(Units)
    /\ consumed \in Seq(FramesIn)
    /\ \A g \in Socket!Goroutines : sending[g].at \in {"header", "payload"} <=> mu = g
    /\ \A g \in Socket!Goroutines : sending[g].at = "idle" => sending[g] = Socket!Quiet

\* Who writes, and how far it is: between frames what was written is whole frames,
\* within one its header is last.
Between == Len(out) % 2 = 0
Within ==
    /\ Len(out) % 2 = 1
    /\ mu # Socket!Nobody /\ sending[mu].at = "payload" /\ out[Len(out)] = Socket!Part(mu, "header")

Turn ==
    ~broken =>
      /\ mu = Socket!Nobody => Between
      /\ mu # Socket!Nobody /\ sending[mu].at = "header" => Between
      /\ mu # Socket!Nobody /\ sending[mu].at = "payload" => Within

\* A close is the last frame anybody gets the mutex for.
ClosesLast ==
    /\ closeSent /\ mu # Socket!Nobody => sending[mu].frame.opcode = "close"
    /\ ~closeSent =>
         /\ \A i \in DOMAIN out : out[i].frame.opcode # "close"
         /\ mu # Socket!Nobody => sending[mu].frame.opcode # "close"
    /\ mu # Socket!Nobody /\ sending[mu].at = "header"
         => \A i \in DOMAIN out : out[i].frame.opcode # "close"
    /\ mu # Socket!Nobody /\ sending[mu].at = "payload"
         => \A i \in DOMAIN out : out[i].frame.opcode = "close" => i = Len(out)

Said(e, f) == f.opcode = "close" /\ (e \in Protocol => f.payload = <<Socket!Code(e)>>)

\* What the reader has told the peer of an error.
Told(e) == \A i \in DOMAIN out : out[i].by = Reader /\ out[i].frame.opcode = "close"
    => Said(e, out[i].frame)
Silent == \A i \in DOMAIN out : out[i].by = Reader => out[i].frame.opcode # "close"

\* What the reader ends with, and what it tells the peer.
Why ==
    /\ outcome # "none" => readErr = "none"
    /\ outcome = "none" => sending[Reader].frame.opcode # "close"
    /\ outcome = "none" /\ readErr = "none" => Silent
    /\ outcome # "none" =>
         /\ sending[Reader] # Socket!Quiet => Said(outcome, sending[Reader].frame)
         /\ sending[Reader] = Socket!Quiet => closeSent
         /\ Told(outcome)
    /\ readErr # "none" =>
         /\ sending[Reader] = Socket!Quiet
         /\ readErr \in Protocol => closeSent /\ Told(readErr)

NPings == Cardinality(Socket!PingsIn(Len(consumed)))
NPongs == Cardinality(Socket!PongsOut(Len(out)))

\* The reader has a ping to answer, and will unless the socket fails; or it has none.
Owing ==
    /\ ~broken /\ sending[Reader] # Socket!Quiet /\ sending[Reader].frame.opcode = "pong"
    /\ closeSent => sending[Reader].at # "lock"
Even ==
    /\ ~broken /\ ~closeSent
    /\ sending[Reader] = Socket!Quiet \/ sending[Reader].frame.opcode # "pong"

\* How many pings the reader has answered.
Answered ==
    /\ Owing =>
         /\ ~closeSent
         /\ NPongs + 1 = NPings
         /\ Len(consumed) \in Socket!PingsIn(Len(consumed))
         /\ consumed[Len(consumed)].payload = sending[Reader].frame.payload
    /\ Even => NPongs = NPings

\* Every pong is the answer to the ping of its rank.
Paired ==
    \A k \in Socket!PongsOut(Len(out)) : \E i \in Socket!PingsIn(Len(consumed)) :
       /\ Cardinality(Socket!PingsIn(i)) = Cardinality(Socket!PongsOut(k))
       /\ out[k].frame.payload = consumed[i].payload

SocketInv == SocketTyped /\ Socket!WholeFrames /\ Socket!CloseIsLast /\ Turn /\ ClosesLast /\ Why
    /\ Answered /\ Paired

-----------------------------------------------------------------------------
\* What reading a frame does: nothing to the writers, the start of a pong, or the
\* start of the close the reader ends with.
Reads(f) ==
    /\ Socket!Takes(f)
    /\ UNCHANGED <<mu, closeSent, out, writes>>
    /\ \/ /\ sending' = sending /\ outcome' = outcome /\ f.opcode # "ping"
          /\ readErr' \notin Protocol
          /\ broken' \in {broken, TRUE}
       \/ /\ f.opcode = "ping" /\ f \in Socket!ControlFrames
          /\ Socket!Starts(Reader, Socket!Frame("pong", TRUE, f.payload))
          /\ outcome' = outcome /\ readErr' = readErr /\ broken' = broken
       \/ /\ f.opcode # "ping"
          /\ outcome' # "none"
          /\ \E c \in EchoedCodes :
               /\ Socket!Starts(Reader, Socket!Frame("close", TRUE, <<c>>))
               /\ outcome' \in Protocol => c = Socket!Code(outcome')
          /\ readErr' = readErr /\ broken' = broken

LEMMA CodeOf == ASSUME NEW e PROVE Socket!Code(e) \in EchoedCodes
  BY DEF Socket!Code, EchoedCodes

\* failRead, for an error of the protocol and for one of the network.
LEMMA FailReads ==
    ASSUME NEW f, Socket!Takes(f), f.opcode # "ping", NEW e \in Protocol \union {"EOF"},
           Socket!FailRead(e),
           UNCHANGED <<mu, closeSent, out, writes>>
    PROVE  Reads(f)
<1>1. CASE e = "EOF"
  BY <1>1 DEF Socket!FailRead, Socket!isTransport, Socket!Ended, Reads, Protocol
<1>2. CASE e \in Protocol
  <2>1. e # "EOF" /\ e # "none"
    BY <1>2 DEF Protocol
  <2>2. /\ Socket!Starts(Reader, Socket!Frame("close", TRUE, <<Socket!Code(e)>>))
        /\ outcome' = e /\ readErr' = readErr /\ broken' = broken
    BY <2>1 DEF Socket!FailRead, Socket!isTransport
  <2>3. Socket!Code(e) \in EchoedCodes
    BY CodeOf
  <2> QED
    BY <2>1, <2>2, <2>3 DEF Reads
<1> QED
  BY <1>1, <1>2

LEMMA DataReads ==
    ASSUME NEW f \in Socket!DataFrames, Socket!Data(f)
    PROVE  Reads(f)
<1>1. f.opcode \in {"text", "binary", "continuation"}
  BY DEF Socket!DataFrames, Socket!Frame
<1>2. Socket!Takes(f) /\ UNCHANGED <<mu, closeSent, out, writes>>
  BY DEF Socket!Data
<1>3. \/ /\ UNCHANGED <<readErr, sending, outcome, broken>>
      \/ \E e \in {"ErrTooLarge", "ErrBadFragment", "ErrBadUTF8"} : Socket!FailRead(e)
  BY DEF Socket!Data
<1>4. CASE UNCHANGED <<readErr, sending, outcome, broken>>
  BY <1>1, <1>2, <1>4 DEF Reads, Socket!Takes, Protocol
<1>5. ASSUME NEW e \in {"ErrTooLarge", "ErrBadFragment", "ErrBadUTF8"}, Socket!FailRead(e)
      PROVE  Reads(f)
  BY <1>1, <1>2, <1>5, FailReads DEF Protocol
<1> QED
  BY <1>3, <1>4, <1>5

LEMMA ControlReads ==
    ASSUME Socket!ConnAssumption, NEW f \in Socket!ControlFrames, Socket!Ping(f) \/ Socket!Pong(f)
           \/ Socket!Close(f)
    PROVE  Reads(f)
<1>1. CASE Socket!Ping(f)
  BY <1>1 DEF Socket!Ping, Reads, Socket!writing
<1>2. CASE Socket!Pong(f)
  BY <1>2 DEF Socket!Pong, Reads, Socket!writing, Protocol
<1>3. CASE Socket!Close(f)
  <2>1. PICK c \in Closes : f = Socket!Frame("close", TRUE, <<c>>)
    BY <1>3 DEF Socket!Close, Socket!ControlFrames, Socket!Frame
  <2>2. f.payload[1] = c /\ f.opcode = "close"
    BY <2>1 DEF Socket!Frame
  <2>3. /\ Socket!Takes(f) /\ UNCHANGED <<mu, closeSent, out, writes>>
        /\ IF Socket!CloseWrong(c) # "none"
           THEN Socket!FailRead(Socket!CloseWrong(c))
           ELSE /\ Socket!Starts(Reader, Socket!Frame("close", TRUE, <<Socket!Echo(c)>>))
                /\ outcome' = Socket!Closed(c)
                /\ UNCHANGED <<readErr, broken>>
    BY <1>3, <2>2 DEF Socket!Close
  <2>4. CASE Socket!CloseWrong(c) # "none"
    <3>1. Socket!CloseWrong(c) \in Protocol \union {"EOF"}
      BY <2>4 DEF Socket!CloseWrong, Protocol
    <3> QED
      BY <2>2, <2>3, <2>4, <3>1, FailReads
  <2>5. CASE Socket!CloseWrong(c) = "none"
    <3>1. c \in {"empty", "normal", "away"}
      BY <2>5 DEF Socket!CloseWrong, Socket!ConnAssumption
    <3>2. /\ Socket!Closed(c) # "none" /\ Socket!Closed(c) \notin Protocol
          /\ Socket!Echo(c) \in EchoedCodes
      BY <3>1 DEF Socket!Closed, Socket!Echo, Protocol, EchoedCodes
    <3> QED
      BY <2>2, <2>3, <2>5, <3>2 DEF Reads
  <2> QED
    BY <2>4, <2>5
<1> QED
  BY <1>1, <1>2, <1>3

LEMMA FaultReads ==
    ASSUME NEW f \in Socket!Faults, Socket!Fault(f)
    PROVE  Reads(f)
<1>1. PICK e \in {"ErrReservedBits", "EOF"} : f = Socket!Frame("fault", TRUE, <<e>>)
  BY DEF Socket!Faults
<1>2. f.opcode = "fault" /\ f.payload[1] = e
  BY <1>1 DEF Socket!Frame
<1> QED
  BY <1>2, FailReads DEF Socket!Fault, Protocol

\* What a step is, for the mutex and the socket.
LEMMA SocketCases ==
    ASSUME Socket!ConnAssumption, [Socket!Next]_Socket!vars
    PROVE  \/ \E f \in FramesIn : Reads(f)
           \/ Socket!Shut
           \/ \E w \in Writers, op \in Written : Socket!WriteMessage(w, op)
           \/ \E g \in Socket!Goroutines : Socket!Lock(g) \/ Socket!WriteHeader(g)
                \/ Socket!WritePayload(g) \/ Socket!WriteFails(g)
           \/ \E w \in Writers : Socket!Oversize(w)
           \/ UNCHANGED Socket!vars
<1>1. ASSUME NEW f \in Socket!DataFrames, Socket!Data(f) PROVE \E h \in FramesIn : Reads(h)
  BY <1>1, DataReads DEF FramesIn
<1>2. ASSUME NEW f \in Socket!ControlFrames, Socket!Ping(f) \/ Socket!Pong(f) \/ Socket!Close(f)
      PROVE  \E h \in FramesIn : Reads(h)
  BY <1>2, ControlReads DEF FramesIn
<1>3. ASSUME NEW f \in Socket!Faults, Socket!Fault(f) PROVE \E h \in FramesIn : Reads(h)
  BY <1>3, FaultReads DEF FramesIn
<1> QED
  BY <1>1, <1>2, <1>3 DEF Socket!Next, Socket!Writes, Socket!Oversize

\* What the writing of a frame does to the goroutine that writes it.
LEMMA ReaderIs == Reader \in Socket!Goroutines /\ Writers \subseteq Socket!Goroutines
  BY DEF Socket!Goroutines

LEMMA QuietIs ==
    Socket!Quiet = [at |-> "idle", frame |-> Socket!Frame("none", TRUE, <<>>)]
        /\ Socket!Frame("none", TRUE, <<>>) \in Sendable
  BY DEF Socket!Quiet, Sendable

\* A goroutine starts to write.
LEMMA StartTyped ==
    ASSUME Socket!ConnAssumption, SocketTyped, NEW g \in Socket!Goroutines, NEW f \in Sendable,
           sending[g] = Socket!Quiet,
           Socket!Starts(g, f), mu' = mu
    PROVE  /\ sending' \in [Socket!Goroutines -> [at : {"idle", "lock", "header", "payload"},
                frame : Sendable]]
           /\ sending'[g] = [at |-> "lock", frame |-> f]
           /\ \A h \in Socket!Goroutines \ {g} : sending'[h] = sending[h]
           /\ \A h \in Socket!Goroutines : sending'[h].at \in {"header", "payload"} <=> mu' = h
           /\ \A h \in Socket!Goroutines : sending'[h].at = "idle" => sending'[h] = Socket!Quiet
<1>1. sending' = [sending EXCEPT ![g] = [at |-> "lock", frame |-> f]]
  BY DEF Socket!Starts
<1>2. /\ sending'[g] = [at |-> "lock", frame |-> f] /\ sending'[g].at = "lock"
      /\ \A h \in Socket!Goroutines \ {g} : sending'[h] = sending[h]
  BY <1>1 DEF SocketTyped
<1>3. mu # g
  BY DEF SocketTyped, Socket!Quiet
<1> QED
  BY <1>1, <1>2, <1>3 DEF SocketTyped

\* A goroutine is done writing, or is refused.
LEMMA StopTyped ==
    ASSUME Socket!ConnAssumption, SocketTyped, NEW g \in Socket!Goroutines, Socket!Stops(g), mu = g
           \/ mu = Socket!Nobody, mu' = Socket!Nobody
    PROVE  /\ sending' \in [Socket!Goroutines -> [at : {"idle", "lock", "header", "payload"},
                frame : Sendable]]
           /\ sending'[g] = Socket!Quiet
           /\ \A h \in Socket!Goroutines \ {g} : sending'[h] = sending[h]
           /\ \A h \in Socket!Goroutines : sending'[h].at \in {"header", "payload"} <=> mu' = h
           /\ \A h \in Socket!Goroutines : sending'[h].at = "idle" => sending'[h] = Socket!Quiet
<1>1. sending' = [sending EXCEPT ![g] = Socket!Quiet]
  BY DEF Socket!Stops
<1>2. /\ sending'[g] = Socket!Quiet /\ sending'[g].at = "idle"
      /\ \A h \in Socket!Goroutines \ {g} : sending'[h] = sending[h]
  BY <1>1, QuietIs DEF SocketTyped
<1>3. sending' \in [Socket!Goroutines -> [at : {"idle", "lock", "header", "payload"}, frame : Sendable]]
  BY <1>1, QuietIs DEF SocketTyped
<1>4. \A h \in Socket!Goroutines : h # Socket!Nobody
  BY DEF Socket!ConnAssumption
<1> QED
  BY <1>1, <1>2, <1>3, <1>4 DEF SocketTyped

\* A goroutine goes on within a frame.
LEMMA MoveTyped ==
    ASSUME Socket!ConnAssumption, SocketTyped, NEW g \in Socket!Goroutines,
           NEW to \in {"header", "payload"},
           sending' = [sending EXCEPT ![g].at = to], mu = g \/ mu = Socket!Nobody, mu' = g
    PROVE  /\ sending' \in [Socket!Goroutines -> [at : {"idle", "lock", "header", "payload"},
                frame : Sendable]]
           /\ sending'[g].at = to /\ sending'[g].frame = sending[g].frame
           /\ \A h \in Socket!Goroutines \ {g} : sending'[h] = sending[h]
           /\ \A h \in Socket!Goroutines : sending'[h].at \in {"header", "payload"} <=> mu' = h
           /\ \A h \in Socket!Goroutines : sending'[h].at = "idle" => sending'[h] = Socket!Quiet
<1>1. sending[g] \in [at : {"idle", "lock", "header", "payload"}, frame : Sendable]
  BY DEF SocketTyped
<1>2. sending'[g] = [sending[g] EXCEPT !.at = to]
  BY DEF SocketTyped
<1>3. /\ sending'[g].at = to /\ sending'[g].frame = sending[g].frame
      /\ sending'[g] \in [at : {"idle", "lock", "header", "payload"}, frame : Sendable]
  BY <1>1, <1>2
<1>4. \A h \in Socket!Goroutines \ {g} : sending'[h] = sending[h]
  BY DEF SocketTyped
<1>5. sending' \in [Socket!Goroutines -> [at : {"idle", "lock", "header", "payload"}, frame : Sendable]]
  BY <1>3, <1>4 DEF SocketTyped
<1>6. \A h \in Socket!Goroutines : h # Socket!Nobody
  BY DEF Socket!ConnAssumption
<1> QED
  BY <1>3, <1>4, <1>5, <1>6 DEF SocketTyped

LEMMA PartTyped ==
    ASSUME SocketTyped, NEW g \in Socket!Goroutines, NEW part \in {"header", "payload"}
    PROVE  Socket!Part(g, part) \in Units
  BY DEF SocketTyped, Socket!Part, Units

LEMMA SocketTypedStep ==
    ASSUME Socket!ConnAssumption, SocketTyped, [Socket!Next]_Socket!vars
    PROVE  SocketTyped'
<1>1. ASSUME NEW f \in FramesIn, Reads(f) PROVE SocketTyped'
  <2>1. consumed' \in Seq(FramesIn)
    BY <1>1 DEF Reads, Socket!Takes, SocketTyped
  <2>2. CASE sending' = sending
    BY <1>1, <2>1, <2>2 DEF Reads, SocketTyped
  <2>3. ASSUME NEW h \in Sendable, Socket!Starts(Reader, h) PROVE SocketTyped'
    <3>1. sending[Reader] = Socket!Quiet /\ mu' = mu
      BY <1>1 DEF Reads, Socket!Takes
    <3> HIDE DEF SocketTyped
    <3>2. /\ sending' \in [Socket!Goroutines -> [at : {"idle", "lock", "header", "payload"},
               frame : Sendable]]
          /\ \A k \in Socket!Goroutines : sending'[k].at \in {"header", "payload"} <=> mu' = k
          /\ \A k \in Socket!Goroutines : sending'[k].at = "idle" => sending'[k] = Socket!Quiet
      BY <2>3, <3>1, ReaderIs, StartTyped
    <3> QED
      BY <1>1, <2>1, <3>2 DEF Reads, SocketTyped
  <2>4. \A h \in Socket!ControlFrames : Socket!Frame("pong", TRUE, h.payload) \in Sendable
    BY DEF Sendable
  <2>5. \A c \in EchoedCodes : Socket!Frame("close", TRUE, <<c>>) \in Sendable
    BY DEF Sendable
  <2> QED
    BY <1>1, <2>2, <2>3, <2>4, <2>5 DEF Reads
<1>2. CASE Socket!Shut
  BY <1>2 DEF Socket!Shut, Socket!Ended, SocketTyped, Socket!reading
<1>3. ASSUME NEW w \in Writers, NEW op \in Written, Socket!WriteMessage(w, op) PROVE SocketTyped'
  <2>1. Socket!Frame(op, TRUE, <<"normal">>) \in Sendable
    BY DEF Sendable
  <2>2. /\ sending' \in [Socket!Goroutines -> [at : {"idle", "lock", "header", "payload"},
             frame : Sendable]]
        /\ \A k \in Socket!Goroutines : sending'[k].at \in {"header", "payload"} <=> mu' = k
        /\ \A k \in Socket!Goroutines : sending'[k].at = "idle" => sending'[k] = Socket!Quiet
    BY <1>3, <2>1, ReaderIs, StartTyped DEF Socket!WriteMessage, Socket!writing
  <2> QED
    BY <1>3, <2>2 DEF Socket!WriteMessage, Socket!reading, Socket!writing, SocketTyped
<1>4. ASSUME NEW g \in Socket!Goroutines, Socket!Lock(g) PROVE SocketTyped'
  <2>1. /\ sending' \in [Socket!Goroutines -> [at : {"idle", "lock", "header", "payload"},
             frame : Sendable]]
        /\ \A k \in Socket!Goroutines : sending'[k].at \in {"header", "payload"} <=> mu' = k
        /\ \A k \in Socket!Goroutines : sending'[k].at = "idle" => sending'[k] = Socket!Quiet
    <3>1. CASE closeSent
      BY <1>4, <3>1, StopTyped DEF Socket!Lock
    <3>2. CASE ~closeSent
      BY <1>4, <3>2, MoveTyped DEF Socket!Lock
    <3> QED
      BY <3>1, <3>2
  <2>2. mu' \in Socket!Goroutines \union {Socket!Nobody} /\ closeSent' \in BOOLEAN
    BY <1>4 DEF Socket!Lock, SocketTyped
  <2> QED
    BY <1>4, <2>1, <2>2 DEF Socket!Lock, Socket!reading, SocketTyped
<1>5. ASSUME NEW g \in Socket!Goroutines, Socket!WriteHeader(g) PROVE SocketTyped'
  <2>1. mu = g
    BY <1>5 DEF Socket!WriteHeader, SocketTyped
  <2>2. /\ sending' \in [Socket!Goroutines -> [at : {"idle", "lock", "header", "payload"},
             frame : Sendable]]
        /\ \A k \in Socket!Goroutines : sending'[k].at \in {"header", "payload"} <=> mu' = k
        /\ \A k \in Socket!Goroutines : sending'[k].at = "idle" => sending'[k] = Socket!Quiet
    BY <1>5, <2>1, MoveTyped DEF Socket!WriteHeader
  <2>3. out' \in Seq(Units)
    BY <1>5, PartTyped DEF Socket!WriteHeader, SocketTyped
  <2> QED
    BY <1>5, <2>2, <2>3 DEF Socket!WriteHeader, Socket!reading, SocketTyped
<1>6. ASSUME NEW g \in Socket!Goroutines, Socket!WritePayload(g) \/ Socket!WriteFails(g)
      PROVE  SocketTyped'
  <2>1. mu = g
    BY <1>6 DEF Socket!WritePayload, Socket!WriteFails, SocketTyped
  <2>2. /\ sending' \in [Socket!Goroutines -> [at : {"idle", "lock", "header", "payload"},
             frame : Sendable]]
        /\ \A k \in Socket!Goroutines : sending'[k].at \in {"header", "payload"} <=> mu' = k
        /\ \A k \in Socket!Goroutines : sending'[k].at = "idle" => sending'[k] = Socket!Quiet
    BY <1>6, <2>1, StopTyped DEF Socket!WritePayload, Socket!WriteFails
  <2>3. out' \in Seq(Units)
    BY <1>6, PartTyped DEF Socket!WritePayload, Socket!WriteFails, SocketTyped
  <2> QED
    BY <1>6, <2>2, <2>3 DEF Socket!WritePayload, Socket!WriteFails, Socket!reading, SocketTyped
<1>7. CASE UNCHANGED Socket!vars
  BY <1>7 DEF Socket!vars, SocketTyped
<1>8. ASSUME NEW w \in Writers, Socket!Oversize(w) PROVE SocketTyped'
  <2>1. /\ sending' \in [Socket!Goroutines -> [at : {"idle", "lock", "header", "payload"},
             frame : Sendable]]
        /\ \A k \in Socket!Goroutines : sending'[k].at \in {"header", "payload"} <=> mu' = k
        /\ \A k \in Socket!Goroutines : sending'[k].at = "idle" => sending'[k] = Socket!Quiet
    BY <1>8, ReaderIs, StopTyped DEF Socket!Oversize
  <2>2. mu' \in Socket!Goroutines \union {Socket!Nobody} /\ closeSent' \in BOOLEAN
    BY <1>8 DEF Socket!Oversize, SocketTyped
  <2> QED
    BY <1>8, <2>1, <2>2 DEF Socket!Oversize, Socket!reading, SocketTyped
<1> QED
  BY <1>1, <1>2, <1>3, <1>4, <1>5, <1>6, <1>7, <1>8, SocketCases

\* Reading a frame or starting to write one is nothing to whoever holds the mutex.
HolderKept ==
    /\ mu' = mu /\ closeSent' = closeSent /\ out' = out
    /\ mu # Socket!Nobody => sending'[mu] = sending[mu]
    /\ broken => broken'

LEMMA ReadKeeps ==
    ASSUME Socket!ConnAssumption, SocketTyped, NEW f \in FramesIn, Reads(f)
    PROVE  HolderKept
<1>1. sending[Reader] = Socket!Quiet /\ mu # Reader
  BY ReaderIs DEF Reads, Socket!Takes, SocketTyped, Socket!Quiet
<1>2. mu' = mu /\ closeSent' = closeSent /\ out' = out
  BY DEF Reads
<1>3. \A h \in Socket!Goroutines \ {Reader} : sending'[h] = sending[h]
  BY ReaderIs DEF Reads, Socket!Starts, SocketTyped
<1>4. broken => broken'
  BY DEF Reads
<1>5. mu # Socket!Nobody => mu \in Socket!Goroutines
  BY DEF SocketTyped
<1> QED
  BY <1>1, <1>2, <1>3, <1>4, <1>5 DEF HolderKept

LEMMA WriteKeeps ==
    ASSUME Socket!ConnAssumption, SocketTyped, NEW w \in Writers, NEW op \in Written,
           Socket!WriteMessage(w, op)
    PROVE  HolderKept
<1>1. w \in Socket!Goroutines /\ sending[w] = Socket!Quiet
  BY ReaderIs DEF Socket!WriteMessage
<1>2. mu # w
  BY <1>1 DEF SocketTyped, Socket!Quiet
<1>3. \A h \in Socket!Goroutines \ {w} : sending'[h] = sending[h]
  BY DEF Socket!WriteMessage, Socket!Starts, SocketTyped
<1>4. mu # Socket!Nobody => mu \in Socket!Goroutines
  BY DEF SocketTyped
<1> QED
  BY <1>2, <1>3, <1>4 DEF HolderKept, Socket!WriteMessage, Socket!writing

\* Whoever takes the mutex, and what is written.
LEMMA LockEffect ==
    ASSUME Socket!ConnAssumption, SocketTyped, NEW g \in Socket!Goroutines, Socket!Lock(g)
    PROVE  /\ mu = Socket!Nobody /\ out' = out /\ broken' = broken /\ g # Socket!Nobody
           /\ \/ closeSent /\ closeSent' = closeSent /\ mu' = Socket!Nobody
                /\ sending'[g] = Socket!Quiet
              \/ /\ ~closeSent /\ mu' = g /\ sending'[g].at = "header"
                   /\ sending'[g].frame = sending[g].frame
                 /\ closeSent' = (sending[g].frame.opcode = "close")
           /\ \A h \in Socket!Goroutines \ {g} : sending'[h] = sending[h]
<1>1. g # Socket!Nobody
  BY DEF Socket!ConnAssumption
<1>2. CASE closeSent
  BY <1>1, <1>2, StopTyped DEF Socket!Lock
<1>3. CASE ~closeSent
  BY <1>1, <1>3, MoveTyped DEF Socket!Lock
<1> QED
  BY <1>2, <1>3

LEMMA OversizeEffect ==
    ASSUME Socket!ConnAssumption, SocketTyped, NEW w \in Writers, Socket!Oversize(w)
    PROVE  /\ mu = Socket!Nobody /\ mu' = mu /\ out' = out /\ broken' = broken
           /\ ~closeSent /\ closeSent' \in BOOLEAN /\ sending'[Reader] = sending[Reader]
<1>1. w \in Socket!Goroutines /\ Reader \in Socket!Goroutines \ {w}
  BY ReaderIs DEF Socket!ConnAssumption
<1>2. \A h \in Socket!Goroutines \ {w} : sending'[h] = sending[h]
  BY <1>1, StopTyped DEF Socket!Oversize
<1> QED
  BY <1>1, <1>2 DEF Socket!Oversize

LEMMA HeaderEffect ==
    ASSUME Socket!ConnAssumption, SocketTyped, NEW g \in Socket!Goroutines, Socket!WriteHeader(g)
    PROVE  /\ mu = g /\ mu' = g /\ sending[g].at = "header" /\ ~broken /\ broken' = broken
                /\ g # Socket!Nobody
           /\ closeSent' = closeSent
           /\ sending'[g].at = "payload" /\ sending'[g].frame = sending[g].frame
           /\ \A h \in Socket!Goroutines \ {g} : sending'[h] = sending[h]
           /\ out' = Append(out, Socket!Part(g, "header"))
<1>1. mu = g /\ g # Socket!Nobody
  BY DEF Socket!WriteHeader, SocketTyped, Socket!ConnAssumption
<1>2. /\ sending'[g].at = "payload" /\ sending'[g].frame = sending[g].frame
      /\ \A h \in Socket!Goroutines \ {g} : sending'[h] = sending[h]
  BY <1>1, MoveTyped DEF Socket!WriteHeader
<1> QED
  BY <1>1, <1>2 DEF Socket!WriteHeader

LEMMA PayloadEffect ==
    ASSUME Socket!ConnAssumption, SocketTyped, NEW g \in Socket!Goroutines, Socket!WritePayload(g)
    PROVE  /\ mu = g /\ mu' = Socket!Nobody /\ sending[g].at = "payload" /\ ~broken /\ broken' = broken
                /\ g # Socket!Nobody
           /\ closeSent' = closeSent
           /\ sending'[g] = Socket!Quiet
           /\ \A h \in Socket!Goroutines \ {g} : sending'[h] = sending[h]
           /\ out' = Append(out, Socket!Part(g, "payload"))
<1>1. mu = g /\ g # Socket!Nobody
  BY DEF Socket!WritePayload, SocketTyped, Socket!ConnAssumption
<1>2. /\ sending'[g] = Socket!Quiet
      /\ \A h \in Socket!Goroutines \ {g} : sending'[h] = sending[h]
  BY <1>1, StopTyped DEF Socket!WritePayload
<1> QED
  BY <1>1, <1>2 DEF Socket!WritePayload

LEMMA FailEffect ==
    ASSUME Socket!ConnAssumption, SocketTyped, NEW g \in Socket!Goroutines, Socket!WriteFails(g)
    PROVE  /\ mu = g /\ mu' = Socket!Nobody /\ sending[g].at \in {"header", "payload"}
                /\ broken' = TRUE /\ g # Socket!Nobody
           /\ closeSent' = closeSent /\ out' = out
           /\ sending'[g] = Socket!Quiet
           /\ \A h \in Socket!Goroutines \ {g} : sending'[h] = sending[h]
<1>1. mu = g /\ g # Socket!Nobody
  BY DEF Socket!WriteFails, SocketTyped, Socket!ConnAssumption
<1>2. /\ sending'[g] = Socket!Quiet
      /\ \A h \in Socket!Goroutines \ {g} : sending'[h] = sending[h]
  BY <1>1, StopTyped DEF Socket!WriteFails
<1> QED
  BY <1>1, <1>2 DEF Socket!WriteFails

-----------------------------------------------------------------------------
\* What a unit more makes of what was written.
LEMMA Longer ==
    ASSUME SocketTyped, NEW u \in Units, out' = Append(out, u)
    PROVE  /\ Len(out) \in Nat /\ Len(out') = Len(out) + 1
           /\ DOMAIN out = 1..Len(out) /\ DOMAIN out' = 1..(Len(out) + 1)
           /\ out'[Len(out) + 1] = u
           /\ \A i \in 1..Len(out) : out'[i] = out[i]
  BY DEF SocketTyped

LEMMA WholeStep ==
    ASSUME Socket!ConnAssumption, SocketTyped, Socket!WholeFrames, Turn, [Socket!Next]_Socket!vars
    PROVE  Socket!WholeFrames' /\ Turn'
<1> DEFINE InPlace(i, s) == s[i].part = (IF i % 2 = 1 THEN "header" ELSE "payload")
                              /\ (i % 2 = 0 => s[i].by = s[i - 1].by /\ s[i].frame = s[i - 1].frame)
<1>1. ASSUME HolderKept PROVE Socket!WholeFrames' /\ Turn'
  <2>1. mu # Socket!Nobody => sending'[mu].at = sending[mu].at
        /\ Socket!Part(mu, "header")' = Socket!Part(mu, "header")
    BY <1>1 DEF HolderKept, Socket!Part
  <2>2. Socket!WholeFrames'
    BY <1>1 DEF HolderKept, Socket!WholeFrames
  <2>3. Turn'
    BY <1>1, <2>1 DEF HolderKept, Turn, Between, Within
  <2> QED
    BY <2>2, <2>3
<1>2. CASE Socket!Shut
  BY <1>2 DEF Socket!Shut, Socket!Ended, Socket!WholeFrames, Turn
<1>3. ASSUME NEW g \in Socket!Goroutines, Socket!Lock(g) PROVE Socket!WholeFrames' /\ Turn'
  <2>1. /\ mu = Socket!Nobody /\ out' = out /\ broken' = broken
        /\ mu' = Socket!Nobody \/ (mu' = g /\ sending'[g].at = "header")
    BY <1>3, LockEffect
  <2> QED
    BY <2>1 DEF Socket!WholeFrames, Turn, Between, Within
<1>4. ASSUME NEW g \in Socket!Goroutines, Socket!WriteHeader(g) PROVE Socket!WholeFrames' /\ Turn'
  <2>1. /\ mu = g /\ mu' = g /\ sending[g].at = "header" /\ ~broken /\ broken' = broken
             /\ g # Socket!Nobody
        /\ sending'[g].at = "payload" /\ sending'[g].frame = sending[g].frame
        /\ out' = Append(out, Socket!Part(g, "header"))
    BY <1>4, HeaderEffect
  <2>2. Len(out) % 2 = 0
    BY <2>1 DEF Turn, Between
  <2>3. /\ Len(out) \in Nat /\ Len(out') = Len(out) + 1
        /\ DOMAIN out = 1..Len(out) /\ DOMAIN out' = 1..(Len(out) + 1)
        /\ out'[Len(out) + 1] = Socket!Part(g, "header")
        /\ \A i \in 1..Len(out) : out'[i] = out[i]
    BY <2>1, PartTyped, Longer
  <2>4. (Len(out) + 1) % 2 = 1
    BY <2>2, <2>3
  <2>5. Socket!Part(g, "header").part = "header" /\ Socket!Part(g, "header")' = Socket!Part(g, "header")
    BY <2>1 DEF Socket!Part
  <2>6. Socket!WholeFrames'
    <3> SUFFICES ASSUME NEW i \in DOMAIN out' PROVE InPlace(i, out')
      BY DEF Socket!WholeFrames
    <3>1. CASE i = Len(out) + 1
      BY <2>3, <2>4, <2>5, <3>1
    <3>2. CASE i \in 1..Len(out)
      <4>1. InPlace(i, out)
        BY <2>3, <3>2 DEF Socket!WholeFrames
      <4>2. out'[i] = out[i] /\ (i % 2 = 0 => i - 1 \in 1..Len(out))
        BY <2>3, <3>2
      <4> QED
        BY <2>3, <4>1, <4>2
    <3> QED
      BY <2>3, <3>1, <3>2
  <2>7. Turn'
    BY <2>1, <2>3, <2>4, <2>5 DEF Turn, Within
  <2> QED
    BY <2>6, <2>7
<1>5. ASSUME NEW g \in Socket!Goroutines, Socket!WritePayload(g) PROVE Socket!WholeFrames' /\ Turn'
  <2>1. /\ mu = g /\ mu' = Socket!Nobody /\ sending[g].at = "payload" /\ ~broken /\ broken' = broken
             /\ g # Socket!Nobody
        /\ out' = Append(out, Socket!Part(g, "payload"))
    BY <1>5, PayloadEffect
  <2>2. Len(out) % 2 = 1 /\ out[Len(out)] = Socket!Part(g, "header")
    BY <2>1 DEF Turn, Within
  <2>3. /\ Len(out) \in Nat /\ Len(out') = Len(out) + 1
        /\ DOMAIN out = 1..Len(out) /\ DOMAIN out' = 1..(Len(out) + 1)
        /\ out'[Len(out) + 1] = Socket!Part(g, "payload")
        /\ \A i \in 1..Len(out) : out'[i] = out[i]
    BY <2>1, PartTyped, Longer
  <2>4. (Len(out) + 1) % 2 = 0 /\ Len(out) \in 1..Len(out)
    BY <2>2, <2>3
  <2>5. /\ Socket!Part(g, "payload").part = "payload" /\ Socket!Part(g, "payload").by = Socket!Part(g,
             "header").by
        /\ Socket!Part(g, "payload").frame = Socket!Part(g, "header").frame
    BY DEF Socket!Part
  <2>6. Socket!WholeFrames'
    <3> SUFFICES ASSUME NEW i \in DOMAIN out' PROVE InPlace(i, out')
      BY DEF Socket!WholeFrames
    <3>1. CASE i = Len(out) + 1
      <4>1. i - 1 = Len(out) /\ out'[i - 1] = Socket!Part(g, "header") /\ i % 2 = 0 /\ i % 2 # 1
        BY <2>2, <2>3, <2>4, <3>1
      <4> QED
        BY <2>3, <2>5, <3>1, <4>1
    <3>2. CASE i \in 1..Len(out)
      <4>1. InPlace(i, out)
        BY <2>3, <3>2 DEF Socket!WholeFrames
      <4>2. out'[i] = out[i] /\ (i % 2 = 0 => i - 1 \in 1..Len(out))
        BY <2>3, <3>2
      <4> QED
        BY <2>3, <4>1, <4>2
    <3> QED
      BY <2>3, <3>1, <3>2
  <2>7. Turn'
    BY <2>1, <2>3, <2>4 DEF Turn, Between
  <2> QED
    BY <2>6, <2>7
<1>6. ASSUME NEW g \in Socket!Goroutines, Socket!WriteFails(g) PROVE Socket!WholeFrames' /\ Turn'
  BY <1>6, FailEffect DEF Socket!WholeFrames, Turn
<1>7. CASE UNCHANGED Socket!vars
  BY <1>7 DEF Socket!vars, Socket!WholeFrames, Turn, Between, Within, Socket!Part
<1>8. ASSUME NEW w \in Writers, Socket!Oversize(w) PROVE Socket!WholeFrames' /\ Turn'
  BY <1>8, OversizeEffect DEF Socket!WholeFrames, Turn, Between
<1> QED
  BY <1>1, <1>2, <1>3, <1>4, <1>5, <1>6, <1>7, <1>8, SocketCases, ReadKeeps, WriteKeeps

\* Nothing gets past a close.
LEMMA CloseStep ==
    ASSUME Socket!ConnAssumption, SocketTyped, Socket!CloseIsLast, ClosesLast, [Socket!Next]_Socket!vars
    PROVE  Socket!CloseIsLast' /\ ClosesLast'
<1>1. ASSUME HolderKept PROVE Socket!CloseIsLast' /\ ClosesLast'
  <2>1. Socket!CloseIsLast'
    BY <1>1 DEF HolderKept, Socket!CloseIsLast
  <2>2. ClosesLast'
    BY <1>1 DEF HolderKept, ClosesLast
  <2> QED
    BY <2>1, <2>2
<1>2. CASE Socket!Shut
  BY <1>2 DEF Socket!Shut, Socket!Ended, Socket!CloseIsLast, ClosesLast
<1>3. ASSUME NEW g \in Socket!Goroutines, Socket!Lock(g) PROVE Socket!CloseIsLast' /\ ClosesLast'
  <2>1. /\ mu = Socket!Nobody /\ out' = out /\ g # Socket!Nobody
        /\ \/ closeSent /\ closeSent' = closeSent /\ mu' = Socket!Nobody
           \/ /\ ~closeSent /\ mu' = g /\ sending'[g].at = "header"
                /\ sending'[g].frame = sending[g].frame
              /\ closeSent' = (sending[g].frame.opcode = "close")
    BY <1>3, LockEffect
  <2>2. Socket!CloseIsLast'
    BY <2>1 DEF Socket!CloseIsLast
  <2>3. CASE closeSent /\ closeSent' = closeSent /\ mu' = Socket!Nobody
    BY <2>1, <2>2, <2>3 DEF ClosesLast
  <2>4. CASE /\ ~closeSent /\ mu' = g /\ sending'[g].at = "header"
                  /\ sending'[g].frame = sending[g].frame
             /\ closeSent' = (sending[g].frame.opcode = "close")
    <3>1. \A i \in DOMAIN out : out[i].frame.opcode # "close"
      BY <2>4 DEF ClosesLast
    <3>2. closeSent' => sending'[g].frame.opcode = "close"
      BY <2>4
    <3>3. ~closeSent' => sending'[g].frame.opcode # "close"
      BY <2>4
    <3> QED
      BY <2>1, <2>2, <2>4, <3>1, <3>2, <3>3 DEF ClosesLast
  <2> QED
    BY <2>1, <2>3, <2>4
<1>4. ASSUME NEW g \in Socket!Goroutines, Socket!WriteHeader(g) PROVE Socket!CloseIsLast' /\ ClosesLast'
  <2>1. /\ mu = g /\ mu' = g /\ sending[g].at = "header" /\ g # Socket!Nobody /\ closeSent' = closeSent
        /\ sending'[g].at = "payload" /\ sending'[g].frame = sending[g].frame
        /\ out' = Append(out, Socket!Part(g, "header"))
    BY <1>4, HeaderEffect
  <2>2. /\ Len(out) \in Nat /\ Len(out') = Len(out) + 1
        /\ DOMAIN out = 1..Len(out) /\ DOMAIN out' = 1..(Len(out) + 1)
        /\ out'[Len(out) + 1] = Socket!Part(g, "header")
        /\ \A i \in 1..Len(out) : out'[i] = out[i]
    BY <2>1, PartTyped, Longer
  <2>3. Socket!Part(g, "header").frame = sending[g].frame
    BY DEF Socket!Part
  <2>4. \A i \in 1..Len(out) : out'[i].frame.opcode # "close"
    BY <2>1, <2>2 DEF ClosesLast
  <2>5. \A i \in DOMAIN out' : out'[i].frame.opcode = "close" => i = Len(out')
    BY <2>2, <2>4
  <2>6. Socket!CloseIsLast'
    BY <2>2, <2>5 DEF Socket!CloseIsLast
  <2>7. ~closeSent => \A i \in DOMAIN out' : out'[i].frame.opcode # "close"
    BY <2>1, <2>2, <2>3, <2>4 DEF ClosesLast
  <2>8. ClosesLast'
    BY <2>1, <2>5, <2>7 DEF ClosesLast
  <2> QED
    BY <2>6, <2>8
<1>5. ASSUME NEW g \in Socket!Goroutines, Socket!WritePayload(g)
      PROVE  Socket!CloseIsLast' /\ ClosesLast'
  <2>1. /\ mu = g /\ mu' = Socket!Nobody /\ sending[g].at = "payload" /\ g # Socket!Nobody
             /\ closeSent' = closeSent
        /\ out' = Append(out, Socket!Part(g, "payload"))
    BY <1>5, PayloadEffect
  <2>2. /\ Len(out) \in Nat /\ Len(out') = Len(out) + 1
        /\ DOMAIN out = 1..Len(out) /\ DOMAIN out' = 1..(Len(out) + 1)
        /\ out'[Len(out) + 1] = Socket!Part(g, "payload")
        /\ \A i \in 1..Len(out) : out'[i] = out[i]
    BY <2>1, PartTyped, Longer
  <2>3. Socket!Part(g, "payload").frame = sending[g].frame
    BY DEF Socket!Part
  <2>4. \A i \in 1..Len(out) : out'[i].frame.opcode = "close" => i = Len(out)
    BY <2>1, <2>2 DEF ClosesLast
  <2>5. Socket!CloseIsLast'
    <3> SUFFICES ASSUME NEW i \in DOMAIN out', out'[i].frame.opcode = "close" PROVE i >= Len(out') - 1
      BY DEF Socket!CloseIsLast
    <3>1. CASE i = Len(out) + 1
      BY <2>2, <3>1
    <3>2. CASE i \in 1..Len(out)
      <4>1. i = Len(out)
        BY <2>4, <3>2
      <4> QED
        BY <2>2, <4>1
    <3> QED
      BY <2>2, <3>1, <3>2
  <2>6. ~closeSent => \A i \in DOMAIN out' : out'[i].frame.opcode # "close"
    BY <2>1, <2>2, <2>3 DEF ClosesLast
  <2>7. ClosesLast'
    BY <2>1, <2>6 DEF ClosesLast
  <2> QED
    BY <2>5, <2>7
<1>6. ASSUME NEW g \in Socket!Goroutines, Socket!WriteFails(g) PROVE Socket!CloseIsLast' /\ ClosesLast'
  <2>1. mu' = Socket!Nobody /\ closeSent' = closeSent /\ out' = out
    BY <1>6, FailEffect
  <2> QED
    BY <2>1 DEF Socket!CloseIsLast, ClosesLast
<1>7. CASE UNCHANGED Socket!vars
  BY <1>7 DEF Socket!vars, Socket!CloseIsLast, ClosesLast
<1>8. ASSUME NEW w \in Writers, Socket!Oversize(w) PROVE Socket!CloseIsLast' /\ ClosesLast'
  BY <1>8, OversizeEffect DEF Socket!CloseIsLast, ClosesLast
<1> QED
  BY <1>1, <1>2, <1>3, <1>4, <1>5, <1>6, <1>7, <1>8, SocketCases, ReadKeeps, WriteKeeps

\* A unit of another goroutine changes nothing of it.
LEMMA ToldKept ==
    ASSUME SocketTyped, NEW g \in Socket!Goroutines \ {Reader}, NEW part \in {"header", "payload"},
           out' = Append(out, Socket!Part(g, part))
    PROVE  (Silent => Silent') /\ \A e : Told(e) => Told(e)'
<1>1. /\ Len(out) \in Nat /\ DOMAIN out = 1..Len(out) /\ DOMAIN out' = 1..(Len(out) + 1)
      /\ out'[Len(out) + 1] = Socket!Part(g, part)
      /\ \A i \in 1..Len(out) : out'[i] = out[i]
  BY PartTyped, Longer
<1>2. Socket!Part(g, part).by # Reader
  BY DEF Socket!Part
<1> QED
  BY <1>1, <1>2 DEF Silent, Told, Said

\* Its own unit is of the frame it writes.
LEMMA ToldMore ==
    ASSUME SocketTyped, NEW part \in {"header", "payload"},
           out' = Append(out, Socket!Part(Reader, part))
    PROVE  /\ sending[Reader].frame.opcode # "close" /\ Silent => Silent'
           /\ \A e : (Said(e, sending[Reader].frame) \/ sending[Reader].frame.opcode # "close")
                /\ Told(e) => Told(e)'
<1>1. /\ Len(out) \in Nat /\ DOMAIN out = 1..Len(out) /\ DOMAIN out' = 1..(Len(out) + 1)
      /\ out'[Len(out) + 1] = Socket!Part(Reader, part)
      /\ \A i \in 1..Len(out) : out'[i] = out[i]
  BY ReaderIs, PartTyped, Longer
<1>2. Socket!Part(Reader, part).frame = sending[Reader].frame
  BY DEF Socket!Part
<1> QED
  BY <1>1, <1>2 DEF Silent, Told, Said

\* What Why says survives a step that leaves the reader and its errors alone.
ReaderKept ==
    /\ outcome' = outcome /\ readErr' = readErr /\ sending'[Reader] = sending[Reader]
    /\ closeSent => closeSent'
    /\ Silent => Silent'
    /\ \A e : Told(e) => Told(e)'

LEMMA ToldSame == out' = out => (Silent => Silent') /\ \A e : Told(e) => Told(e)'
  BY DEF Silent, Told

LEMMA WhyKept ==
    ASSUME Why, ReaderKept
    PROVE  Why'
<1>1. Said(outcome, sending[Reader].frame) => Said(outcome', sending'[Reader].frame)
  BY DEF ReaderKept
<1>2. Told(outcome) => Told(outcome)'
  BY DEF ReaderKept, Told
<1>3. Told(readErr) => Told(readErr)'
  BY DEF ReaderKept, Told
<1> QED
  BY <1>1, <1>2, <1>3 DEF ReaderKept, Why

\* The reader is done with its frame: the close was sent if it was a close.
LEMMA WhyDone ==
    ASSUME Why, outcome' = outcome, readErr' = readErr, sending'[Reader] = Socket!Quiet,
           sending[Reader] # Socket!Quiet,
           closeSent => closeSent', outcome # "none" => closeSent',
           outcome = "none" /\ Silent => Silent',
           outcome # "none" /\ Told(outcome) => Told(outcome)'
    PROVE  Why'
<1>1. readErr = "none"
  BY DEF Why
<1>2. sending'[Reader].frame.opcode # "close"
  BY DEF Socket!Quiet, Socket!Frame
<1> QED
  BY <1>1, <1>2 DEF Why

LEMMA NotBoth == Socket!Quiet.at = "idle" /\ Socket!Quiet.frame.opcode = "none"
  BY DEF Socket!Quiet, Socket!Frame

LEMMA WhyStep ==
    ASSUME Socket!ConnAssumption, SocketTyped, Turn, ClosesLast, Why, [Socket!Next]_Socket!vars
    PROVE  Why'
<1>1. ASSUME NEW f \in FramesIn, Reads(f) PROVE Why'
  <2>1. /\ sending[Reader] = Socket!Quiet /\ outcome = "none" /\ readErr = "none" /\ out' = out
        /\ Silent /\ closeSent' = closeSent
    BY <1>1 DEF Reads, Socket!Takes, Why
  <2>2. Silent' /\ \A e : Told(e)'
    BY <2>1 DEF Silent, Told
  <2>3. CASE sending' = sending /\ outcome' = outcome /\ readErr' \notin Protocol
    BY <2>1, <2>2, <2>3 DEF Why
  <2>4. CASE /\ Socket!Starts(Reader, Socket!Frame("pong", TRUE, f.payload)) /\ outcome' = outcome
                  /\ readErr' = readErr
    <3>1. sending'[Reader] = [at |-> "lock", frame |-> Socket!Frame("pong", TRUE, f.payload)]
      BY <2>4, ReaderIs DEF Socket!Starts, SocketTyped
    <3>2. sending'[Reader].frame.opcode = "pong"
      BY <3>1 DEF Socket!Frame
    <3> QED
      BY <2>1, <2>2, <2>4, <3>2 DEF Why
  <2>5. ASSUME NEW c \in EchoedCodes, Socket!Starts(Reader, Socket!Frame("close", TRUE, <<c>>)),
               outcome' # "none",
               outcome' \in Protocol => c = Socket!Code(outcome'), readErr' = readErr
        PROVE  Why'
    <3>1. sending'[Reader] = [at |-> "lock", frame |-> Socket!Frame("close", TRUE, <<c>>)]
      BY <2>5, ReaderIs DEF Socket!Starts, SocketTyped
    <3>2. Said(outcome', sending'[Reader].frame) /\ sending'[Reader] # Socket!Quiet
      BY <2>5, <3>1 DEF Said, Socket!Frame, Socket!Quiet
    <3>3. Told(outcome)'
      BY <2>1 DEF Silent, Told
    <3> QED
      BY <2>1, <2>2, <2>5, <3>2, <3>3 DEF Why
  <2> QED
    BY <1>1, <2>3, <2>4, <2>5 DEF Reads
<1>2. CASE Socket!Shut
  <2>1. /\ sending' = sending /\ out' = out /\ closeSent' = closeSent /\ sending[Reader] = Socket!Quiet
        /\ readErr' = outcome /\ outcome' = "none" /\ outcome # "none"
    BY <1>2 DEF Socket!Shut, Socket!Ended
  <2>2. closeSent /\ Told(outcome)
    BY <2>1 DEF Why
  <2>3. Told(readErr)'
    BY <2>1, <2>2 DEF Told
  <2>4. sending'[Reader].frame.opcode # "close"
    BY <2>1, NotBoth
  <2> QED
    BY <2>1, <2>2, <2>3, <2>4 DEF Why
<1>3. ASSUME NEW w \in Writers, NEW op \in Written, Socket!WriteMessage(w, op) PROVE Why'
  <2>1. sending'[Reader] = sending[Reader]
    BY <1>3, ReaderIs DEF Socket!WriteMessage, Socket!Starts, SocketTyped, Socket!ConnAssumption
  <2> QED
    BY <1>3, <2>1, ToldSame, WhyKept DEF Socket!WriteMessage, Socket!writing, ReaderKept
<1>4. ASSUME NEW g \in Socket!Goroutines \ {Reader}, Socket!Lock(g) \/ Socket!WriteHeader(g)
             \/ Socket!WritePayload(g) \/ Socket!WriteFails(g)
      PROVE  Why'
  <2>1. sending'[Reader] = sending[Reader] /\ (closeSent => closeSent')
    BY <1>4, ReaderIs, LockEffect, HeaderEffect, PayloadEffect, FailEffect
  <2>2. (Silent => Silent') /\ \A e : Told(e) => Told(e)'
    <3>1. CASE out' = out
      BY <3>1, ToldSame
    <3>2. ASSUME NEW part \in {"header", "payload"}, out' = Append(out, Socket!Part(g, part))
          PROVE  (Silent => Silent') /\ \A e : Told(e) => Told(e)'
      BY <3>2, ToldKept
    <3> QED
      BY <1>4, <3>1, <3>2 DEF Socket!Lock, Socket!WriteHeader, Socket!WritePayload, Socket!WriteFails
  <2>3. outcome' = outcome /\ readErr' = readErr
    BY <1>4 DEF Socket!Lock, Socket!WriteHeader, Socket!WritePayload, Socket!WriteFails
  <2> QED
    BY <2>1, <2>2, <2>3, WhyKept DEF ReaderKept
<1>5. CASE Socket!Lock(Reader)
  <2>1. /\ out' = out /\ outcome' = outcome /\ readErr' = readErr /\ sending[Reader].at = "lock"
    BY <1>5 DEF Socket!Lock
  <2>2. sending[Reader] # Socket!Quiet
    BY <2>1, NotBoth
  <2>3. CASE closeSent /\ closeSent' = closeSent /\ sending'[Reader] = Socket!Quiet
    <3>1. (Silent => Silent') /\ (Told(outcome) => Told(outcome)')
      BY <2>1 DEF Silent, Told
    <3> QED
      BY <2>1, <2>2, <2>3, <3>1, WhyDone
  <2>4. CASE /\ ~closeSent /\ sending'[Reader].at = "header"
                  /\ sending'[Reader].frame = sending[Reader].frame
    <3>1. (Silent => Silent') /\ (Told(outcome) => Told(outcome)')
      BY <2>1 DEF Silent, Told
    <3>2. sending'[Reader] # Socket!Quiet
      BY <2>4, NotBoth
    <3>3. readErr = "none"
      BY <2>2 DEF Why
    <3> QED
      BY <2>1, <2>2, <2>4, <3>1, <3>2, <3>3 DEF Why
  <2> QED
    BY <1>5, <2>3, <2>4, ReaderIs, LockEffect
<1>6. CASE Socket!WriteHeader(Reader)
  <2>1. /\ sending[Reader].at = "header" /\ closeSent' = closeSent
        /\ sending'[Reader].at = "payload" /\ sending'[Reader].frame = sending[Reader].frame
        /\ out' = Append(out, Socket!Part(Reader, "header"))
    BY <1>6, ReaderIs, HeaderEffect
  <2>2. outcome' = outcome /\ readErr' = readErr
    BY <1>6 DEF Socket!WriteHeader
  <2>3. sending[Reader] # Socket!Quiet /\ sending'[Reader] # Socket!Quiet
    BY <2>1, NotBoth
  <2>4. readErr = "none"
    BY <2>3 DEF Why
  <2>5. sending[Reader].frame.opcode # "close" /\ Silent => Silent'
    BY <2>1, ToldMore
  <2>6. Said(outcome, sending[Reader].frame) /\ Told(outcome) => Told(outcome)'
    BY <2>1, <2>2, ToldMore DEF Told
  <2> QED
    BY <2>1, <2>2, <2>3, <2>4, <2>5, <2>6 DEF Why
<1>7. CASE Socket!WritePayload(Reader)
  <2>1. /\ sending[Reader].at = "payload" /\ closeSent' = closeSent /\ mu = Reader
             /\ Reader # Socket!Nobody
        /\ sending'[Reader] = Socket!Quiet
        /\ out' = Append(out, Socket!Part(Reader, "payload"))
    BY <1>7, ReaderIs, PayloadEffect
  <2>2. outcome' = outcome /\ readErr' = readErr
    BY <1>7 DEF Socket!WritePayload
  <2>3. sending[Reader] # Socket!Quiet
    BY <2>1, NotBoth
  <2>4. outcome = "none" /\ Silent => Silent'
    BY <2>1, ToldMore DEF Why
  <2>5. outcome # "none" /\ Told(outcome) => Told(outcome)'
    BY <2>1, <2>2, <2>3, ToldMore DEF Told, Why
  <2>6. outcome # "none" => closeSent
    BY <2>1, <2>3 DEF Why, ClosesLast, Said
  <2> QED
    BY <2>1, <2>2, <2>3, <2>4, <2>5, <2>6, WhyDone
<1>8. CASE Socket!WriteFails(Reader)
  <2>1. /\ sending[Reader].at \in {"header", "payload"} /\ closeSent' = closeSent /\ mu = Reader
             /\ Reader # Socket!Nobody
        /\ sending'[Reader] = Socket!Quiet /\ out' = out
    BY <1>8, ReaderIs, FailEffect
  <2>2. outcome' = outcome /\ readErr' = readErr
    BY <1>8 DEF Socket!WriteFails
  <2>3. sending[Reader] # Socket!Quiet
    BY <2>1, NotBoth
  <2>4. (Silent => Silent') /\ (Told(outcome) => Told(outcome)')
    BY <2>1, <2>2 DEF Silent, Told
  <2>6. outcome # "none" => closeSent
    BY <2>1, <2>3 DEF Why, ClosesLast, Said
  <2> QED
    BY <2>1, <2>2, <2>3, <2>4, <2>6, WhyDone
<1>9. CASE UNCHANGED Socket!vars
  BY <1>9, ToldSame, WhyKept DEF Socket!vars, ReaderKept
<1>10. ASSUME NEW w \in Writers, Socket!Oversize(w) PROVE Why'
  <2>1. outcome' = outcome /\ readErr' = readErr
    BY <1>10 DEF Socket!Oversize
  <2> QED
    BY <1>10, <2>1, OversizeEffect, ToldSame, WhyKept DEF ReaderKept
<1> QED
  BY <1>1, <1>2, <1>3, <1>4, <1>5, <1>6, <1>7, <1>8, <1>9, <1>10, SocketCases

-----------------------------------------------------------------------------
\* How the pings and the pongs grow.
Pinged(f) == f.opcode = "ping"
Ponged(u) == u.part = "payload" /\ u.by = Reader /\ u.frame.opcode = "pong"

LEMMA SubsetsFinite ==
    ASSUME NEW n \in Nat, NEW S \in SUBSET (1..n)
    PROVE  IsFiniteSet(S) /\ Cardinality(S) \in Nat
<1>1. IsFiniteSet(1..n)
  BY FS_Interval
<1> QED
  BY <1>1, FS_Subset, FS_CardinalityType

LEMMA PingsMore ==
    ASSUME SocketTyped, NEW f \in FramesIn, consumed' = Append(consumed, f)
    PROVE  /\ Len(consumed) \in Nat /\ Len(consumed') = Len(consumed) + 1
           /\ consumed'[Len(consumed) + 1] = f
           /\ \A i \in 1..Len(consumed) : consumed'[i] = consumed[i]
                /\ Socket!PingsIn(i)' = Socket!PingsIn(i)
           /\ Socket!PingsIn(Len(consumed)) \subseteq Socket!PingsIn(Len(consumed))'
           /\ ~Pinged(f) => Socket!PingsIn(Len(consumed))' = Socket!PingsIn(Len(consumed))
                /\ NPings' = NPings
           /\ Pinged(f) => Len(consumed') \in Socket!PingsIn(Len(consumed))' /\ NPings' = NPings + 1
           /\ NPings \in Nat
<1>1. /\ Len(consumed) \in Nat /\ Len(consumed') = Len(consumed) + 1
      /\ consumed'[Len(consumed) + 1] = f
      /\ \A i \in 1..Len(consumed) : consumed'[i] = consumed[i]
  BY DEF SocketTyped
<1>2. ASSUME NEW i \in 1..Len(consumed) PROVE Socket!PingsIn(i)' = Socket!PingsIn(i)
  <2>1. \A j \in 1..i : j \in 1..Len(consumed)
    BY <1>1
  <2> QED
    BY <1>1, <2>1 DEF Socket!PingsIn
<1>3. \A i \in 1..Len(consumed') : i = Len(consumed) + 1 \/ i \in 1..Len(consumed)
  BY <1>1
<1>4. Len(consumed) + 1 \in 1..Len(consumed') /\ \A i \in 1..Len(consumed) : i \in 1..Len(consumed')
  BY <1>1
<1>5. ~Pinged(f) => Socket!PingsIn(Len(consumed))' = Socket!PingsIn(Len(consumed))
  BY <1>1, <1>3, <1>4 DEF Socket!PingsIn, Pinged
<1>6. Pinged(f) => Socket!PingsIn(Len(consumed))'
      = Socket!PingsIn(Len(consumed)) \union {Len(consumed) + 1}
  BY <1>1, <1>3, <1>4 DEF Socket!PingsIn, Pinged
<1>7. IsFiniteSet(Socket!PingsIn(Len(consumed))) /\ NPings \in Nat
  BY <1>1, SubsetsFinite DEF Socket!PingsIn, NPings
<1>8. Len(consumed) + 1 \notin Socket!PingsIn(Len(consumed))
  BY <1>1 DEF Socket!PingsIn
<1>9. Cardinality(Socket!PingsIn(Len(consumed)) \union {Len(consumed) + 1}) = NPings + 1
  BY <1>7, <1>8, FS_AddElement DEF NPings
<1>10. Socket!PingsIn(Len(consumed)) \subseteq Socket!PingsIn(Len(consumed))'
  BY <1>5, <1>6
<1>11. Pinged(f) => Len(consumed') \in Socket!PingsIn(Len(consumed))' /\ NPings' = NPings + 1
  BY <1>1, <1>6, <1>9 DEF NPings
<1>12. ~Pinged(f) => NPings' = NPings
  BY <1>5 DEF NPings
<1> HIDE DEF NPings, Pinged
<1> QED
  BY <1>1, <1>2, <1>5, <1>7, <1>10, <1>11, <1>12

LEMMA PongsMore ==
    ASSUME SocketTyped, NEW u \in Units, out' = Append(out, u)
    PROVE  /\ \A k \in 1..Len(out) : Socket!PongsOut(k)' = Socket!PongsOut(k)
           /\ ~Ponged(u) => Socket!PongsOut(Len(out))' = Socket!PongsOut(Len(out)) /\ NPongs' = NPongs
           /\ Ponged(u) => /\ Socket!PongsOut(Len(out))'
                                = Socket!PongsOut(Len(out)) \union {Len(out) + 1}
                           /\ NPongs' = NPongs + 1
           /\ NPongs \in Nat
<1>1. /\ Len(out) \in Nat /\ Len(out') = Len(out) + 1
      /\ out'[Len(out) + 1] = u
      /\ \A i \in 1..Len(out) : out'[i] = out[i]
  BY Longer
<1>2. ASSUME NEW i \in 1..Len(out) PROVE Socket!PongsOut(i)' = Socket!PongsOut(i)
  <2>1. \A j \in 1..i : j \in 1..Len(out)
    BY <1>1
  <2> QED
    BY <1>1, <2>1 DEF Socket!PongsOut
<1>3. \A i \in 1..Len(out') : i = Len(out) + 1 \/ i \in 1..Len(out)
  BY <1>1
<1>4. Len(out) + 1 \in 1..Len(out') /\ \A i \in 1..Len(out) : i \in 1..Len(out')
  BY <1>1
<1>5. ~Ponged(u) => Socket!PongsOut(Len(out))' = Socket!PongsOut(Len(out))
  BY <1>1, <1>3, <1>4 DEF Socket!PongsOut, Ponged
<1>6. Ponged(u) => Socket!PongsOut(Len(out))' = Socket!PongsOut(Len(out)) \union {Len(out) + 1}
  BY <1>1, <1>3, <1>4 DEF Socket!PongsOut, Ponged
<1>7. IsFiniteSet(Socket!PongsOut(Len(out))) /\ NPongs \in Nat
  BY <1>1, SubsetsFinite DEF Socket!PongsOut, NPongs
<1>8. Len(out) + 1 \notin Socket!PongsOut(Len(out))
  BY <1>1 DEF Socket!PongsOut
<1>9. Cardinality(Socket!PongsOut(Len(out)) \union {Len(out) + 1}) = NPongs + 1
  BY <1>7, <1>8, FS_AddElement DEF NPongs
<1>11. Ponged(u) => NPongs' = NPongs + 1
  BY <1>6, <1>9 DEF NPongs
<1>12. ~Ponged(u) => NPongs' = NPongs
  BY <1>5 DEF NPongs
<1> HIDE DEF NPongs, Ponged
<1> QED
  BY <1>2, <1>5, <1>6, <1>7, <1>11, <1>12

\* A step that neither reads a frame nor writes a pong.
LEMMA CountsKept ==
    ASSUME Answered, Paired, consumed' = consumed, NPongs' = NPongs,
           Socket!PongsOut(Len(out))' = Socket!PongsOut(Len(out)),
           \A k \in Socket!PongsOut(Len(out)) : Socket!PongsOut(k)' = Socket!PongsOut(k)
               /\ out'[k] = out[k],
           Owing' => Owing /\ closeSent' = closeSent /\ sending'[Reader].frame = sending[Reader].frame,
           Even' => Even
    PROVE  Answered' /\ Paired'
<1>1. NPings' = NPings /\ \A n : Socket!PingsIn(n)' = Socket!PingsIn(n)
  BY DEF NPings, Socket!PingsIn
<1>2. Socket!PingsIn(Len(consumed))' = Socket!PingsIn(Len(consumed))
  BY DEF Socket!PingsIn
<1>3. Answered'
  BY <1>1, <1>2 DEF Answered
<1>4. Paired'
  BY <1>1, <1>2 DEF Paired
<1> QED
  BY <1>3, <1>4

LEMMA AnsweredSame ==
    ASSUME Answered, Paired, consumed' = consumed, out' = out,
           Owing' => Owing /\ closeSent' = closeSent /\ sending'[Reader].frame = sending[Reader].frame,
           Even' => Even
    PROVE  Answered' /\ Paired'
<1>1. NPongs' = NPongs /\ Socket!PongsOut(Len(out))' = Socket!PongsOut(Len(out))
      /\ \A n : Socket!PongsOut(n)' = Socket!PongsOut(n)
  BY DEF NPongs, Socket!PongsOut
<1> QED
  BY <1>1, CountsKept

LEMMA AnsweredMore ==
    ASSUME SocketTyped, Answered, Paired, consumed' = consumed, NEW u \in Units, out' = Append(out, u),
           ~Ponged(u),
           Owing' => Owing /\ closeSent' = closeSent /\ sending'[Reader].frame = sending[Reader].frame,
           Even' => Even
    PROVE  Answered' /\ Paired'
<1>1. NPongs' = NPongs /\ Socket!PongsOut(Len(out))' = Socket!PongsOut(Len(out))
  BY PongsMore
<1>2. \A k \in 1..Len(out) : Socket!PongsOut(k)' = Socket!PongsOut(k) /\ out'[k] = out[k]
  BY PongsMore, Longer
<1>3. \A k \in Socket!PongsOut(Len(out)) : k \in 1..Len(out)
  BY DEF Socket!PongsOut
<1> QED
  BY <1>1, <1>2, <1>3, CountsKept

LEMMA AnsweredReads ==
    ASSUME Socket!ConnAssumption, SocketTyped, Answered, Paired, NEW f \in FramesIn, Reads(f)
    PROVE  Answered' /\ Paired'
<1>1. /\ sending[Reader] = Socket!Quiet /\ out' = out /\ closeSent' = closeSent
           /\ consumed' = Append(consumed, f)
  BY DEF Reads, Socket!Takes
<1>2. NPongs' = NPongs /\ Socket!PongsOut(Len(out))' = Socket!PongsOut(Len(out))
      /\ \A n : Socket!PongsOut(n)' = Socket!PongsOut(n)
  BY <1>1 DEF NPongs, Socket!PongsOut
<1>3. /\ Len(consumed) \in Nat /\ Len(consumed') = Len(consumed) + 1
      /\ consumed'[Len(consumed) + 1] = f
      /\ \A i \in 1..Len(consumed) : consumed'[i] = consumed[i]
           /\ Socket!PingsIn(i)' = Socket!PingsIn(i)
      /\ Socket!PingsIn(Len(consumed)) \subseteq Socket!PingsIn(Len(consumed))'
      /\ ~Pinged(f) => NPings' = NPings
      /\ Pinged(f) => Len(consumed') \in Socket!PingsIn(Len(consumed))' /\ NPings' = NPings + 1
      /\ NPings \in Nat
  BY <1>1, PingsMore
<1>4. Paired'
  <2> SUFFICES ASSUME NEW k \in Socket!PongsOut(Len(out))
               PROVE  \E i \in Socket!PingsIn(Len(consumed))' :
                        /\ Cardinality(Socket!PingsIn(i)') = Cardinality(Socket!PongsOut(k)')
                        /\ out'[k].frame.payload = consumed'[i].payload
    BY <1>2 DEF Paired
  <2>1. PICK i \in Socket!PingsIn(Len(consumed)) : /\ Cardinality(Socket!PingsIn(i))
                                                        = Cardinality(Socket!PongsOut(k))
                                            /\ out[k].frame.payload = consumed[i].payload
    BY DEF Paired
  <2>2. i \in 1..Len(consumed) /\ i \in Socket!PingsIn(Len(consumed))'
    BY <1>3, <2>1 DEF Socket!PingsIn
  <2> QED
    BY <1>1, <1>2, <1>3, <2>1, <2>2
<1>5. Answered'
  <2>1. CASE sending' = sending /\ f.opcode # "ping" /\ broken' \in {broken, TRUE}
    <3>1. ~Pinged(f) /\ ~Owing'
      BY <1>1, <2>1 DEF Pinged, Owing
    <3>2. Even' => Even
      BY <1>1, <2>1 DEF Even, SocketTyped
    <3> QED
      BY <1>2, <1>3, <3>1, <3>2 DEF Answered
  <2>2. CASE f.opcode = "ping" /\ Socket!Starts(Reader, Socket!Frame("pong", TRUE, f.payload))
             /\ broken' = broken
    <3>1. sending'[Reader] = [at |-> "lock", frame |-> Socket!Frame("pong", TRUE, f.payload)]
      BY <2>2, ReaderIs DEF Socket!Starts, SocketTyped
    <3>2. /\ sending'[Reader].at = "lock" /\ sending'[Reader].frame.opcode = "pong"
          /\ sending'[Reader].frame.payload = f.payload /\ sending'[Reader] # Socket!Quiet
      BY <3>1 DEF Socket!Frame, Socket!Quiet
    <3>3. Pinged(f) /\ ~Even'
      BY <2>2, <3>2 DEF Pinged, Even
    <3>4. Owing' => Even /\ ~closeSent
      BY <1>1, <2>2, <3>2 DEF Owing, Even
    <3>5. Owing' => NPongs' + 1 = NPings'
      BY <1>2, <1>3, <3>3, <3>4 DEF Answered
    <3>6. consumed'[Len(consumed')].payload = sending'[Reader].frame.payload
      BY <1>3, <3>2
    <3> QED
      BY <1>1, <1>3, <3>3, <3>4, <3>5, <3>6 DEF Answered
  <2>3. ASSUME NEW c \in EchoedCodes, f.opcode # "ping",
               Socket!Starts(Reader, Socket!Frame("close", TRUE, <<c>>)), broken' = broken
        PROVE  Answered'
    <3>1. sending'[Reader] = [at |-> "lock", frame |-> Socket!Frame("close", TRUE, <<c>>)]
      BY <2>3, ReaderIs DEF Socket!Starts, SocketTyped
    <3>2. sending'[Reader].frame.opcode = "close"
      BY <3>1 DEF Socket!Frame
    <3>3. ~Pinged(f) /\ ~Owing' /\ (Even' => Even)
      BY <1>1, <2>3, <3>2 DEF Pinged, Owing, Even
    <3> QED
      BY <1>2, <1>3, <3>3 DEF Answered
  <2> QED
    BY <2>1, <2>2, <2>3 DEF Reads
<1> QED
  BY <1>4, <1>5

\* The reader answers a ping.
LEMMA PongWritten ==
    ASSUME Socket!ConnAssumption, SocketTyped, ClosesLast, Answered, Paired,
           Socket!WritePayload(Reader),
           sending[Reader].frame.opcode = "pong"
    PROVE  Answered' /\ Paired'
<1>1. /\ sending[Reader].at = "payload" /\ closeSent' = closeSent /\ mu = Reader
           /\ Reader # Socket!Nobody
      /\ sending'[Reader] = Socket!Quiet /\ ~broken
      /\ out' = Append(out, Socket!Part(Reader, "payload"))
  BY ReaderIs, PayloadEffect
<1>2. consumed' = consumed
  BY DEF Socket!WritePayload, Socket!reading
<1>3. Owing
  BY <1>1, NotBoth DEF Owing
<1>4. Ponged(Socket!Part(Reader, "payload"))
      /\ Socket!Part(Reader, "payload").frame = sending[Reader].frame
      /\ Socket!Part(Reader, "payload") \in Units
  BY PartTyped, ReaderIs DEF Ponged, Socket!Part
<1>5. /\ Socket!PongsOut(Len(out))' = Socket!PongsOut(Len(out)) \union {Len(out) + 1}
           /\ NPongs' = NPongs + 1
      /\ \A k \in 1..Len(out) : Socket!PongsOut(k)' = Socket!PongsOut(k)
  BY <1>1, <1>4, PongsMore
<1>6. /\ Len(out) \in Nat /\ Len(out') = Len(out) + 1 /\ out'[Len(out) + 1] = Socket!Part(Reader,
           "payload")
      /\ \A k \in 1..Len(out) : out'[k] = out[k]
  BY <1>1, <1>4, Longer
<1>7. /\ NPongs + 1 = NPings /\ Len(consumed) \in Socket!PingsIn(Len(consumed))
      /\ consumed[Len(consumed)].payload = sending[Reader].frame.payload
  BY <1>3 DEF Answered
<1>8. NPings' = NPings /\ Socket!PingsIn(Len(consumed))' = Socket!PingsIn(Len(consumed))
      /\ \A n : Socket!PingsIn(n)' = Socket!PingsIn(n)
  BY <1>2 DEF NPings, Socket!PingsIn
<1>9. Answered'
  BY <1>1, <1>5, <1>7, <1>8 DEF Answered, Owing
<1>10. Paired'
  <2> SUFFICES ASSUME NEW k \in Socket!PongsOut(Len(out))'
               PROVE  \E i \in Socket!PingsIn(Len(consumed)) :
                        /\ Cardinality(Socket!PingsIn(i)) = Cardinality(Socket!PongsOut(k)')
                        /\ out'[k].frame.payload = consumed[i].payload
    BY <1>2, <1>8 DEF Paired
  <2>1. CASE k = Len(out) + 1
    <3>1. Cardinality(Socket!PongsOut(k)') = NPongs'
      BY <1>6, <2>1 DEF NPongs
    <3>2. Cardinality(Socket!PingsIn(Len(consumed))) = NPings
      BY DEF NPings
    <3> QED
      BY <1>4, <1>5, <1>6, <1>7, <2>1, <3>1, <3>2
  <2>2. CASE k \in Socket!PongsOut(Len(out))
    <3>1. k \in 1..Len(out)
      BY <2>2 DEF Socket!PongsOut
    <3> QED
      BY <1>5, <1>6, <2>2, <3>1 DEF Paired
  <2> QED
    BY <1>5, <2>1, <2>2
<1> QED
  BY <1>9, <1>10

LEMMA AnsweredStep ==
    ASSUME Socket!ConnAssumption, SocketTyped, ClosesLast, Answered, Paired, [Socket!Next]_Socket!vars
    PROVE  Answered' /\ Paired'
<1>1. ASSUME NEW f \in FramesIn, Reads(f) PROVE Answered' /\ Paired'
  BY <1>1, AnsweredReads
<1>2. CASE Socket!Shut
  BY <1>2, AnsweredSame DEF Socket!Shut, Socket!Ended, Socket!reading, Owing, Even
<1>3. ASSUME NEW w \in Writers, NEW op \in Written, Socket!WriteMessage(w, op)
      PROVE  Answered' /\ Paired'
  <2>1. sending'[Reader] = sending[Reader]
    BY <1>3, ReaderIs DEF Socket!WriteMessage, Socket!Starts, SocketTyped, Socket!ConnAssumption
  <2>2. consumed' = consumed /\ out' = out /\ broken' = broken /\ closeSent' = closeSent
    BY <1>3 DEF Socket!WriteMessage, Socket!reading, Socket!writing
  <2> QED
    BY <2>1, <2>2, AnsweredSame DEF Owing, Even
<1>4. ASSUME NEW g \in Socket!Goroutines \ {Reader}, Socket!Lock(g) PROVE Answered' /\ Paired'
  <2>1. /\ mu = Socket!Nobody /\ out' = out /\ broken' = broken /\ sending'[Reader] = sending[Reader]
        /\ closeSent => closeSent' = closeSent
    BY <1>4, ReaderIs, LockEffect
  <2>2. sending[Reader].at = "lock" \/ sending[Reader] = Socket!Quiet
    BY <2>1, ReaderIs DEF SocketTyped, Socket!ConnAssumption
  <2>3. consumed' = consumed
    BY <1>4 DEF Socket!Lock, Socket!reading
  <2>4. closeSent \in BOOLEAN /\ closeSent' \in BOOLEAN
    BY <1>4 DEF Socket!Lock, SocketTyped
  <2>5. Owing' => Owing /\ closeSent' = closeSent
    BY <2>1, <2>2, <2>4 DEF Owing
  <2>6. Even' => Even
    BY <2>1, <2>4 DEF Even
  <2> QED
    BY <2>1, <2>3, <2>5, <2>6, AnsweredSame
<1>5. CASE Socket!Lock(Reader)
  <2>1. /\ out' = out /\ broken' = broken
        /\ \/ closeSent /\ closeSent' = closeSent /\ sending'[Reader] = Socket!Quiet
           \/ /\ ~closeSent /\ sending'[Reader].at = "header"
                /\ sending'[Reader].frame = sending[Reader].frame
              /\ closeSent' = (sending[Reader].frame.opcode = "close")
    BY <1>5, ReaderIs, LockEffect
  <2>2. consumed' = consumed /\ sending[Reader].at = "lock"
    BY <1>5 DEF Socket!Lock, Socket!reading
  <2>3. sending[Reader] # Socket!Quiet
    BY <2>2, NotBoth
  <2>4. CASE closeSent /\ closeSent' = closeSent /\ sending'[Reader] = Socket!Quiet
    BY <2>1, <2>2, <2>4, AnsweredSame DEF Owing, Even
  <2>5. CASE /\ ~closeSent /\ sending'[Reader].at = "header"
                  /\ sending'[Reader].frame = sending[Reader].frame
             /\ closeSent' = (sending[Reader].frame.opcode = "close")
    <3>1. sending'[Reader] # Socket!Quiet
      BY <2>5, NotBoth
    <3>2. Owing' => Owing /\ closeSent' = closeSent
      <4> SUFFICES ASSUME Owing' PROVE Owing /\ closeSent' = closeSent
        OBVIOUS
      <4>1. sending[Reader].frame.opcode = "pong" /\ ~broken
        BY <2>1, <2>5 DEF Owing
      <4>2. closeSent' = FALSE /\ closeSent = FALSE
        BY <2>5, <4>1 DEF SocketTyped
      <4> QED
        BY <2>3, <4>1, <4>2 DEF Owing
    <3>3. Even' => Even
      BY <2>1, <2>5, <3>1 DEF Even
    <3> QED
      BY <2>1, <2>2, <2>5, <3>2, <3>3, AnsweredSame
  <2> QED
    BY <2>1, <2>4, <2>5
<1>6. ASSUME NEW g \in Socket!Goroutines, Socket!WriteHeader(g) PROVE Answered' /\ Paired'
  <2>1. /\ closeSent' = closeSent /\ broken' = broken /\ out' = Append(out, Socket!Part(g, "header"))
        /\ sending'[g].at = "payload" /\ sending'[g].frame = sending[g].frame
             /\ sending[g].at = "header"
        /\ \A h \in Socket!Goroutines \ {g} : sending'[h] = sending[h]
    BY <1>6, HeaderEffect
  <2>2. consumed' = consumed
    BY <1>6 DEF Socket!WriteHeader, Socket!reading
  <2>3. Socket!Part(g, "header") \in Units /\ ~Ponged(Socket!Part(g, "header"))
    BY PartTyped DEF Socket!Part, Ponged
  <2>4. /\ sending'[Reader].frame = sending[Reader].frame
        /\ sending[Reader] = Socket!Quiet <=> sending'[Reader] = Socket!Quiet
        /\ sending[Reader].at = "lock" => sending'[Reader].at = "lock"
    BY <2>1, ReaderIs, NotBoth
  <2> QED
    BY <2>1, <2>2, <2>3, <2>4, AnsweredMore DEF Owing, Even
<1>7. ASSUME NEW g \in Socket!Goroutines \ {Reader}, Socket!WritePayload(g) PROVE Answered' /\ Paired'
  <2>1. /\ closeSent' = closeSent /\ broken' = broken /\ out' = Append(out, Socket!Part(g, "payload"))
        /\ sending'[Reader] = sending[Reader]
    BY <1>7, ReaderIs, PayloadEffect
  <2>2. consumed' = consumed
    BY <1>7 DEF Socket!WritePayload, Socket!reading
  <2>3. Socket!Part(g, "payload") \in Units /\ ~Ponged(Socket!Part(g, "payload"))
    BY PartTyped DEF Socket!Part, Ponged
  <2> QED
    BY <2>1, <2>2, <2>3, AnsweredMore DEF Owing, Even
<1>8. CASE Socket!WritePayload(Reader)
  <2>1. CASE sending[Reader].frame.opcode = "pong"
    BY <1>8, <2>1, PongWritten
  <2>2. CASE sending[Reader].frame.opcode # "pong"
    <3>1. /\ closeSent' = closeSent /\ broken' = broken
               /\ out' = Append(out, Socket!Part(Reader, "payload"))
          /\ sending'[Reader] = Socket!Quiet
      BY <1>8, ReaderIs, PayloadEffect
    <3>2. consumed' = consumed
      BY <1>8 DEF Socket!WritePayload, Socket!reading
    <3>3. Socket!Part(Reader, "payload") \in Units /\ ~Ponged(Socket!Part(Reader, "payload"))
      BY <2>2, ReaderIs, PartTyped DEF Socket!Part, Ponged
    <3> QED
      BY <2>2, <3>1, <3>2, <3>3, AnsweredMore DEF Owing, Even
  <2> QED
    BY <2>1, <2>2
<1>9. ASSUME NEW g \in Socket!Goroutines, Socket!WriteFails(g) PROVE Answered' /\ Paired'
  BY <1>9, FailEffect, AnsweredSame DEF Socket!WriteFails, Socket!reading, Owing, Even
<1>10. CASE UNCHANGED Socket!vars
  BY <1>10, AnsweredSame DEF Socket!vars, Owing, Even
<1>11. ASSUME NEW w \in Writers, Socket!Oversize(w) PROVE Answered' /\ Paired'
  <2>1. /\ mu = Socket!Nobody /\ out' = out /\ broken' = broken /\ sending'[Reader] = sending[Reader]
        /\ ~closeSent /\ closeSent' \in BOOLEAN /\ closeSent \in BOOLEAN
    BY <1>11, OversizeEffect DEF SocketTyped
  <2>2. sending[Reader].at = "lock" \/ sending[Reader] = Socket!Quiet
    BY <2>1, ReaderIs DEF SocketTyped, Socket!ConnAssumption
  <2>3. consumed' = consumed
    BY <1>11 DEF Socket!Oversize, Socket!reading
  <2>4. Owing' => Owing /\ closeSent' = closeSent
    BY <2>1, <2>2 DEF Owing
  <2>5. Even' => Even
    BY <2>1 DEF Even
  <2> QED
    BY <2>1, <2>3, <2>4, <2>5, AnsweredSame
<1> QED
  BY <1>1, <1>2, <1>3, <1>4, <1>5, <1>6, <1>7, <1>8, <1>9, <1>10, <1>11, SocketCases

-----------------------------------------------------------------------------
LEMMA SocketInit ==
    ASSUME Socket!ConnAssumption, Socket!Init
    PROVE  SocketInv
<1>1. \A g \in Socket!Goroutines : sending[g] = Socket!Quiet /\ g # Socket!Nobody
  BY DEF Socket!Init, Socket!ConnAssumption
<1>2. out = <<>> /\ consumed = <<>> /\ Len(out) = 0 /\ Len(consumed) = 0 /\ DOMAIN out = {}
  BY DEF Socket!Init
<1>3. SocketTyped
  <2>1. Socket!Quiet \in [at : {"idle", "lock", "header", "payload"}, frame : Sendable]
    BY QuietIs
  <2>2. sending \in [Socket!Goroutines -> [at : {"idle", "lock", "header", "payload"},
        frame : Sendable]]
    BY <2>1 DEF Socket!Init
  <2>3. \A g \in Socket!Goroutines : sending[g].at \in {"header", "payload"} <=> mu = g
    BY <1>1, NotBoth DEF Socket!Init
  <2>4. out \in Seq(Units) /\ consumed \in Seq(FramesIn)
    BY <1>2
  <2>5. mu \in Socket!Goroutines \union {Socket!Nobody} /\ closeSent \in BOOLEAN /\ broken \in BOOLEAN
    BY DEF Socket!Init
  <2> QED
    BY <1>1, <2>2, <2>3, <2>4, <2>5 DEF SocketTyped
<1>4. Socket!WholeFrames /\ Socket!CloseIsLast /\ Silent
  BY <1>2 DEF Socket!WholeFrames, Socket!CloseIsLast, Silent
<1>5. Turn
  BY <1>2 DEF Socket!Init, Turn, Between
<1>6. ClosesLast
  BY <1>2 DEF Socket!Init, ClosesLast
<1>7. Why
  BY <1>1, <1>4, ReaderIs, NotBoth DEF Socket!Init, Why
<1>8. Socket!PingsIn(Len(consumed)) = {} /\ Socket!PongsOut(Len(out)) = {}
  BY <1>2 DEF Socket!PingsIn, Socket!PongsOut
<1>9. Answered /\ Paired
  BY <1>1, <1>8, ReaderIs DEF Answered, Paired, Owing, NPings, NPongs
<1> QED
  BY <1>3, <1>4, <1>5, <1>6, <1>7, <1>9 DEF SocketInv

LEMMA SocketStep ==
    ASSUME Socket!ConnAssumption, SocketInv, [Socket!Next]_Socket!vars
    PROVE  SocketInv'
  BY SocketTypedStep, WholeStep, CloseStep, WhyStep, AnsweredStep DEF SocketInv

LEMMA SocketEnough ==
    ASSUME SocketInv
    PROVE  Socket!WritesOrdered
<1>1. Socket!ToldWhy
  <2> SUFFICES ASSUME readErr \in Protocol PROVE closeSent /\ Told(readErr)
    BY DEF Socket!ToldWhy, Told, Said, Protocol
  <2>1. readErr # "none"
    BY DEF Protocol
  <2> QED
    BY <2>1 DEF SocketInv, Why
<1>2. Socket!PongsAnswer
  BY CardinalityIs DEF SocketInv, Paired, Answered, Even, NPings, NPongs, Socket!PongsAnswer
<1> QED
  BY <1>1, <1>2 DEF SocketInv, Socket!WritesOrdered

LEMMA SocketInvariant == ASSUME Socket!ConnAssumption PROVE Socket!Spec => []SocketInv
<1>1. Socket!Init => SocketInv
  BY SocketInit
<1>2. SocketInv /\ [Socket!Next]_Socket!vars => SocketInv'
  BY SocketStep
<1> QED
  BY <1>1, <1>2, PTL DEF Socket!Spec

\* What holds of 0, and of i + 1 where it holds of i, holds up to n.
LEMMA Upward ==
    ASSUME NEW n \in Nat, NEW S, 0 \in S, \A i \in 0..n : i < n /\ i \in S => i + 1 \in S
    PROVE  \A i \in 0..n : i \in S
<1> SUFFICES ASSUME NEW k \in 0..n, k \notin S PROVE FALSE
  OBVIOUS
<1> DEFINE Out == {i \in 0..n : i \notin S}
<1>1. Out \subseteq Nat /\ Out # {}
  OBVIOUS
<1>2. PICK x \in Out : \A y \in Out : x <= y
  BY <1>1, LeastExists
<1>3. x \in 0..n /\ x # 0 /\ x - 1 \in 0..n /\ x - 1 < n
  OBVIOUS
<1>4. x - 1 \in S
  BY <1>2, <1>3
<1> QED
  BY <1>3, <1>4

\* The function that Folded ends in: what the first i elements make of v.
FoldOf(g, step, v, p) ==
    g = [i \in 0..Len(p) |-> IF i = 0 THEN v ELSE step[g[i - 1]][p[i]]]

LEMMA FoldIs ==
    ASSUME NEW step, NEW v, NEW p, NEW g, FoldOf(g, step, v, p)
    PROVE  \E h : FoldOf(h, step, v, p) /\ Socket!Folded(step, v, p) = h[Len(p)]
<1> DEFINE c == CHOOSE h : h = [i \in 0..Len(p) |-> IF i = 0 THEN v ELSE step[h[i - 1]][p[i]]]
<1>1. FoldOf(c, step, v, p)
  BY DEF FoldOf
<1>2. Socket!Folded(step, v, p) = c[Len(p)]
  BY DEF Socket!Folded
<1> QED
  BY <1>1, <1>2

LEMMA FoldUnique ==
    ASSUME NEW step, NEW v, NEW p, Len(p) \in Nat, NEW g, NEW h,
           FoldOf(g, step, v, p), FoldOf(h, step, v, p)
    PROVE  \A i \in 0..Len(p) : g[i] = h[i]
<1> DEFINE S == {i \in 0..Len(p) : g[i] = h[i]}
<1>1. 0 \in S
  BY DEF FoldOf
<1>2. ASSUME NEW i \in 0..Len(p), i < Len(p), i \in S PROVE i + 1 \in S
  <2>1. i + 1 \in 0..Len(p) /\ i + 1 # 0 /\ (i + 1) - 1 = i
    BY <1>2
  <2>2. g[i + 1] = step[g[i]][p[i + 1]] /\ h[i + 1] = step[h[i]][p[i + 1]]
    BY <2>1 DEF FoldOf
  <2> QED
    BY <1>2, <2>1, <2>2
<1>3. \A i \in 0..Len(p) : i \in S
  BY <1>1, <1>2, Upward
<1> QED
  BY <1>3

LEMMA FoldExists ==
    ASSUME NEW step, NEW v, NEW p, Len(p) \in Nat
    PROVE  \E g : FoldOf(g, step, v, p)
<1> DEFINE UpTo(n, g) == g = [i \in 0..n |-> IF i = 0 THEN v ELSE step[g[i - 1]][p[i]]]
           S == {n \in 0..Len(p) : \E g : UpTo(n, g)}
<1>1. 0 \in S
  <2>1. UpTo(0, [i \in 0..0 |-> v])
    OBVIOUS
  <2> HIDE DEF UpTo
  <2> QED
    BY <2>1
<1>2. ASSUME NEW n \in 0..Len(p), n < Len(p), n \in S PROVE n + 1 \in S
  <2>1. PICK g : UpTo(n, g)
    BY <1>2
  <2> DEFINE h == [i \in 0..(n + 1) |-> IF i = n + 1 THEN step[g[n]][p[n + 1]] ELSE g[i]]
  <2>2. DOMAIN h = 0..(n + 1)
    OBVIOUS
  <2>3. ASSUME NEW i \in 0..(n + 1) PROVE h[i] = IF i = 0 THEN v ELSE step[h[i - 1]][p[i]]
    <3>1. CASE i = n + 1
      BY <3>1
    <3>2. CASE i # n + 1
      <4>1. i \in 0..n /\ h[i] = g[i]
        BY <3>2
      <4>2. g[i] = IF i = 0 THEN v ELSE step[g[i - 1]][p[i]]
        BY <2>1, <4>1
      <4>3. i # 0 => i - 1 \in 0..(n + 1) /\ i - 1 # n + 1 /\ h[i - 1] = g[i - 1]
        BY <4>1
      <4> QED
        BY <4>1, <4>2, <4>3
    <3> QED
      BY <3>1, <3>2
  <2>4. UpTo(n + 1, h)
    BY <2>2, <2>3
  <2>5. n + 1 \in 0..Len(p)
    BY <1>2
  <2> HIDE DEF UpTo, h
  <2> QED
    BY <2>4, <2>5
<1> HIDE DEF S
<1>3. \A n \in 0..Len(p) : n \in S
  BY <1>1, <1>2, Upward
<1>4. Len(p) \in S
  BY <1>3
<1> QED
  BY <1>4 DEF S, FoldOf

\* What Folded computes: the end of any function that takes its steps.
LEMMA FoldEnds ==
    ASSUME NEW step, NEW v, NEW p, Len(p) \in Nat, NEW g, FoldOf(g, step, v, p)
    PROVE  Socket!Folded(step, v, p) = g[Len(p)]
<1>1. PICK h : FoldOf(h, step, v, p) /\ Socket!Folded(step, v, p) = h[Len(p)]
  BY FoldIs
<1> QED
  BY <1>1, FoldUnique

LEMMA FoldEmpty == ASSUME NEW step, NEW v PROVE Socket!Folded(step, v, <<>>) = v
<1>1. Len(<<>>) = 0
  OBVIOUS
<1>2. PICK g : FoldOf(g, step, v, <<>>)
  BY <1>1, FoldExists
<1>3. g[0] = v
  BY <1>1, <1>2 DEF FoldOf
<1> QED
  BY <1>1, <1>2, <1>3, FoldEnds

LEMMA FoldTyped ==
    ASSUME NEW S, NEW T, NEW step \in [S -> [T -> S]], NEW v \in S, NEW p \in Seq(T)
    PROVE  Socket!Folded(step, v, p) \in S
<1>1. Len(p) \in Nat /\ \A i \in 1..Len(p) : p[i] \in T
  OBVIOUS
<1>2. PICK g : FoldOf(g, step, v, p)
  BY <1>1, FoldExists
<1> DEFINE In == {i \in 0..Len(p) : g[i] \in S}
<1>3. 0 \in In
  BY <1>1, <1>2 DEF FoldOf
<1>4. ASSUME NEW i \in 0..Len(p), i < Len(p), i \in In PROVE i + 1 \in In
  <2>1. i + 1 \in 0..Len(p) /\ i + 1 \in 1..Len(p) /\ i + 1 # 0 /\ (i + 1) - 1 = i
    BY <1>1, <1>4
  <2>2. g[i + 1] = step[g[i]][p[i + 1]]
    BY <1>2, <2>1 DEF FoldOf
  <2>3. g[i] \in S /\ p[i + 1] \in T
    BY <1>1, <1>4, <2>1
  <2> QED
    BY <2>1, <2>2, <2>3
<1> HIDE DEF In
<1>5. \A i \in 0..Len(p) : i \in In
  BY <1>1, <1>3, <1>4, Upward
<1>6. Len(p) \in In
  BY <1>1, <1>5
<1> QED
  BY <1>1, <1>2, <1>6, FoldEnds DEF In

LEMMA FoldConcat ==
    ASSUME NEW T, NEW step, NEW v, NEW p \in Seq(T), NEW q \in Seq(T)
    PROVE  Socket!Folded(step, v, p \o q) = Socket!Folded(step, Socket!Folded(step, v, p), q)
<1> DEFINE m == Len(p)
           n == Len(q)
<1>1. /\ m \in Nat /\ n \in Nat /\ Len(p \o q) = m + n
      /\ \A i \in 1..m : (p \o q)[i] = p[i]
      /\ \A i \in 1..n : (p \o q)[m + i] = q[i]
  OBVIOUS
<1>2. Len(p \o q) \in Nat
  BY <1>1
<1>3. PICK g : FoldOf(g, step, v, p \o q)
  BY <1>2, FoldExists
<1>4. g[0] = v /\ \A i \in 1..(m + n) : g[i] = step[g[i - 1]][(p \o q)[i]]
  <2> DEFINE w == p \o q
  <2>1. g = [i \in 0..Len(w) |-> IF i = 0 THEN v ELSE step[g[i - 1]][w[i]]] /\ Len(w) = m + n
    BY <1>1, <1>3 DEF FoldOf
  <2> HIDE DEF w, m, n
  <2>2. 0 \in 0..Len(w) /\ \A i \in 1..(m + n) : i \in 0..Len(w) /\ i # 0
    BY <1>1, <2>1
  <2>3. g[0] = v /\ \A i \in 1..(m + n) : g[i] = step[g[i - 1]][w[i]]
    BY <2>1, <2>2
  <2> QED
    BY <2>3 DEF w
<1> DEFINE low == [i \in 0..m |-> g[i]]
           high == [i \in 0..n |-> g[m + i]]
<1>5. FoldOf(low, step, v, p)
  <2>1. ASSUME NEW i \in 0..m PROVE low[i] = IF i = 0 THEN v ELSE step[low[i - 1]][p[i]]
    <3>1. CASE i = 0
      BY <1>4, <3>1
    <3>2. CASE i # 0
      <4>1. i \in 1..m /\ i \in 1..(m + n) /\ i - 1 \in 0..m
        BY <1>1, <3>2
      <4> QED
        BY <1>1, <1>4, <3>2, <4>1
    <3> QED
      BY <3>1, <3>2
  <2> HIDE DEF m
  <2>2. low = [i \in 0..m |-> IF i = 0 THEN v ELSE step[low[i - 1]][p[i]]]
    BY <2>1
  <2> QED
    BY <2>2 DEF FoldOf, m
<1>6. Socket!Folded(step, v, p) = g[m]
  BY <1>1, <1>5, FoldEnds
<1>7. FoldOf(high, step, g[m], q)
  <2>1. ASSUME NEW i \in 0..n PROVE high[i] = IF i = 0 THEN g[m] ELSE step[high[i - 1]][q[i]]
    <3>1. CASE i = 0
      BY <1>1, <3>1
    <3>2. CASE i # 0
      <4>1. i \in 1..n /\ m + i \in 1..(m + n) /\ i - 1 \in 0..n /\ (m + i) - 1 = m + (i - 1)
        BY <1>1, <3>2
      <4> HIDE DEF m, n
      <4>2. g[m + i] = step[g[m + (i - 1)]][q[i]]
        BY <1>1, <1>4, <4>1
      <4> QED
        BY <3>2, <4>1, <4>2
    <3> QED
      BY <3>1, <3>2
  <2> HIDE DEF n
  <2>2. high = [i \in 0..n |-> IF i = 0 THEN g[m] ELSE step[high[i - 1]][q[i]]]
    BY <2>1
  <2> QED
    BY <2>2 DEF FoldOf, n
<1>8. Socket!Folded(step, g[m], q) = g[m + n]
  BY <1>1, <1>7, FoldEnds
<1>9. Socket!Folded(step, v, p \o q) = g[m + n]
  <2> DEFINE w == p \o q
  <2>1. Len(w) \in Nat /\ Len(w) = m + n /\ FoldOf(g, step, v, w)
    BY <1>1, <1>2, <1>3
  <2> HIDE DEF w, m, n
  <2>2. Socket!Folded(step, v, w) = g[m + n]
    BY <2>1, FoldEnds
  <2> QED
    BY <2>2 DEF w
<1> QED
  BY <1>6, <1>8, <1>9

LEMMA FoldMore ==
    ASSUME NEW T, NEW step, NEW v, NEW p \in Seq(T), NEW x \in T
    PROVE  Socket!Folded(step, v, Append(p, x)) = step[Socket!Folded(step, v, p)][x]
<1>1. <<x>> \in Seq(T) /\ Append(p, x) = p \o <<x>> /\ Len(<<x>>) = 1 /\ <<x>>[1] = x
  OBVIOUS
<1> DEFINE u == Socket!Folded(step, v, p)
<1>2. Socket!Folded(step, v, p \o <<x>>) = Socket!Folded(step, Socket!Folded(step, v, p), <<x>>)
  <2> DEFINE w == <<x>>
  <2> HIDE DEF w
  <2>1. w \in Seq(T)
    BY <1>1 DEF w
  <2>2. Socket!Folded(step, v, p \o w) = Socket!Folded(step, Socket!Folded(step, v, p), w)
    BY <2>1, FoldConcat
  <2> QED
    BY <2>2 DEF w
<1>3. Socket!Folded(step, v, Append(p, x)) = Socket!Folded(step, u, <<x>>)
  BY <1>1, <1>2
<1> HIDE DEF u
<1>4. PICK g : FoldOf(g, step, u, <<x>>)
  BY <1>1, FoldExists
<1>5. g[0] = u /\ g[1] = step[g[0]][x]
  BY <1>1, <1>4 DEF FoldOf
<1>6. Socket!Folded(step, u, <<x>>) = g[1]
  BY <1>1, <1>4, FoldEnds
<1> QED
  BY <1>3, <1>5, <1>6 DEF u

\* The validator: a payload after another is the two in one.
Validities == {"clean", "owing", "bad"}

LEMMA RuneTyped == Socket!Rune \in [Validities -> [Socket!Pieces -> Validities]]
  BY DEF Socket!Rune, Validities

LEMMA ValidTyped ==
    ASSUME NEW v \in Validities, NEW p \in Seq(Socket!Pieces)
    PROVE  Socket!Validated(v, p) \in Validities
  BY RuneTyped, FoldTyped DEF Socket!Validated

LEMMA ValidConcat ==
    ASSUME NEW v \in Validities, NEW p \in Seq(Socket!Pieces), NEW q \in Seq(Socket!Pieces)
    PROVE  /\ Socket!Validated(v, <<>>) = v
           /\ Socket!Validated(v, p \o q) = Socket!Validated(Socket!Validated(v, p), q)
  BY FoldEmpty, FoldConcat DEF Socket!Validated

\* What frames carry, one frame more.
LEMMA JoinTyped ==
    /\ Socket!Join \in [Seq(Socket!Pieces) -> [Seq(Socket!Pieces) -> Seq(Socket!Pieces)]]
    /\ \A m, p \in Seq(Socket!Pieces) : Socket!Join[m][p] = m \o p
<1>1. \A m, p \in Seq(Socket!Pieces) : m \o p \in Seq(Socket!Pieces)
  OBVIOUS
<1> QED
  BY <1>1 DEF Socket!Join

LEMMA CarriedTyped ==
    ASSUME Socket!ConnAssumption, NEW f \in FramesIn
    PROVE  Socket!Carried(f) \in Seq(Socket!Pieces)
<1>1. CASE f \in Socket!DataFrames
  <2>1. f.payload \in Payloads
    BY <1>1 DEF Socket!DataFrames, Socket!Frame
  <2> QED
    BY <2>1 DEF Socket!ConnAssumption, Socket!Carried
<1>2. CASE f \in Socket!ControlFrames \union Socket!Faults
  <2>1. f.opcode \in {"close", "ping", "pong", "fault"}
    BY <1>2 DEF Socket!ControlFrames, Socket!Faults, Socket!Frame
  <2> QED
    BY <2>1 DEF Socket!Carried, Socket!OfData, Socket!Control
<1> QED
  BY <1>1, <1>2 DEF FramesIn

LEMMA FlatMore ==
    ASSUME Socket!ConnAssumption, NEW s \in Seq(FramesIn), NEW f \in FramesIn
    PROVE  /\ Socket!Flat(<<>>) = <<>>
           /\ Socket!Flat(s) \in Seq(Socket!Pieces)
           /\ Socket!Flat(Append(s, f)) = Socket!Flat(s) \o Socket!Carried(f)
<1> DEFINE c(u) == [i \in DOMAIN u |-> Socket!Carried(u[i])]
<1>1. c(s) \in Seq(Seq(Socket!Pieces)) /\ Socket!Carried(f) \in Seq(Socket!Pieces)
  <2>1. \A i \in 1..Len(s) : s[i] \in FramesIn
    OBVIOUS
  <2>2. \A i \in 1..Len(s) : Socket!Carried(s[i]) \in Seq(Socket!Pieces)
    BY <2>1, CarriedTyped
  <2>3. DOMAIN s = 1..Len(s) /\ Len(s) \in Nat
    OBVIOUS
  <2> QED
    BY <2>2, <2>3, CarriedTyped
<1>2. c(Append(s, f)) = Append(c(s), Socket!Carried(f))
  <2>1. /\ Len(Append(s, f)) = Len(s) + 1 /\ Append(s, f) \in Seq(FramesIn)
        /\ Append(s, f)[Len(s) + 1] = f /\ \A i \in 1..Len(s) : Append(s, f)[i] = s[i]
    OBVIOUS
  <2>2. Len(c(s)) = Len(s) /\ \A i \in 1..Len(s) : c(s)[i] = Socket!Carried(s[i])
    BY <1>1
  <2>3. DOMAIN Append(s, f) = 1..(Len(s) + 1)
    BY <2>1
  <2>4. c(Append(s, f)) = [i \in 1..(Len(s) + 1) |-> Socket!Carried(Append(s, f)[i])]
    BY <2>3
  <2>5. Append(c(s), Socket!Carried(f)) = [i \in 1..(Len(s) + 1) |-> IF i
        = Len(s) + 1 THEN Socket!Carried(f) ELSE Socket!Carried(s[i])]
    BY <1>1, <2>2
  <2> QED
    BY <2>1, <2>4, <2>5
<1>3. c(<<>>) = <<>> /\ <<>> \in Seq(Socket!Pieces)
  OBVIOUS
<1>4. Socket!Flat(<<>>) = <<>>
  BY <1>3, FoldEmpty DEF Socket!Flat
<1>5. Socket!Flat(s) \in Seq(Socket!Pieces)
  BY <1>1, <1>3, JoinTyped, FoldTyped DEF Socket!Flat
<1>6. Socket!Flat(Append(s, f)) = Socket!Join[Socket!Flat(s)][Socket!Carried(f)]
  <2>1. Socket!Flat(s) = Socket!Folded(Socket!Join, <<>>, c(s))
        /\ Socket!Flat(Append(s, f)) = Socket!Folded(Socket!Join, <<>>, Append(c(s), Socket!Carried(f)))
    BY <1>2 DEF Socket!Flat
  <2> HIDE DEF c
  <2>2. Socket!Folded(Socket!Join, <<>>, Append(c(s), Socket!Carried(f)))
        = Socket!Join[Socket!Folded(Socket!Join, <<>>, c(s))][Socket!Carried(f)]
    BY <1>1, FoldMore
  <2> QED
    BY <2>1, <2>2
<1> QED
  BY <1>1, <1>4, <1>5, <1>6, JoinTyped

-----------------------------------------------------------------------------
\* What the reader keeps of the messages: the open one is what its frames carry, as
\* text the validator has seen all of it, and its frames are of the type kept.
MessageTyped ==
    /\ message \in Seq(Socket!Pieces)
    /\ returned \in Seq([opcode : {"text", "binary"}, payload : Seq(Socket!Pieces)])
    /\ validator \in Validities
    /\ fragOpcode \in {"none", "text", "binary"}
    /\ fragOpcode # "none" => opcode = fragOpcode
    /\ Socket!Failure # "none" => Len(consumed) > 0

OfOne(n) ==
    \A a \in 0..n : Socket!Begins(a, n + 1) =>
       \A b \in (a + 1)..n : Socket!Leads(a, b) => consumed[b].opcode = fragOpcode

OpenAfter(n) == \E k \in 1..n : Socket!OfData(consumed[k]) /\ \A j \in k..n : ~Socket!Final(j)

OpenMessage ==
    /\ fragOpcode # "none" <=> OpenAfter(Socket!Accepted)
    /\ fragOpcode = "none" => message = <<>>
    /\ fragOpcode = "text" => validator = Socket!Validated("clean", message)
    /\ ReadLimit > 0 => Len(message) <= ReadLimit
    /\ OfOne(Socket!Accepted)

MessageInv == MessageTyped /\ OpenMessage /\ Socket!Joined /\ Socket!ReturnedWell
    /\ Socket!RefusedForCause

\* What was read stays where it was when a frame more is read.
LEMMA Kept ==
    ASSUME SocketTyped, NEW f \in FramesIn, consumed' = Append(consumed, f), NEW n, n = Len(consumed)
    PROVE  /\ n \in Nat /\ Len(consumed') = n + 1 /\ consumed'[n + 1] = f
           /\ \A k \in 1..n : consumed'[k] = consumed[k] /\ (Socket!Final(k)' <=> Socket!Final(k))
           /\ Socket!Final(n + 1)' <=> Socket!OfData(f) /\ f.final
<1>1. consumed \in Seq(FramesIn)
  BY DEF SocketTyped
<1>2. /\ n \in Nat /\ Len(consumed') = n + 1 /\ consumed'[n + 1] = f
      /\ \A k \in 1..n : consumed'[k] = consumed[k]
  BY <1>1
<1> QED
  BY <1>2 DEF Socket!Final

LEMMA KeptFinals ==
    ASSUME SocketTyped, NEW f \in FramesIn, consumed' = Append(consumed, f), NEW k \in 0..Len(consumed)
    PROVE  /\ Socket!Finals(k)' = Socket!Finals(k)
           /\ IsFiniteSet(Socket!Finals(k)) /\ Cardinality(Socket!Finals(k)) \in 0..k
<1>1. /\ Len(consumed) \in Nat
      /\ \A j \in 1..Len(consumed) : Socket!Final(j)' <=> Socket!Final(j)
  BY Kept
<1>2. Socket!Finals(k)' = {j \in 1..k : Socket!Final(j)'}
  BY DEF Socket!Finals
<1>3. Socket!Finals(k)' = Socket!Finals(k)
  BY <1>1, <1>2 DEF Socket!Finals
<1>4. Socket!Finals(k) \subseteq 1..k /\ k \in Nat
  BY <1>1 DEF Socket!Finals
<1>5. IsFiniteSet(1..k) /\ Cardinality(1..k) = k
  BY <1>4, FS_Interval
<1> QED
  BY <1>3, <1>4, <1>5, FS_Subset, FS_CardinalityType

LEMMA KeptParts ==
    ASSUME SocketTyped, NEW f \in FramesIn, consumed' = Append(consumed, f), NEW a \in 0..Len(consumed)
    PROVE  /\ \A k \in 0..(Len(consumed) + 1) : Socket!Begins(a, k)' <=> Socket!Begins(a, k)
           /\ \A b \in 1..Len(consumed) : Socket!Leads(a, b)' <=> Socket!Leads(a, b)
           /\ \A k \in a..Len(consumed) : SubSeq(consumed', a + 1, k) = SubSeq(consumed, a + 1, k)
           /\ SubSeq(consumed', a + 1, Len(consumed) + 1) = Append(SubSeq(consumed, a + 1,
                Len(consumed)), f)
<1> DEFINE n == Len(consumed)
<1>1. /\ n \in Nat /\ Len(consumed') = n + 1 /\ consumed'[n + 1] = f
      /\ \A k \in 1..n : consumed'[k] = consumed[k] /\ (Socket!Final(k)' <=> Socket!Final(k))
  BY Kept
<1> HIDE DEF n
<1>2. a \in 0..n /\ (a # 0 => a \in 1..n)
  BY <1>1 DEF n
<1>3. ASSUME NEW k \in 0..(n + 1) PROVE Socket!Begins(a, k)' <=> Socket!Begins(a, k)
  <2>1. \A j \in (a + 1)..(k - 1) : j \in 1..n
    BY <1>1, <1>2
  <2> QED
    BY <1>1, <1>2, <2>1 DEF Socket!Begins
<1>4. ASSUME NEW b \in 1..n PROVE Socket!Leads(a, b)' <=> Socket!Leads(a, b)
  <2>1. \A j \in (a + 1)..(b - 1) : j \in 1..n
    BY <1>1, <1>2
  <2> QED
    BY <1>1, <2>1 DEF Socket!Leads
<1>5. consumed \in Seq(FramesIn) /\ consumed' = Append(consumed, f) /\ consumed' \in Seq(FramesIn)
  BY DEF SocketTyped
<1>6. ASSUME NEW k \in a..n PROVE SubSeq(consumed', a + 1, k) = SubSeq(consumed, a + 1, k)
  BY <1>1, <1>2, <1>5, SMTT(20) DEF n
<1>7. SubSeq(consumed', a + 1, n + 1) = Append(SubSeq(consumed, a + 1, n), f)
  <2> DEFINE u == SubSeq(consumed', a + 1, n + 1)
             s == SubSeq(consumed, a + 1, n)
             w == Append(s, f)
  <2>1. s \in Seq(FramesIn) /\ Len(s) = n - a /\ \A i \in 1..(n - a) : s[i] = consumed[a + i]
    BY <1>1, <1>2, <1>5 DEF n
  <2>2. u \in Seq(FramesIn) /\ Len(u) = n + 1 - a /\ \A i \in 1..(n + 1 - a) : u[i] = consumed'[a + i]
    BY <1>1, <1>2, <1>5
  <2> HIDE DEF s, u
  <2>3. w \in Seq(FramesIn) /\ Len(w) = n - a + 1 /\ w[n - a + 1] = f
        /\ \A i \in 1..(n - a) : w[i] = s[i]
    BY <2>1
  <2>4. ASSUME NEW i \in 1..(n + 1 - a) PROVE u[i] = w[i]
    <3>1. CASE i = n + 1 - a
      BY <1>1, <1>2, <2>2, <2>3, <3>1
    <3>2. CASE i # n + 1 - a
      <4>1. i \in 1..(n - a) /\ a + i \in 1..n
        BY <1>1, <1>2, <3>2
      <4> QED
        BY <1>1, <2>1, <2>2, <2>3, <4>1
    <3> QED
      BY <3>1, <3>2
  <2> HIDE DEF w
  <2>5. Len(u) = Len(w) /\ \A i \in 1..Len(u) : u[i] = w[i]
    BY <1>1, <1>2, <2>2, <2>3, <2>4
  <2>6. u = w
    BY <2>2, <2>3, <2>5, SeqEqual
  <2> QED
    BY <2>6 DEF u, w, s
<1> QED
  BY <1>3, <1>4, <1>6, <1>7 DEF n

\* A message that was over is not touched again.
LEMMA WholeKept ==
    ASSUME SocketTyped, NEW f \in FramesIn, consumed' = Append(consumed, f),
           NEW k \in Socket!Finals(Len(consumed)), Socket!Whole(k), NEW r,
               r = Cardinality(Socket!Finals(Len(consumed))),
           Len(returned) = r, \A i \in 1..r : returned'[i] = returned[i]
    PROVE  Socket!Whole(k)'
<1>1. Len(consumed) \in Nat /\ k \in 1..Len(consumed) /\ k \in 0..Len(consumed) /\ Socket!Final(k)
  BY Kept DEF Socket!Finals
<1>2. Cardinality(Socket!Finals(k)) \in 1..r
  <2>1. /\ IsFiniteSet(Socket!Finals(Len(consumed)))
             /\ Cardinality(Socket!Finals(Len(consumed))) \in Nat
        /\ IsFiniteSet(Socket!Finals(k)) /\ Cardinality(Socket!Finals(k)) \in Nat
    BY <1>1, KeptFinals, FS_CardinalityType
  <2>2. Socket!Finals(k) \subseteq Socket!Finals(Len(consumed)) /\ k \in Socket!Finals(k)
    BY <1>1 DEF Socket!Finals
  <2>3. Cardinality(Socket!Finals(k)) <= r
    BY <2>1, <2>2, FS_Subset
  <2>4. Cardinality(Socket!Finals(k)) # 0
    BY <2>1, <2>2, FS_EmptySet
  <2> QED
    BY <2>1, <2>3, <2>4
<1>3. Socket!Finals(k)' = Socket!Finals(k)
  BY <1>1, KeptFinals
<1>4. returned'[Cardinality(Socket!Finals(k)')] = returned[Cardinality(Socket!Finals(k))]
  BY <1>2, <1>3
<1>5. SUFFICES ASSUME NEW a \in 0..(k - 1), Socket!Begins(a, k)'
               PROVE  /\ returned'[Cardinality(Socket!Finals(k)')].payload
                           = Socket!Flat(SubSeq(consumed', a + 1, k))
                      /\ \A b \in (a + 1)..k : Socket!Leads(a, b)'
                            => returned'[Cardinality(Socket!Finals(k)')].opcode = consumed'[b].opcode
  BY CardinalityIs DEF Socket!Whole
<1>6. a \in 0..Len(consumed) /\ k \in a..Len(consumed) /\ k \in 0..(Len(consumed) + 1)
  BY <1>1
<1>7. Socket!Begins(a, k) /\ SubSeq(consumed', a + 1, k) = SubSeq(consumed, a + 1, k)
  BY <1>5, <1>6, KeptParts
<1>8. ASSUME NEW b \in (a + 1)..k, Socket!Leads(a, b)'
      PROVE  returned[Cardinality(Socket!Finals(k))].opcode = consumed'[b].opcode
  <2>1. b \in 1..Len(consumed)
    BY <1>1, <1>6
  <2>2. Socket!Leads(a, b) /\ consumed'[b] = consumed[b]
    BY <1>6, <1>8, <2>1, KeptParts, Kept
  <2> QED
    BY <1>7, <2>2, CardinalityIs DEF Socket!Whole
<1>9. returned[Cardinality(Socket!Finals(k))].payload = Socket!Flat(SubSeq(consumed, a + 1, k))
  BY <1>7, CardinalityIs DEF Socket!Whole
<1> QED
  BY <1>4, <1>7, <1>8, <1>9

\* What a frame more carries.
LEMMA MoreRead ==
    ASSUME Socket!ConnAssumption, SocketTyped, NEW f \in FramesIn, consumed' = Append(consumed, f),
           NEW n, n = Len(consumed), NEW a \in 0..n
    PROVE  /\ Socket!Flat(SubSeq(consumed', a + 1, n)) \in Seq(Socket!Pieces)
           /\ Socket!Flat(SubSeq(consumed', a + 1, n + 1)) = Socket!Flat(SubSeq(consumed', a + 1,
                n)) \o Socket!Carried(f)
           /\ ~Socket!OfData(f) => Socket!Flat(SubSeq(consumed', a + 1, n + 1))
                = Socket!Flat(SubSeq(consumed', a + 1, n))
<1>1. n \in Nat /\ consumed \in Seq(FramesIn)
  BY DEF SocketTyped
<1>2. /\ SubSeq(consumed', a + 1, n) = SubSeq(consumed, a + 1, n)
      /\ SubSeq(consumed', a + 1, n + 1) = Append(SubSeq(consumed, a + 1, n), f)
  <2>1. n \in a..n
    BY <1>1
  <2> QED
    BY <2>1, KeptParts
<1> DEFINE s == SubSeq(consumed, a + 1, n)
<1>3. s \in Seq(FramesIn)
  BY <1>1
<1> HIDE DEF s
<1>4. Socket!Flat(s) \in Seq(Socket!Pieces)
      /\ Socket!Flat(Append(s, f)) = Socket!Flat(s) \o Socket!Carried(f)
  BY <1>3, FlatMore
<1>5. ~Socket!OfData(f) => Socket!Flat(s) \o Socket!Carried(f) = Socket!Flat(s)
  BY <1>4 DEF Socket!Carried
<1> QED
  BY <1>2, <1>4, <1>5 DEF s

\* After the frame n, whatever is read next.
LEMMA RestKept ==
    ASSUME SocketTyped, NEW f \in FramesIn, consumed' = Append(consumed, f), NEW n, n = Len(consumed),
           message' = message, fragOpcode' = fragOpcode
    PROVE  /\ OpenAfter(n)' <=> OpenAfter(n)
           /\ Socket!Rest(n) => Socket!Rest(n)'
           /\ OfOne(n) => OfOne(n)'
<1>1. /\ n \in Nat /\ Len(consumed') = n + 1
      /\ \A k \in 1..n : consumed'[k] = consumed[k] /\ (Socket!Final(k)' <=> Socket!Final(k))
  BY Kept
<1>2. OpenAfter(n)' <=> OpenAfter(n)
  <2>1. \A k \in 1..n : \A j \in k..n : j \in 1..n
    BY <1>1
  <2>2. OpenAfter(n)' <=> \E k \in 1..n : Socket!OfData(consumed'[k])
        /\ \A j \in k..n : ~Socket!Final(j)'
    BY DEF OpenAfter
  <2> QED
    BY <1>1, <2>1, <2>2 DEF OpenAfter
<1>3. ASSUME NEW a \in 0..n
      PROVE  /\ Socket!Begins(a, n + 1)' <=> Socket!Begins(a, n + 1)
             /\ SubSeq(consumed', a + 1, n) = SubSeq(consumed, a + 1, n)
             /\ \A b \in (a + 1)..n : (Socket!Leads(a, b)' <=> Socket!Leads(a, b))
                  /\ consumed'[b] = consumed[b]
  <2>1. a \in 0..Len(consumed) /\ n \in a..Len(consumed) /\ n + 1 \in 0..(Len(consumed) + 1)
    BY <1>1
  <2>2. \A b \in (a + 1)..n : b \in 1..Len(consumed)
    BY <1>1, <2>1
  <2> QED
    BY <1>1, <2>1, <2>2, KeptParts
<1>4. Socket!Rest(n) => Socket!Rest(n)'
  BY <1>3 DEF Socket!Rest
<1>5. OfOne(n) => OfOne(n)'
  BY <1>3 DEF OfOne
<1> QED
  BY <1>2, <1>4, <1>5

\* The frame the connection fails over changes nothing of what was read.
LEMMA Refuses ==
    ASSUME SocketTyped, MessageTyped, OpenMessage, Socket!Joined, Socket!ReturnedWell,
           Socket!Failure = "none",
           NEW f \in FramesIn, consumed' = Append(consumed, f), Socket!Failure' # "none",
           UNCHANGED <<message, opcode, fragOpcode, validator, returned>>
    PROVE  MessageTyped' /\ OpenMessage' /\ Socket!Joined' /\ Socket!ReturnedWell'
<1>1. PICK n \in Nat : n = Len(consumed)
  BY DEF SocketTyped
<1>2. Len(consumed') = n + 1
  BY <1>1, Kept
<1>3. Socket!Accepted = n /\ Socket!Accepted' = n
  BY <1>1, <1>2 DEF Socket!Accepted
<1>4. MessageTyped'
  BY <1>1, <1>2 DEF MessageTyped
<1>5. (OpenAfter(n)' <=> OpenAfter(n)) /\ Socket!Rest(n)' /\ OfOne(n)'
  BY <1>1, <1>3, RestKept DEF Socket!Joined, OpenMessage
<1>6. OpenMessage'
  BY <1>3, <1>5 DEF OpenMessage
<1>7. n \in 0..Len(consumed) /\ Socket!Finals(n)' = Socket!Finals(n)
      /\ Len(returned) = Cardinality(Socket!Finals(n))
  BY <1>1, <1>3, KeptFinals, CardinalityIs DEF Socket!Joined
<1>8. ASSUME NEW k \in Socket!Finals(n) PROVE Socket!Whole(k)'
  BY <1>1, <1>3, <1>7, WholeKept DEF Socket!Joined
<1>9. Socket!Joined'
  BY <1>3, <1>5, <1>7, <1>8 DEF Socket!Joined
<1> QED
  BY <1>4, <1>6, <1>9 DEF Socket!ReturnedWell

\* A frame that is no data passes by.
LEMMA Passes ==
    ASSUME Socket!ConnAssumption, SocketTyped, MessageTyped, OpenMessage, Socket!Joined,
           Socket!ReturnedWell, Socket!Failure = "none",
           NEW f \in FramesIn, consumed' = Append(consumed, f), Socket!Failure' = "none",
               ~Socket!OfData(f),
           UNCHANGED <<message, opcode, fragOpcode, validator, returned>>
    PROVE  MessageTyped' /\ OpenMessage' /\ Socket!Joined' /\ Socket!ReturnedWell'
<1>1. PICK n \in Nat : n = Len(consumed)
  BY DEF SocketTyped
<1>2. /\ Len(consumed') = n + 1 /\ consumed'[n + 1] = f /\ ~Socket!Final(n + 1)'
      /\ \A k \in 1..n : consumed'[k] = consumed[k] /\ (Socket!Final(k)' <=> Socket!Final(k))
  BY <1>1, Kept
<1>3. Socket!Accepted = n /\ Socket!Accepted' = n + 1
  BY <1>1, <1>2 DEF Socket!Accepted
<1>4. MessageTyped'
  BY <1>1, <1>2 DEF MessageTyped
<1>5. (OpenAfter(n)' <=> OpenAfter(n)) /\ Socket!Rest(n)' /\ OfOne(n)'
  BY <1>1, <1>3, RestKept DEF Socket!Joined, OpenMessage
<1>6. OpenAfter(n + 1)' <=> OpenAfter(n)'
  BY <1>2 DEF OpenAfter
<1>7. ASSUME NEW a \in 0..(n + 1), Socket!Begins(a, n + 2)'
      PROVE  a \in 0..n /\ Socket!Begins(a, n + 1)'
  BY <1>2, <1>7 DEF Socket!Begins
<1>8. ASSUME NEW a \in 0..(n + 1), Socket!Begins(a, n + 2)'
      PROVE  message' = Socket!Flat(SubSeq(consumed', a + 1, n + 1))
  <2>1. a \in 0..n /\ message' = Socket!Flat(SubSeq(consumed', a + 1, n))
    BY <1>5, <1>7, <1>8 DEF Socket!Rest
  <2> QED
    BY <1>1, <2>1, MoreRead DEF Socket!Carried
<1>9. OfOne(n + 1)'
  <2> SUFFICES ASSUME NEW a \in 0..(n + 1), Socket!Begins(a, n + 2)', NEW b \in (a + 1)..(n + 1),
      Socket!Leads(a, b)'
               PROVE  consumed'[b].opcode = fragOpcode'
    BY <1>1 DEF OfOne
  <2>1. b # n + 1
    BY <1>2 DEF Socket!Leads
  <2>2. b \in (a + 1)..n
    BY <2>1
  <2> QED
    BY <1>5, <1>7, <2>2 DEF OfOne
<1>10. OpenMessage'
  BY <1>3, <1>5, <1>6, <1>9 DEF OpenMessage
<1>11. n \in 0..Len(consumed) /\ Socket!Finals(n)' = Socket!Finals(n)
       /\ Len(returned) = Cardinality(Socket!Finals(n))
  BY <1>1, <1>3, KeptFinals, CardinalityIs DEF Socket!Joined
<1>12. Socket!Finals(n + 1)' = Socket!Finals(n)'
  BY <1>2 DEF Socket!Finals
<1>13. ASSUME NEW k \in Socket!Finals(n) PROVE Socket!Whole(k)'
  BY <1>1, <1>3, <1>11, WholeKept DEF Socket!Joined
<1>14. Socket!Rest(n + 1)'
  BY <1>1, <1>8 DEF Socket!Rest
<1>15. Socket!Joined'
  BY <1>3, <1>11, <1>12, <1>13, <1>14 DEF Socket!Joined
<1> QED
  BY <1>4, <1>10, <1>15 DEF Socket!ReturnedWell

\* A data frame in its place: the type of its message, its text, its size.
Kind(f) == IF f.opcode = "continuation" THEN fragOpcode ELSE f.opcode
Valid(f) == Socket!Validated(Socket!ValidatorFor(f), f.payload)
WholeMessage(f) == [opcode |-> Kind(f), payload |-> message \o f.payload]

Fits(f) ==
    /\ ~Socket!TooLarge(f)
    /\ ~Socket!BadFragment(f)
    /\ Kind(f) = "text" => ~Socket!BadText(f, Valid(f))

LEMMA DataIs ==
    ASSUME Socket!ConnAssumption, NEW f \in Socket!DataFrames
    PROVE  /\ f.opcode \in {"text", "binary", "continuation"} /\ f.final \in BOOLEAN
           /\ f.payload \in Seq(Socket!Pieces) /\ Socket!OfData(f) /\ Socket!Carried(f) = f.payload
                /\ f \in FramesIn
<1>1. f.opcode \in {"text", "binary", "continuation"} /\ f.final \in BOOLEAN /\ f.payload \in Payloads
  BY DEF Socket!DataFrames, Socket!Frame
<1>2. Socket!OfData(f)
  BY <1>1 DEF Socket!OfData, Socket!Control
<1> QED
  BY <1>1, <1>2 DEF Socket!ConnAssumption, Socket!Carried, FramesIn

LEMMA FitsIs ==
    ASSUME Socket!ConnAssumption, MessageTyped, OpenMessage, NEW f \in Socket!DataFrames,
           ~Socket!BadFragment(f)
    PROVE  /\ Kind(f) \in {"text", "binary"}
           /\ f.opcode = "continuation" <=> fragOpcode # "none"
           /\ message \o f.payload \in Seq(Socket!Pieces)
           /\ Len(message \o f.payload) = Len(message) + Len(f.payload)
           /\ Kind(f) = "text" => Valid(f) = Socket!Validated("clean", message \o f.payload)
           /\ Valid(f) \in Validities
           /\ Socket!ValidatorFor(f) \in Validities
<1>1. /\ f.opcode \in {"text", "binary", "continuation"} /\ f.payload \in Seq(Socket!Pieces)
      /\ message \in Seq(Socket!Pieces) /\ fragOpcode \in {"none", "text", "binary"}
           /\ validator \in Validities
  BY DataIs DEF MessageTyped
<1>2. f.opcode = "continuation" <=> fragOpcode # "none"
  BY <1>1 DEF Socket!BadFragment
<1>3. Socket!ValidatorFor(f) \in Validities
  BY <1>1 DEF Socket!ValidatorFor, Validities
<1>4. Valid(f) \in Validities
  BY <1>1, <1>3, ValidTyped DEF Valid
<1>5. ASSUME Kind(f) = "text" PROVE Valid(f) = Socket!Validated("clean", message \o f.payload)
  <2>1. CASE f.opcode = "continuation"
    <3>1. validator = Socket!Validated("clean", message) /\ Valid(f) = Socket!Validated(validator,
          f.payload)
      BY <1>5, <2>1 DEF Kind, OpenMessage, Valid, Socket!ValidatorFor
    <3> QED
      BY <1>1, <3>1, ValidConcat DEF Validities
  <2>2. CASE f.opcode # "continuation"
    <3>1. message = <<>> /\ Valid(f) = Socket!Validated("clean", f.payload)
      BY <1>2, <2>2 DEF OpenMessage, Valid, Socket!ValidatorFor
    <3>2. message \o f.payload = f.payload
      BY <1>1, <3>1
    <3> QED
      BY <3>1, <3>2
  <2> QED
    BY <2>1, <2>2
<1>6. Kind(f) \in {"text", "binary"}
  BY <1>1, <1>2 DEF Kind
<1> QED
  BY <1>1, <1>2, <1>3, <1>4, <1>5, <1>6

\* The frame is of the message its predecessors are of.
LEMMA SameKind ==
    ASSUME Socket!ConnAssumption, SocketTyped, MessageTyped, OpenMessage, NEW f \in Socket!DataFrames,
           ~Socket!BadFragment(f),
           consumed' = Append(consumed, f), NEW n \in Nat, n = Len(consumed), n = Socket!Accepted,
           NEW a \in 0..n, Socket!Begins(a, n + 1), NEW b \in (a + 1)..(n + 1), Socket!Leads(a, b)'
    PROVE  consumed'[b].opcode = Kind(f)
<1>1. f \in FramesIn /\ Socket!OfData(f)
  BY DataIs
<1>2. /\ consumed'[n + 1] = f
      /\ \A k \in 1..n : consumed'[k] = consumed[k]
  BY <1>1, Kept
<1>3. f.opcode = "continuation" <=> OpenAfter(n)
  BY FitsIs DEF OpenMessage
<1>4. CASE b \in 1..n
  <2>1. Socket!Leads(a, b)
    BY <1>1, <1>4, KeptParts
  <2>2. consumed[b].opcode = fragOpcode
    BY <1>4, <2>1 DEF OpenMessage, OfOne
  <2>3. OpenAfter(n)
    <3>1. Socket!OfData(consumed[b]) /\ \A j \in b..n : ~Socket!Final(j)
      BY <2>1 DEF Socket!Leads, Socket!Begins
    <3> QED
      BY <1>4, <3>1 DEF OpenAfter
  <2> QED
    BY <1>2, <1>3, <1>4, <2>2, <2>3 DEF Kind
<1>5. CASE b = n + 1
  <2>1. ASSUME OpenAfter(n) PROVE FALSE
    <3>1. PICK k \in 1..n : Socket!OfData(consumed[k]) /\ \A j \in k..n : ~Socket!Final(j)
      BY <2>1 DEF OpenAfter
    <3>2. k \in (a + 1)..n
      BY <3>1 DEF Socket!Begins
    <3>3. k \in (a + 1)..(b - 1)
      BY <1>5, <3>2
    <3>4. ~Socket!OfData(consumed'[k])
      BY <3>3 DEF Socket!Leads
    <3> QED
      BY <1>2, <3>1, <3>4
  <2> QED
    BY <1>2, <1>3, <1>5, <2>1 DEF Kind
<1>6. b \in 1..n \/ b = n + 1
  OBVIOUS
<1> QED
  BY <1>4, <1>5, <1>6

\* A fragment that is not the last.
LEMMA Continues ==
    ASSUME Socket!ConnAssumption, SocketTyped, MessageTyped, OpenMessage, Socket!Joined,
           Socket!ReturnedWell, Socket!Failure = "none",
           NEW f \in Socket!DataFrames, Fits(f), consumed' = Append(consumed, f),
               Socket!Failure' = "none", ~f.final,
           message' = message \o f.payload, opcode' = Kind(f), fragOpcode' = Kind(f),
           validator' = IF Kind(f) = "text" THEN Valid(f) ELSE Socket!ValidatorFor(f),
               returned' = returned
    PROVE  MessageTyped' /\ OpenMessage' /\ Socket!Joined' /\ Socket!ReturnedWell'
<1>1. PICK n \in Nat : n = Len(consumed)
  BY DEF SocketTyped
<1>2. f \in FramesIn /\ Socket!OfData(f) /\ Socket!Carried(f) = f.payload
      /\ f.payload \in Seq(Socket!Pieces)
  BY DataIs
<1>3. /\ Len(consumed') = n + 1 /\ consumed'[n + 1] = f /\ ~Socket!Final(n + 1)'
      /\ \A k \in 1..n : consumed'[k] = consumed[k] /\ (Socket!Final(k)' <=> Socket!Final(k))
  BY <1>1, <1>2, Kept
<1>4. Socket!Accepted = n /\ Socket!Accepted' = n + 1
  BY <1>1, <1>3 DEF Socket!Accepted
<1>5. ~Socket!BadFragment(f) /\ ~Socket!TooLarge(f)
  BY DEF Fits
<1>6. /\ Kind(f) \in {"text", "binary"}
      /\ message \o f.payload \in Seq(Socket!Pieces)
      /\ Len(message \o f.payload) = Len(message) + Len(f.payload)
      /\ Kind(f) = "text" => Valid(f) = Socket!Validated("clean", message \o f.payload)
      /\ Valid(f) \in Validities /\ Socket!ValidatorFor(f) \in Validities
  BY <1>5, FitsIs
<1>7. MessageTyped'
  BY <1>1, <1>3, <1>6 DEF MessageTyped
<1>8. OpenAfter(n + 1)'
  <2>1. n + 1 \in 1..(n + 1) /\ Socket!OfData(consumed'[n + 1])
        /\ \A j \in (n + 1)..(n + 1) : ~Socket!Final(j)'
    BY <1>3, <1>2
  <2> QED
    BY <2>1 DEF OpenAfter
<1>9. ASSUME NEW a \in 0..(n + 1), Socket!Begins(a, n + 2)'
      PROVE  a \in 0..n /\ Socket!Begins(a, n + 1)
  <2>1. a \in 0..n /\ Socket!Begins(a, n + 1)'
    BY <1>3, <1>9 DEF Socket!Begins
  <2>2. a \in 0..Len(consumed) /\ n + 1 \in 0..(Len(consumed) + 1)
    BY <1>1, <2>1
  <2> QED
    BY <1>2, <2>1, <2>2, KeptParts
<1>10. ASSUME NEW a \in 0..(n + 1), Socket!Begins(a, n + 2)'
      PROVE  message' = Socket!Flat(SubSeq(consumed', a + 1, n + 1))
  <2>1. a \in 0..n /\ message = Socket!Flat(SubSeq(consumed, a + 1, n))
    BY <1>4, <1>9, <1>10 DEF Socket!Rest, Socket!Joined
  <2>2. SubSeq(consumed', a + 1, n) = SubSeq(consumed, a + 1, n)
    <3>1. n \in a..n
      BY <2>1
    <3> QED
      BY <1>1, <1>2, <2>1, <3>1, KeptParts
  <2>3. Socket!Flat(SubSeq(consumed', a + 1, n + 1)) = Socket!Flat(SubSeq(consumed', a + 1,
        n)) \o Socket!Carried(f)
    BY <1>1, <1>2, <2>1, MoreRead
  <2> QED
    BY <1>2, <2>1, <2>2, <2>3
<1>11. OfOne(n + 1)'
  <2> SUFFICES ASSUME NEW a \in 0..(n + 1), Socket!Begins(a, n + 2)', NEW b \in (a + 1)..(n + 1),
      Socket!Leads(a, b)'
               PROVE  consumed'[b].opcode = fragOpcode'
    BY <1>1 DEF OfOne
  <2> QED
    BY <1>1, <1>4, <1>9, <1>5, SameKind
<1>12. ReadLimit > 0 => Len(message') <= ReadLimit
  BY <1>6, <1>5 DEF Socket!TooLarge, Socket!ConnAssumption, MessageTyped
<1>13. OpenMessage'
  BY <1>4, <1>6, <1>8, <1>11, <1>12 DEF OpenMessage
<1>14. n \in 0..Len(consumed) /\ Socket!Finals(n)' = Socket!Finals(n)
       /\ Len(returned) = Cardinality(Socket!Finals(n))
  BY <1>1, <1>4, <1>2, KeptFinals, CardinalityIs DEF Socket!Joined
<1>15. Socket!Finals(n + 1)' = Socket!Finals(n)'
  BY <1>3 DEF Socket!Finals
<1>16. ASSUME NEW k \in Socket!Finals(n) PROVE Socket!Whole(k)'
  BY <1>1, <1>4, <1>14, <1>2, WholeKept DEF Socket!Joined
<1>17. Socket!Rest(n + 1)'
  BY <1>1, <1>10 DEF Socket!Rest
<1>18. Socket!Joined'
  BY <1>4, <1>14, <1>15, <1>16, <1>17 DEF Socket!Joined
<1> QED
  BY <1>7, <1>13, <1>18 DEF Socket!ReturnedWell

\* The last fragment of a message, which is returned.
LEMMA Returns ==
    ASSUME Socket!ConnAssumption, SocketTyped, MessageTyped, OpenMessage, Socket!Joined,
           Socket!ReturnedWell, Socket!Failure = "none",
           NEW f \in Socket!DataFrames, Fits(f), consumed' = Append(consumed, f),
               Socket!Failure' = "none", f.final,
           message' = <<>>, opcode' = Kind(f), fragOpcode' = "none",
           validator' = IF Kind(f) = "text" THEN Valid(f) ELSE Socket!ValidatorFor(f),
           returned' = Append(returned, WholeMessage(f))
    PROVE  MessageTyped' /\ OpenMessage' /\ Socket!Joined' /\ Socket!ReturnedWell'
<1>1. PICK n \in Nat : n = Len(consumed)
  BY DEF SocketTyped
<1>2. f \in FramesIn /\ Socket!OfData(f) /\ Socket!Carried(f) = f.payload
      /\ f.payload \in Seq(Socket!Pieces)
  BY DataIs
<1>3. /\ Len(consumed') = n + 1 /\ consumed'[n + 1] = f /\ Socket!Final(n + 1)'
      /\ \A k \in 1..n : consumed'[k] = consumed[k] /\ (Socket!Final(k)' <=> Socket!Final(k))
  BY <1>1, <1>2, Kept
<1>4. Socket!Accepted = n /\ Socket!Accepted' = n + 1
  BY <1>1, <1>3 DEF Socket!Accepted
<1>5. ~Socket!BadFragment(f) /\ ~Socket!TooLarge(f)
  BY DEF Fits
<1> DEFINE m == WholeMessage(f)
           r == Len(returned)
<1>6. /\ Kind(f) \in {"text", "binary"}
      /\ message \o f.payload \in Seq(Socket!Pieces)
      /\ Len(message \o f.payload) = Len(message) + Len(f.payload)
      /\ Kind(f) = "text" => Valid(f) = Socket!Validated("clean", message \o f.payload)
      /\ Valid(f) \in Validities /\ Socket!ValidatorFor(f) \in Validities
  BY <1>5, FitsIs
<1>7. /\ m \in [opcode : {"text", "binary"}, payload : Seq(Socket!Pieces)]
      /\ returned \in Seq([opcode : {"text", "binary"}, payload : Seq(Socket!Pieces)])
  BY <1>6 DEF MessageTyped, WholeMessage
<1>8. PICK q \in Nat : q = r
  BY <1>7
<1>9. /\ returned' \in Seq([opcode : {"text", "binary"}, payload : Seq(Socket!Pieces)])
      /\ Len(returned') = q + 1 /\ returned'[q + 1] = m
      /\ \A i \in 1..q : returned'[i] = returned[i]
  <2> DEFINE M == [opcode : {"text", "binary"}, payload : Seq(Socket!Pieces)]
  <2>1. returned' = Append(returned, m)
    OBVIOUS
  <2> HIDE DEF m, M
  <2>2. m \in M /\ returned \in Seq(M)
    BY <1>7 DEF M
  <2>3. /\ returned' \in Seq(M) /\ Len(returned') = Len(returned) + 1
        /\ returned'[Len(returned) + 1] = m
        /\ \A i \in 1..Len(returned) : returned'[i] = returned[i]
    BY <2>1, <2>2, AppendProperties
  <2> QED
    BY <1>8, <2>3 DEF M
<1>10. MessageTyped'
  BY <1>1, <1>3, <1>6, <1>9 DEF MessageTyped
<1>11. ~OpenAfter(n + 1)'
  BY <1>3 DEF OpenAfter
<1>12. ASSUME NEW a \in 0..(n + 1), Socket!Begins(a, n + 2)' PROVE a = n + 1
  <2>1. CASE a \in 0..n
    <3>1. n + 1 \in (a + 1)..((n + 2) - 1)
      BY <2>1
    <3> QED
      BY <1>3, <1>12, <3>1 DEF Socket!Begins
  <2> QED
    BY <2>1
<1>13. Socket!Rest(n + 1)'
  <2>1. SubSeq(consumed', (n + 1) + 1, n + 1) = <<>>
    <3>1. consumed' \in Seq(FramesIn)
      BY <1>2 DEF SocketTyped
    <3> QED
      BY <1>1, <3>1
  <2>2. Socket!Flat(<<>>) = <<>>
    BY <1>2, FlatMore DEF SocketTyped
  <2> SUFFICES ASSUME NEW a \in 0..(n + 1), Socket!Begins(a, (n + 1) + 1)'
               PROVE  message' = Socket!Flat(SubSeq(consumed', a + 1, n + 1))
    BY DEF Socket!Rest
  <2>3. (n + 1) + 1 = n + 2
    OBVIOUS
  <2> QED
    BY <1>12, <2>1, <2>2, <2>3
<1>14. OfOne(n + 1)'
  <2> SUFFICES ASSUME NEW a \in 0..(n + 1), Socket!Begins(a, (n + 1) + 1)', NEW b \in (a + 1)..(n + 1),
      Socket!Leads(a, b)'
               PROVE  consumed'[b].opcode = fragOpcode'
    BY DEF OfOne
  <2>1. a = n + 1
    BY <1>12
  <2> QED
    BY <2>1
<1>15. OpenMessage'
  BY <1>4, <1>14, <1>11 DEF OpenMessage, Socket!ConnAssumption
<1>16. /\ n \in 0..Len(consumed) /\ Socket!Finals(n)' = Socket!Finals(n)
            /\ q = Cardinality(Socket!Finals(n))
       /\ IsFiniteSet(Socket!Finals(n)) /\ Socket!Finals(n) \subseteq 1..n
  <2>1. n \in 0..Len(consumed) /\ Socket!Finals(n) \subseteq 1..n
    BY <1>1 DEF Socket!Finals
  <2>2. Len(returned) = Cardinality(Socket!Finals(n))
    BY <1>4, CardinalityIs DEF Socket!Joined
  <2> QED
    BY <1>8, <1>2, <2>1, <2>2, KeptFinals
<1>17. Socket!Finals(n + 1)' = Socket!Finals(n) \union {n + 1} /\ n + 1 \notin Socket!Finals(n)
  <2>1. Socket!Finals(n + 1)' = {k \in 1..(n + 1) : Socket!Final(k)'}
        /\ Socket!Finals(n)' = {k \in 1..n : Socket!Final(k)'}
    BY DEF Socket!Finals
  <2> QED
    BY <1>3, <1>16, <2>1
<1>18. Cardinality(Socket!Finals(n + 1)') = q + 1
  BY <1>16, <1>17, FS_AddElement
<1>19. ASSUME NEW k \in Socket!Finals(n) PROVE Socket!Whole(k)'
  BY <1>1, <1>4, <1>8, <1>16, <1>2, <1>9, WholeKept DEF Socket!Joined
<1>20. Socket!Whole(n + 1)'
  <2> SUFFICES ASSUME NEW a \in 0..((n + 1) - 1), Socket!Begins(a, n + 1)'
               PROVE  /\ m.payload = Socket!Flat(SubSeq(consumed', a + 1, n + 1))
                      /\ \A b \in (a + 1)..(n + 1) : Socket!Leads(a, b)'
                           => m.opcode = consumed'[b].opcode
    BY <1>9, <1>18, CardinalityIs DEF Socket!Whole
  <2>1. /\ a \in 0..n /\ n \in a..n
        /\ a \in 0..Len(consumed) /\ n \in a..Len(consumed) /\ n + 1 \in 0..(Len(consumed) + 1)
    BY <1>1
  <2>2. Socket!Begins(a, n + 1) /\ SubSeq(consumed', a + 1, n) = SubSeq(consumed, a + 1, n)
    BY <1>2, <2>1, KeptParts
  <2>3. message = Socket!Flat(SubSeq(consumed, a + 1, n))
    BY <1>4, <2>1, <2>2 DEF Socket!Joined, Socket!Rest
  <2>4. Socket!Flat(SubSeq(consumed', a + 1, n + 1)) = Socket!Flat(SubSeq(consumed', a + 1,
        n)) \o Socket!Carried(f)
    BY <1>1, <1>2, <2>1, MoreRead
  <2>5. m.payload = message \o f.payload /\ m.opcode = Kind(f)
    BY DEF WholeMessage
  <2>6. \A b \in (a + 1)..(n + 1) : Socket!Leads(a, b)' => Kind(f) = consumed'[b].opcode
    BY <1>1, <1>4, <1>5, <2>1, <2>2, SameKind
  <2> QED
    BY <1>2, <2>2, <2>3, <2>4, <2>5, <2>6
<1>21. Socket!Joined'
  <2>1. \A k \in Socket!Finals(n + 1)' : Socket!Whole(k)'
    BY <1>17, <1>19, <1>20
  <2> QED
    BY <1>4, <1>13, <1>9, <1>18, <2>1, CardinalityIs DEF Socket!Joined
<1>22. Socket!ReturnedWell'
  <2>1. Kind(f) = "text" => Socket!Validated("clean", message \o f.payload) = "clean"
    BY <1>6 DEF Fits, Socket!BadText, Validities
  <2>2. ReadLimit > 0 => Len(message \o f.payload) <= ReadLimit
    BY <1>6, <1>5, <1>2 DEF Socket!TooLarge, Socket!ConnAssumption, MessageTyped
  <2>3. m.payload = message \o f.payload /\ m.opcode = Kind(f)
    BY DEF WholeMessage
  <2> HIDE DEF m
  <2>4. ASSUME NEW i \in 1..(q + 1)
        PROVE  /\ returned'[i].opcode = "text"
                    => Socket!Validated("clean", returned'[i].payload) = "clean"
               /\ ReadLimit > 0 => Len(returned'[i].payload) <= ReadLimit
    <3>1. CASE i = q + 1
      BY <1>9, <2>1, <2>2, <2>3, <3>1
    <3>2. CASE i # q + 1
      <4>1. i \in 1..q /\ i \in DOMAIN returned
        BY <1>7, <1>8, <3>2
      <4> QED
        BY <1>9, <4>1 DEF Socket!ReturnedWell
    <3> QED
      BY <3>1, <3>2
  <2>5. DOMAIN returned' = 1..(q + 1)
    BY <1>9
  <2> QED
    BY <2>4, <2>5 DEF Socket!ReturnedWell
<1> QED
  BY <1>15, <1>21, <1>22, <1>10

\* A frame that is no data, refused or not.
LEMMA OtherFrame ==
    ASSUME Socket!ConnAssumption, SocketTyped, MessageInv, NEW f \in FramesIn, ~Socket!OfData(f),
           Socket!Takes(f),
           UNCHANGED <<message, opcode, fragOpcode, validator, returned>>
    PROVE  MessageInv'
<1>1. Socket!Failure = "none" /\ consumed' = Append(consumed, f)
  BY DEF Socket!Takes, Socket!Failure
<1>2. MessageTyped' /\ OpenMessage' /\ Socket!Joined' /\ Socket!ReturnedWell'
  <2>1. CASE Socket!Failure' = "none"
    BY <1>1, <2>1, Passes DEF MessageInv
  <2>2. CASE Socket!Failure' # "none"
    BY <1>1, <2>2, Refuses DEF MessageInv
  <2> QED
    BY <2>1, <2>2
<1>3. consumed'[Len(consumed')] = f
  BY <1>1, Kept
<1>4. Socket!RefusedForCause'
  BY <1>3 DEF Socket!RefusedForCause
<1> QED
  BY <1>2, <1>4 DEF MessageInv

\* Data takes the frame or fails over it, and then for one of three reasons.
SocketCause(f, e) ==
    \/ e = "ErrTooLarge" /\ Socket!TooLarge(f)
    \/ e = "ErrBadFragment" /\ Socket!BadFragment(f)
    \/ e = "ErrBadUTF8" /\ ~Socket!BadFragment(f) /\ Kind(f) = "text" /\ Socket!BadText(f, Valid(f))

LEMMA DataCases ==
    ASSUME NEW f \in Socket!DataFrames, Socket!Data(f)
    PROVE  /\ Socket!Takes(f)
           /\ \/ /\ Fits(f)
                 /\ opcode' = Kind(f)
                 /\ validator' = IF Kind(f) = "text" THEN Valid(f) ELSE Socket!ValidatorFor(f)
                 /\ IF f.final
                    THEN /\ returned' = Append(returned, WholeMessage(f))
                         /\ message' = <<>>
                         /\ fragOpcode' = "none"
                    ELSE /\ message' = message \o f.payload
                         /\ fragOpcode' = Kind(f)
                         /\ returned' = returned
                 /\ UNCHANGED <<readErr, outcome>>
              \/ /\ UNCHANGED <<message, opcode, fragOpcode, validator, returned>>
                 /\ \E e \in {"ErrTooLarge", "ErrBadFragment", "ErrBadUTF8"} :
                       outcome' = e /\ SocketCause(f, e)
<1> DEFINE wrong == CASE Socket!TooLarge(f) -> "ErrTooLarge"
                      [] ~Socket!TooLarge(f) /\ Socket!BadFragment(f) -> "ErrBadFragment"
                      [] ~Socket!TooLarge(f) /\ ~Socket!BadFragment(f) /\ Kind(f) = "text"
                           /\ Socket!BadText(f, Valid(f)) -> "ErrBadUTF8"
                      [] OTHER -> "none"
<1>1. \/ wrong = "none" /\ Fits(f)
      \/ wrong \in {"ErrTooLarge", "ErrBadFragment", "ErrBadUTF8"} /\ SocketCause(f, wrong)
  BY DEF Fits, SocketCause
<1>2. /\ Socket!Takes(f)
      /\ IF wrong # "none"
         THEN /\ Socket!FailRead(wrong)
              /\ UNCHANGED <<message, opcode, fragOpcode, validator, returned>>
         ELSE /\ opcode' = Kind(f)
              /\ validator' = IF Kind(f) = "text" THEN Valid(f) ELSE Socket!ValidatorFor(f)
              /\ IF f.final
                 THEN /\ returned' = Append(returned, WholeMessage(f))
                      /\ message' = <<>>
                      /\ fragOpcode' = "none"
                 ELSE /\ message' = message \o f.payload
                      /\ fragOpcode' = Kind(f)
                      /\ UNCHANGED returned
              /\ UNCHANGED <<readErr, sending, outcome, broken>>
  BY DEF Socket!Data, Kind, Valid, WholeMessage
<1> HIDE DEF wrong
<1>3. CASE wrong = "none"
  <2>1. Fits(f)
    BY <1>1, <1>3
  <2> QED
    BY <1>2, <1>3, <2>1
<1>4. CASE wrong # "none"
  <2>1. wrong \in {"ErrTooLarge", "ErrBadFragment", "ErrBadUTF8"} /\ SocketCause(f, wrong)
    BY <1>1, <1>4
  <2>2. outcome' = wrong
    BY <1>2, <1>4, <2>1 DEF Socket!FailRead, Socket!isTransport
  <2> QED
    BY <1>2, <1>4, <2>1, <2>2
<1> QED
  BY <1>3, <1>4

LEMMA DataStep ==
    ASSUME Socket!ConnAssumption, SocketTyped, MessageInv, NEW f \in Socket!DataFrames, Socket!Data(f)
    PROVE  MessageInv'
<1>1. Socket!Takes(f) /\ Socket!Failure = "none" /\ consumed' = Append(consumed, f) /\ outcome = "none"
      /\ readErr = "none"
  BY DataCases DEF Socket!Takes, Socket!Failure
<1>2. f \in FramesIn /\ Socket!OfData(f) /\ f.payload \in Seq(Socket!Pieces) /\ f.final \in BOOLEAN
  BY DataIs
<1>3. CASE /\ Fits(f)
           /\ opcode' = Kind(f)
           /\ validator' = IF Kind(f) = "text" THEN Valid(f) ELSE Socket!ValidatorFor(f)
           /\ IF f.final
              THEN /\ returned' = Append(returned, WholeMessage(f))
                   /\ message' = <<>>
                   /\ fragOpcode' = "none"
              ELSE /\ message' = message \o f.payload
                   /\ fragOpcode' = Kind(f)
                   /\ returned' = returned
           /\ UNCHANGED <<readErr, outcome>>
  <2>1. Socket!Failure' = "none"
    BY <1>1, <1>3 DEF Socket!Failure
  <2>2. Socket!RefusedForCause'
    BY <2>1 DEF Socket!RefusedForCause
  <2>3. CASE f.final
    BY <1>1, <1>3, <2>1, <2>2, <2>3, Returns DEF MessageInv
  <2>4. CASE ~f.final
    BY <1>1, <1>3, <2>1, <2>2, <2>4, Continues DEF MessageInv
  <2> QED
    BY <2>3, <2>4
<1>4. ASSUME UNCHANGED <<message, opcode, fragOpcode, validator, returned>>,
             NEW e \in {"ErrTooLarge", "ErrBadFragment", "ErrBadUTF8"}, outcome' = e, SocketCause(f, e)
      PROVE  MessageInv'
  <2>1. Socket!Failure' = e /\ Socket!Failure' # "none"
    BY <1>4 DEF Socket!Failure
  <2>2. MessageTyped' /\ OpenMessage' /\ Socket!Joined' /\ Socket!ReturnedWell'
    BY <1>1, <1>2, <1>4, <2>1, Refuses DEF MessageInv
  <2>3. consumed'[Len(consumed')] = f
    BY <1>1, <1>2, Kept
  <2>4. MessageTyped /\ OpenMessage /\ message \in Seq(Socket!Pieces)
    BY DEF MessageInv, MessageTyped
  <2>5. CASE e = "ErrTooLarge"
    <3>1. ReadLimit \in Nat /\ MaxControl \in Nat /\ Len(message) \in Nat /\ Len(f.payload) \in Nat
      BY <1>2, <2>4 DEF Socket!ConnAssumption
    <3>2. ReadLimit > 0 /\ Len(message) + Len(f.payload) > ReadLimit
      BY <1>4, <2>5, <3>1 DEF SocketCause, Socket!TooLarge, Socket!FrameLimit
    <3>3. Len(message \o f.payload) = Len(message) + Len(f.payload)
      BY <1>2, <2>4
    <3> QED
      BY <1>4, <2>1, <2>2, <2>3, <2>5, <3>2, <3>3 DEF Socket!RefusedForCause, MessageInv
  <2>6. CASE e = "ErrBadFragment"
    <3>1. fragOpcode' # "none" <=> Socket!Open'
      BY <2>2 DEF OpenMessage, OpenAfter, Socket!Open
    <3>2. (f.opcode = "continuation") # (fragOpcode' # "none")
      BY <1>4, <2>6 DEF SocketCause, Socket!BadFragment
    <3>3. (f.opcode = "continuation") # Socket!Open'
      BY <3>1, <3>2 DEF Socket!Open
    <3> QED
      BY <1>4, <2>1, <2>2, <2>3, <2>6, <3>3 DEF Socket!RefusedForCause, MessageInv
  <2>7. CASE e = "ErrBadUTF8"
    <3>1. ~Socket!BadFragment(f) /\ Kind(f) = "text" /\ Socket!BadText(f, Valid(f))
      BY <1>4, <2>7 DEF SocketCause
    <3>2. Socket!Validated("clean", message \o f.payload) = Valid(f)
      BY <2>4, <3>1, FitsIs
    <3>3. Valid(f) \in (IF f.final THEN {"bad", "owing"} ELSE {"bad"})
      BY <1>2, <3>1 DEF Socket!BadText
    <3>4. (IF f.opcode # "continuation" THEN f.opcode ELSE fragOpcode') = "text"
      BY <1>4, <3>1 DEF Kind
    <3> QED
      BY <1>4, <2>1, <2>2, <2>3, <2>7, <3>2, <3>3, <3>4 DEF Socket!RefusedForCause, MessageInv
  <2> QED
    BY <2>5, <2>6, <2>7
<1> QED
  BY <1>3, <1>4, DataCases

\* What the writers do, and the end of the reader, leave what was read alone.
LEMMA SameMessages ==
    ASSUME MessageInv, UNCHANGED <<consumed, message, opcode, fragOpcode, validator, returned>>,
           Socket!Failure' = Socket!Failure
    PROVE  MessageInv'
<1>1. Socket!Accepted' = Socket!Accepted
  BY DEF Socket!Accepted
<1>2. \A k : (Socket!Final(k)' <=> Socket!Final(k)) /\ Socket!Finals(k)' = Socket!Finals(k)
  BY DEF Socket!Final, Socket!Finals
<1>3. \A a, k : (Socket!Begins(a, k)' <=> Socket!Begins(a, k))
      /\ (Socket!Leads(a, k)' <=> Socket!Leads(a, k))
  BY <1>2 DEF Socket!Begins, Socket!Leads
<1>4. MessageTyped'
  BY DEF MessageInv, MessageTyped
<1>5. OpenMessage'
  BY <1>1, <1>2, <1>3 DEF MessageInv, OpenMessage, OpenAfter, OfOne
<1>6. Socket!Joined'
  BY <1>1, <1>2, <1>3 DEF MessageInv, Socket!Joined, Socket!Whole, Socket!Rest
<1>7. Socket!ReturnedWell'
  BY DEF MessageInv, Socket!ReturnedWell
<1>8. Socket!RefusedForCause'
  BY <1>1, <1>2 DEF MessageInv, Socket!RefusedForCause, Socket!Open
<1> QED
  BY <1>4, <1>5, <1>6, <1>7, <1>8 DEF MessageInv

LEMMA MessageStep ==
    ASSUME Socket!ConnAssumption, SocketInv, MessageInv, [Socket!Next]_Socket!vars
    PROVE  MessageInv'
<1>1. SocketTyped /\ Why
  BY DEF SocketInv
<1>2. ASSUME NEW f \in Socket!DataFrames, Socket!Data(f) PROVE MessageInv'
  BY <1>1, <1>2, DataStep
<1>3. ASSUME NEW f \in Socket!ControlFrames, Socket!Ping(f) \/ Socket!Pong(f) \/ Socket!Close(f)
      PROVE  MessageInv'
  <2>1. f \in FramesIn /\ ~Socket!OfData(f)
    BY <1>3 DEF FramesIn, Socket!OfData, Socket!Control, Socket!ControlFrames, Socket!Frame
  <2>2. Socket!Takes(f) /\ UNCHANGED <<message, opcode, fragOpcode, validator, returned>>
    BY <1>3 DEF Socket!Ping, Socket!Pong, Socket!Close
  <2> QED
    BY <1>1, <2>1, <2>2, OtherFrame
<1>4. ASSUME NEW f \in Socket!Faults, Socket!Fault(f) PROVE MessageInv'
  <2>1. f \in FramesIn /\ ~Socket!OfData(f)
    BY <1>4 DEF FramesIn, Socket!OfData, Socket!Faults, Socket!Frame
  <2>2. Socket!Takes(f) /\ UNCHANGED <<message, opcode, fragOpcode, validator, returned>>
    BY <1>4 DEF Socket!Fault
  <2> QED
    BY <1>1, <2>1, <2>2, OtherFrame
<1>5. CASE Socket!Shut
  BY <1>1, <1>5, SameMessages DEF Socket!Shut, Socket!Ended, Socket!reading, Socket!Failure
<1>6. ASSUME NEW w \in Writers, NEW op \in Written, Socket!WriteMessage(w, op) PROVE MessageInv'
  BY <1>6, SameMessages DEF Socket!WriteMessage, Socket!reading, Socket!Failure
<1>7. ASSUME NEW g \in Socket!Goroutines, Socket!Writes(g) PROVE MessageInv'
  BY <1>7, SameMessages DEF Socket!Writes, Socket!Lock, Socket!Oversize, Socket!WriteHeader,
      Socket!WritePayload, Socket!WriteFails, Socket!reading, Socket!Failure
<1>8. CASE UNCHANGED Socket!vars
  BY <1>8, SameMessages DEF Socket!vars, Socket!Failure
<1> QED
  BY <1>2, <1>3, <1>4, <1>5, <1>6, <1>7, <1>8 DEF Socket!Next

LEMMA MessageInit ==
    ASSUME Socket!ConnAssumption, Socket!Init
    PROVE  MessageInv
<1>1. consumed = <<>> /\ message = <<>> /\ returned = <<>> /\ fragOpcode = "none" /\ validator = "clean"
  BY DEF Socket!Init
<1>2. Socket!Failure = "none" /\ Socket!Accepted = 0 /\ Len(consumed) = 0 /\ Len(returned) = 0
      /\ Len(message) = 0
  BY <1>1 DEF Socket!Init, Socket!Failure, Socket!Accepted
<1>3. Socket!Finals(0) = {} /\ Cardinality(Socket!Finals(0)) = 0
  BY FS_EmptySet DEF Socket!Finals
<1>4. MessageTyped
  BY <1>1, <1>2 DEF MessageTyped, Validities
<1>5. OpenMessage
  BY <1>1, <1>2 DEF OpenMessage, OpenAfter, OfOne, Socket!ConnAssumption
<1>6. Socket!Rest(0)
  <2>1. SubSeq(consumed, 1, 0) = <<>> /\ Socket!Flat(<<>>) = <<>>
    <3>1. Socket!Flat(<<>>) = <<>>
      <4>1. [i \in DOMAIN <<>> |-> Socket!Carried(<<>>[i])] = <<>>
        OBVIOUS
      <4> QED
        BY <4>1, FoldEmpty DEF Socket!Flat
    <3> QED
      BY <1>1, <3>1
  <2>2. \A a \in 0..0 : a = 0 /\ a + 1 = 1
    OBVIOUS
  <2> QED
    BY <1>1, <2>1, <2>2 DEF Socket!Rest
<1>7. Socket!Joined
  BY <1>2, <1>3, <1>6, CardinalityIs DEF Socket!Joined
<1>8. Socket!ReturnedWell /\ Socket!RefusedForCause
  BY <1>1, <1>2 DEF Socket!ReturnedWell, Socket!RefusedForCause
<1> QED
  BY <1>4, <1>5, <1>7, <1>8 DEF MessageInv

LEMMA MessageEnough ==
    ASSUME SocketInv, MessageInv
    PROVE  Socket!MessagesExact
<1>1. Socket!TypeOK
  BY DEF SocketInv, SocketTyped, MessageInv, MessageTyped, Validities, Socket!TypeOK
<1> QED
  BY <1>1 DEF MessageInv, Socket!MessagesExact

LEMMA MessageInvariant == ASSUME Socket!ConnAssumption PROVE Socket!Spec => []MessageInv
<1>1. Socket!Init => MessageInv
  BY MessageInit
<1>2. SocketInv /\ MessageInv /\ [Socket!Next]_Socket!vars => MessageInv'
  BY MessageStep
<1> QED
  BY <1>1, <1>2, SocketInvariant, PTL DEF Socket!Spec

\* What ReadMessage returned is, message by message, the payloads of the data frames it
\* read, joined in their order and under the type of the first, whatever frames came
\* between; every text is whole runes, none is over the limit, and a data frame is
\* refused only for being out of place, too large or no text. The recursion of the
\* joining and of the validator is unfolded by induction over the length (Upward).
THEOREM MessagesAreExact == Socket!Spec => []MessagesExact
<1>1. SocketInv /\ MessageInv => MessagesExact
  BY MessageEnough DEF MessagesExact
<1>2. Socket!Spec => []SocketInv /\ []MessageInv
  BY WsAssumption, SocketInvariant, MessageInvariant, PTL DEF WsAssumption
<1> QED
  BY <1>1, <1>2, PTL

\* What several goroutines write on one connection (WriteMessage, control, failRead,
\* all through Conn.write) comes out as whole frames, a close frame last; every ping
\* is answered with its own payload in its order, and a peer that is failed is told
\* why.
THEOREM WritesAreOrdered == Socket!Spec => []WritesOrdered
<1>1. SocketInv => WritesOrdered
  BY WsAssumption, SocketEnough DEF WsAssumption, WritesOrdered
<1>2. Socket!Spec => []SocketInv
  BY WsAssumption, SocketInvariant DEF WsAssumption
<1> QED
  BY <1>1, <1>2, PTL

\* After an error of ReadMessage nothing more is read: the error stands and no message
\* comes.
THEOREM ErrorsStand == Socket!Spec => Socket!ErrorStands
<1>1. ASSUME SocketInv, [Socket!Next]_Socket!vars, readErr # "none"
      PROVE  readErr' = readErr /\ returned' = returned /\ consumed' = consumed
  <2>1. outcome = "none"
    BY <1>1 DEF SocketInv, Why
  <2>2. \A f : ~Socket!Takes(f)
    BY <1>1 DEF Socket!Takes
  <2> QED
    BY <1>1, <2>1, <2>2
    DEF Socket!Next, Socket!vars, Socket!Data, Socket!Ping, Socket!Pong, Socket!Close, Socket!Fault,
        Socket!Shut, Socket!WriteMessage, Socket!Writes, Socket!Lock, Socket!Oversize,
        Socket!WriteHeader, Socket!WritePayload, Socket!WriteFails, Socket!reading
<1>2. SocketInv /\ [Socket!Next]_Socket!vars
        => [readErr # "none" => readErr' = readErr /\ returned' = returned
            /\ consumed' = consumed]_Socket!vars
  BY <1>1
<1>3. Socket!Spec => []SocketInv
  BY WsAssumption, SocketInvariant DEF WsAssumption
<1> QED
  BY <1>2, <1>3, PTL DEF Socket!Spec, Socket!ErrorStands

-----------------------------------------------------------------------------
(* Handshake, for every timeout, every detour of the request, every canned *)
(* answer and any number of frames and losses. The operators on sequences  *)
(* of segments come first, then one lemma per step.                        *)

\* The segments that carry frames, and the responses a dialer takes for its own.
FrameSegments == {Opening!Segment("frame", f) : f \in 0..MaxSent}
Welcome(r) == r.status = 101 /\ Opening!VerifyAccept(r)

\* What one end wrote is what the other read, what its reader holds and what is on
\* the way.
Flow(wrote, read, buffer, wire) == wrote = read \o Opening!What(buffer \o wire)

OpenTyped ==
    /\ clock \in 0..MaxClock
    /\ cl \in {"idle", "connecting", "requesting", "waiting", "open", "failed"}
    /\ cnet \in {"none", "up", "lost", "closed"}
    /\ cdl \in Opening!Time /\ sdl \in Opening!Time
    /\ askedFor \in Origins \union {None}
    /\ response \in Opening!Response \union {None}
    /\ sv \in {"idle", "bypassed", "refused", "hijacked", "answering", "open", "cut", "failed"}
    /\ snet \in {"http", "up", "closed"}
    /\ up \in Seq(Opening!Segments) /\ down \in Seq(Opening!Segments) /\ cbuf \in Seq(Opening!Segments)
         /\ sbuf \in Seq(Opening!Segments)
    /\ key \in {"own", None}
    /\ said \in BOOLEAN
    /\ cwrote \in Seq(0..MaxSent) /\ swrote \in Seq(0..MaxSent)
    /\ cread \in Seq(0..MaxSent) /\ sread \in Seq(0..MaxSent)
    /\ losses \in 0..MaxLosses

\* The clock of the handshake ends with it.
Untimed == (cl = "open" => cdl = None) /\ (sv = "open" => sdl = None)

\* What has not happened yet has left no trace.
Dialing == cl \in {"idle", "connecting", "requesting"}
Taken == sv \in {"hijacked", "answering", "open"}
Welcomed == sv \in {"open", "cut"}

Ahead ==
    /\ Dialing => sv = "idle" /\ up = <<>> /\ cwrote = <<>>
    /\ sv \in {"idle", "hijacked", "answering"} => down = <<>> /\ sread = <<>>
    /\ sv # "open" => swrote = <<>>
    /\ cl # "open" => cread = <<>>
    /\ Dialing \/ cl = "waiting" => cbuf = <<>>

\* The ends of the connection.
BothEnds ==
    /\ Opening!NothingLeftOpen
    /\ Taken => snet = "up" /\ key = "own"
    /\ sv = "cut" => said
    /\ sv = "answering" => sbuf = <<>>
    /\ losses = 0 /\ cl \in {"requesting", "waiting", "open"} => cnet = "up"
    /\ cl = "waiting" /\ sv = "open" /\ cnet = "up" => down # <<>>

\* A dialer that waits finds a response first, and one that it takes for its own was
\* written by an Upgrade; after it come only frames.
Answer ==
    /\ cl = "waiting" /\ down # <<>> =>
         /\ Head(down).what \in Opening!Response
         /\ ~Welcomed => ~Welcome(Head(down).what)
         /\ Welcomed => Tail(down) \in Seq(FrameSegments)
    /\ cl = "open" => Welcomed /\ cbuf \in Seq(FrameSegments) /\ down \in Seq(FrameSegments)

\* After the request come only frames.
Request ==
    /\ sv = "idle" /\ up # <<>> => Tail(up) \in Seq(FrameSegments)
    /\ Taken => sbuf \in Seq(FrameSegments) /\ up \in Seq(FrameSegments)

FlowsDown ==
    losses = 0 /\ sv = "open" =>
      /\ cl = "waiting" => swrote = Opening!What(Tail(down))
      /\ cl = "open" => Flow(swrote, cread, cbuf, down)

FlowsUp ==
    losses = 0 =>
      /\ cl = "waiting" /\ sv = "idle" => cwrote = Opening!What(Tail(up))
      /\ cl \in {"waiting", "open"} /\ Taken => Flow(cwrote, sread, sbuf, up)

OpenInv == OpenTyped /\ Untimed /\ Ahead /\ BothEnds /\ Answer /\ Request /\ FlowsDown /\ FlowsUp

\* What a sequence of segments carries.
LEMMA WhatIs ==
    ASSUME NEW s \in Seq(FrameSegments)
    PROVE  /\ Opening!What(s) \in Seq(0..MaxSent) /\ Len(Opening!What(s)) = Len(s)
           /\ \A i \in 1..Len(s) : Opening!What(s)[i] = s[i].what /\ s[i].what \in 0..MaxSent
<1>1. \A i \in 1..Len(s) : s[i] \in FrameSegments
  OBVIOUS
<1>2. \A x \in FrameSegments : x.what \in 0..MaxSent
  BY DEF FrameSegments, Opening!Segment
<1>3. Opening!What(s) = [i \in 1..Len(s) |-> s[i].what] /\ Len(s) \in Nat
  BY DEF Opening!What
<1> QED
  BY <1>1, <1>2, <1>3

LEMMA FrameIs == ASSUME NEW f \in 0..MaxSent
                 PROVE  Opening!Segment("frame", f) \in FrameSegments
                        /\ Opening!Segment("frame", f).what = f
  BY DEF FrameSegments, Opening!Segment

LEMMA FrameSeqs == ASSUME NEW s \in Seq(FrameSegments) PROVE s \in Seq(Opening!Segments)
<1>1. FrameSegments \subseteq Opening!Segments
  BY DEF FrameSegments, Opening!Segments
<1> QED
  BY <1>1, SeqMonotonic

\* An end writes a frame.
LEMMA FlowWrites ==
    ASSUME NEW wrote \in Seq(0..MaxSent), NEW read \in Seq(0..MaxSent),
           NEW buffer \in Seq(FrameSegments), NEW wire \in Seq(FrameSegments), NEW f \in 0..MaxSent,
           Flow(wrote, read, buffer, wire)
    PROVE  Flow(Append(wrote, f), read, buffer, Append(wire, Opening!Segment("frame", f)))
<1> DEFINE x == Opening!Segment("frame", f)
           q == buffer \o wire
           p == buffer \o Append(wire, x)
<1>1. x \in FrameSegments /\ x.what = f
  BY FrameIs
<1> HIDE DEF x
<1>2. q \in Seq(FrameSegments) /\ p = Append(q, x) /\ p \in Seq(FrameSegments)
  BY <1>1
<1> HIDE DEF q, p
<1>3. /\ Opening!What(q) \in Seq(0..MaxSent) /\ Len(Opening!What(q)) = Len(q)
      /\ \A i \in 1..Len(q) : Opening!What(q)[i] = q[i].what
  BY <1>2, WhatIs
<1>4. /\ Opening!What(p) \in Seq(0..MaxSent) /\ Len(Opening!What(p)) = Len(p)
      /\ \A i \in 1..Len(p) : Opening!What(p)[i] = p[i].what
  BY <1>2, WhatIs
<1>5. Opening!What(p) = Append(Opening!What(q), f)
  <2>1. Len(Opening!What(p)) = Len(Append(Opening!What(q), f))
    BY <1>1, <1>2, <1>3, <1>4
  <2>2. \A i \in 1..Len(Opening!What(p)) : Opening!What(p)[i] = Append(Opening!What(q), f)[i]
    <3> SUFFICES ASSUME NEW i \in 1..Len(p) PROVE Opening!What(p)[i] = Append(Opening!What(q), f)[i]
      BY <1>4
    <3>1. Len(p) = Len(q) + 1 /\ Len(q) \in Nat /\ p[Len(q) + 1] = x /\ \A j \in 1..Len(q) : p[j] = q[j]
      BY <1>1, <1>2, AppendProperties
    <3>2. Append(Opening!What(q), f)[Len(q) + 1] = f /\ \A j \in 1..Len(q) : Append(Opening!What(q),
          f)[j] = Opening!What(q)[j]
      BY <1>3, AppendProperties
    <3>3. CASE i = Len(q) + 1
      BY <1>1, <1>4, <3>1, <3>2, <3>3
    <3>4. CASE i \in 1..Len(q)
      BY <1>3, <1>4, <3>1, <3>2, <3>4
    <3>5. \A n \in Nat : \A j \in 1..(n + 1) : j = n + 1 \/ j \in 1..n
      OBVIOUS
    <3>6. i \in 1..(Len(q) + 1) /\ Len(q) \in Nat
      BY <3>1
    <3> QED
      BY ONLY <3>3, <3>4, <3>5, <3>6
  <2>3. Append(Opening!What(q), f) \in Seq(0..MaxSent)
    BY <1>3
  <2> DEFINE a == Opening!What(p)
             b == Append(Opening!What(q), f)
  <2>4. a \in Seq(0..MaxSent) /\ b \in Seq(0..MaxSent) /\ Len(a) = Len(b)
        /\ \A i \in 1..Len(a) : a[i] = b[i]
    BY <1>4, <2>1, <2>2, <2>3
  <2> HIDE DEF a, b
  <2>5. a = b
    BY ONLY <2>4, SeqEqual
  <2> QED
    BY <2>5 DEF a, b
<1>6. read \o Append(Opening!What(q), f) = Append(read \o Opening!What(q), f)
  BY <1>3
<1> QED
  BY <1>5, <1>6 DEF Flow, q, p, x

\* An end reads one.
LEMMA FlowReads ==
    ASSUME NEW wrote, NEW read \in Seq(0..MaxSent),
           NEW buffer \in Seq(FrameSegments), NEW wire \in Seq(FrameSegments),
           Flow(wrote, read, buffer, wire), buffer \o wire # <<>>
    PROVE  Flow(wrote, Append(read, Head(buffer \o wire).what),
                IF buffer = <<>> THEN <<>> ELSE Tail(buffer),
                    IF buffer = <<>> THEN Tail(wire) ELSE wire)
<1> DEFINE q == buffer \o wire
           p == (IF buffer = <<>> THEN <<>> ELSE Tail(buffer)) \o (IF buffer
               = <<>> THEN Tail(wire) ELSE wire)
<1>1. q \in Seq(FrameSegments) /\ q # <<>>
  OBVIOUS
<1>2. p = Tail(q)
  <2>1. CASE buffer = <<>>
    <3>1. q = wire
      BY <2>1, ConcatEmptySeq
    <3>2. Tail(wire) \in Seq(FrameSegments)
      BY <1>1, <3>1, HeadTailProperties
    <3>3. <<>> \o Tail(wire) = Tail(wire)
      BY <3>2, ConcatEmptySeq
    <3> QED
      BY <2>1, <3>1, <3>3
  <2>2. CASE buffer # <<>>
    <3>1. Tail(buffer) \in Seq(FrameSegments) /\ Len(buffer) \in Nat \ {0}
          /\ Len(Tail(buffer)) = Len(buffer) - 1
          /\ \A i \in 1..Len(Tail(buffer)) : Tail(buffer)[i] = buffer[i + 1]
      BY <2>2, HeadTailProperties, EmptySeq
    <3>2. p = Tail(buffer) \o wire /\ p \in Seq(FrameSegments) /\ Len(p) = Len(buffer) - 1 + Len(wire)
      BY <2>2, <3>1, ConcatProperties
    <3>3. Tail(q) \in Seq(FrameSegments) /\ Len(Tail(q)) = Len(buffer) + Len(wire) - 1
          /\ \A i \in 1..Len(Tail(q)) : Tail(q)[i] = q[i + 1]
      BY <1>1, HeadTailProperties, ConcatProperties
    <3>4. \A i \in 1..Len(p) : p[i] = Tail(q)[i]
      <4> SUFFICES ASSUME NEW i \in 1..Len(p) PROVE p[i] = Tail(q)[i]
        OBVIOUS
      <4>0. Len(wire) \in Nat
        OBVIOUS
      <4>1. p[i] = IF i <= Len(buffer) - 1 THEN buffer[i + 1] ELSE wire[i - (Len(buffer) - 1)]
        <5>1. i \in 1..(Len(Tail(buffer)) + Len(wire))
          BY <3>1, <3>2, <4>0
        <5>2. (Tail(buffer) \o wire)[i]
                = IF i <= Len(Tail(buffer)) THEN Tail(buffer)[i] ELSE wire[i - Len(Tail(buffer))]
          BY <3>1, <5>1, ConcatProperties
        <5> QED
          BY <3>1, <3>2, <4>0, <5>1, <5>2
      <4>2. i + 1 \in 1..(Len(buffer) + Len(wire))
        BY <3>1, <3>2, <4>0
      <4>3. q[i + 1] = IF i + 1 <= Len(buffer) THEN buffer[i + 1] ELSE wire[i + 1 - Len(buffer)]
        BY <4>2, ConcatProperties
      <4>4. Tail(q)[i] = q[i + 1]
        BY <3>1, <3>2, <3>3, <4>0
      <4> QED
        BY <3>1, <4>0, <4>1, <4>3, <4>4
    <3>5. Len(p) = Len(Tail(q))
      BY <3>1, <3>2, <3>3
    <3> HIDE DEF p, q
    <3> QED
      BY <3>2, <3>3, <3>4, <3>5, SeqEqual
  <2> QED
    BY <2>1, <2>2
<1> HIDE DEF p, q
<1>3. /\ Opening!What(q) \in Seq(0..MaxSent) /\ Len(Opening!What(q)) = Len(q)
      /\ \A i \in 1..Len(q) : Opening!What(q)[i] = q[i].what /\ q[i].what \in 0..MaxSent
  BY <1>1, WhatIs
<1>4. /\ Tail(q) \in Seq(FrameSegments) /\ Len(Tail(q)) = Len(q) - 1 /\ Len(q) \in Nat \ {0}
      /\ \A i \in 1..Len(Tail(q)) : Tail(q)[i] = q[i + 1]
  BY <1>1, HeadTailProperties, EmptySeq
<1>5. /\ Opening!What(Tail(q)) \in Seq(0..MaxSent) /\ Len(Opening!What(Tail(q))) = Len(q) - 1
      /\ \A i \in 1..(Len(q) - 1) : Opening!What(Tail(q))[i] = q[i + 1].what
  <2> DEFINE s == Tail(q)
  <2>1. s \in Seq(FrameSegments) /\ Len(s) = Len(q) - 1 /\ \A i \in 1..(Len(q) - 1) : s[i] = q[i + 1]
    BY <1>4
  <2> HIDE DEF s
  <2>2. /\ Opening!What(s) \in Seq(0..MaxSent) /\ Len(Opening!What(s)) = Len(s)
        /\ \A i \in 1..Len(s) : Opening!What(s)[i] = s[i].what
    BY <2>1, WhatIs
  <2>3. \A i \in 1..(Len(q) - 1) : Opening!What(s)[i] = q[i + 1].what
    BY <2>1, <2>2
  <2> QED
    BY <2>1, <2>2, <2>3 DEF s
<1>6. Head(q) = q[1] /\ Head(q).what \in 0..MaxSent
  BY <1>1, <1>3, <1>4
<1>7. read \o Opening!What(q) = Append(read, Head(q).what) \o Opening!What(Tail(q))
  <2> DEFINE h == Head(q).what
             w == Opening!What(q)
             t == Opening!What(Tail(q))
  <2>1. /\ w \in Seq(0..MaxSent) /\ t \in Seq(0..MaxSent) /\ h \in 0..MaxSent
        /\ Len(w) \in Nat \ {0} /\ Len(t) = Len(w) - 1 /\ w[1] = h
        /\ \A i \in 1..(Len(w) - 1) : t[i] = w[i + 1]
    <3>1. 1 \in 1..Len(q) /\ \A i \in 1..(Len(q) - 1) : i + 1 \in 1..Len(q)
      BY <1>4
    <3> QED
      BY <1>3, <1>4, <1>5, <1>6, <3>1
  <2> HIDE DEF h, w, t
  <2>2. /\ read \o w \in Seq(0..MaxSent) /\ Len(read \o w) = Len(read) + Len(w)
        /\ \A i \in 1..(Len(read) + Len(w)) :
             (read \o w)[i] = IF i <= Len(read) THEN read[i] ELSE w[i - Len(read)]
    BY <2>1, ConcatProperties
  <2>3. /\ Append(read, h) \in Seq(0..MaxSent) /\ Len(Append(read, h)) = Len(read) + 1
        /\ \A i \in 1..Len(read) : Append(read, h)[i] = read[i]
        /\ Append(read, h)[Len(read) + 1] = h
    BY <2>1, AppendProperties
  <2>4. /\ Append(read, h) \o t \in Seq(0..MaxSent)
        /\ Len(Append(read, h) \o t) = Len(read) + 1 + Len(t)
        /\ \A i \in 1..(Len(read) + 1 + Len(t)) :
             (Append(read, h) \o t)[i]
               = IF i <= Len(read) + 1 THEN Append(read, h)[i] ELSE t[i - (Len(read) + 1)]
    <3> DEFINE a == Append(read, h)
    <3>1. a \in Seq(0..MaxSent) /\ Len(a) = Len(read) + 1
      BY <2>3
    <3> HIDE DEF a
    <3>2. /\ a \o t \in Seq(0..MaxSent) /\ Len(a \o t) = Len(a) + Len(t)
          /\ \A i \in 1..(Len(a) + Len(t)) : (a \o t)[i] = IF i <= Len(a) THEN a[i] ELSE t[i - Len(a)]
      <4>1. t \in Seq(0..MaxSent)
        BY <2>1
      <4> QED
        BY ONLY <3>1, <4>1, ConcatProperties
    <3>3. \A i \in 1..(Len(read) + 1 + Len(t)) :
          (a \o t)[i] = IF i <= Len(read) + 1 THEN a[i] ELSE t[i - (Len(read) + 1)]
      BY ONLY <3>1, <3>2
    <3> QED
      BY <3>1, <3>2, <3>3 DEF a
  <2>5. Len(read) \in Nat
    OBVIOUS
  <2>6. \A i \in 1..(Len(read) + Len(w)) : (read \o w)[i] = (Append(read, h) \o t)[i]
    <3> SUFFICES ASSUME NEW i \in 1..(Len(read) + Len(w))
                 PROVE  (read \o w)[i] = (Append(read, h) \o t)[i]
      OBVIOUS
    <3>1. CASE i <= Len(read)
      BY <2>1, <2>2, <2>3, <2>4, <2>5, <3>1
    <3>2. CASE i = Len(read) + 1
      BY <2>1, <2>2, <2>3, <2>4, <2>5, <3>2
    <3>3. CASE i > Len(read) + 1
      <4>1. i - (Len(read) + 1) \in 1..(Len(w) - 1) /\ i - (Len(read) + 1) + 1 = i - Len(read)
        BY <2>1, <2>5, <3>3
      <4>2. t[i - (Len(read) + 1)] = w[i - Len(read)]
        BY <2>1, <4>1
      <4>3. (Append(read, h) \o t)[i] = t[i - (Len(read) + 1)]
        BY <2>1, <2>4, <2>5, <3>3
      <4>4. (read \o w)[i] = w[i - Len(read)]
        BY <2>2, <2>5, <3>3
      <4> QED
        BY <4>2, <4>3, <4>4
    <3>4. i <= Len(read) \/ i = Len(read) + 1 \/ i > Len(read) + 1
      <4>1. i \in Int /\ Len(read) \in Int
        BY <2>1, <2>5
      <4> QED
        BY ONLY <4>1
    <3> QED
      BY <3>1, <3>2, <3>3, <3>4
  <2>7. Len(read \o w) = Len(Append(read, h) \o t)
    BY <2>1, <2>2, <2>4, <2>5
  <2> QED
    BY <2>2, <2>4, <2>6, <2>7, SeqEqual DEF h, w, t
<1> QED
  BY <1>2, <1>7 DEF Flow, p, q

\* An end starts with what came behind the first segment, all of it or a part.
LEMMA FlowStarts ==
    ASSUME NEW wire \in Seq(Opening!Segments), wire # <<>>, Tail(wire) \in Seq(FrameSegments),
           NEW k \in 1..Len(wire)
    PROVE  /\ SubSeq(wire, 2, k) \in Seq(FrameSegments)
           /\ SubSeq(wire, k + 1, Len(wire)) \in Seq(FrameSegments)
           /\ Flow(Opening!What(Tail(wire)), <<>>, SubSeq(wire, 2, k), SubSeq(wire, k + 1, Len(wire)))
<1>1. Len(wire) \in Nat \ {0} /\ Len(Tail(wire)) = Len(wire) - 1
      /\ \A i \in 1..Len(Tail(wire)) : Tail(wire)[i] = wire[i + 1]
  BY HeadTailProperties, EmptySeq
<1>2. \A i \in 2..Len(wire) : wire[i] \in FrameSegments
  <2> SUFFICES ASSUME NEW i \in 2..Len(wire) PROVE wire[i] \in FrameSegments
    OBVIOUS
  <2>1. i - 1 \in 1..Len(Tail(wire)) /\ i - 1 + 1 = i
    BY <1>1
  <2> QED
    BY <1>1, <2>1, ElementOfSeq
<1>3. SubSeq(wire, 2, k) \in Seq(FrameSegments)
  BY <1>1, <1>2, SubSeqProperties
<1>4. SubSeq(wire, k + 1, Len(wire)) \in Seq(FrameSegments)
  BY <1>1, <1>2, SubSeqProperties
<1>5. SubSeq(wire, 2, k) \o SubSeq(wire, k + 1, Len(wire)) = SubSeq(wire, 2, Len(wire))
  <2>1. 2 \in 1..(Len(wire) + 1) /\ k \in (2 - 1)..Len(wire) /\ Len(wire) \in k..Len(wire)
    BY <1>1
  <2> QED
    BY <2>1, ConcatAdjacentSubSeq
<1>6. SubSeq(wire, 2, Len(wire)) = Tail(wire)
  BY TailIsSubSeq
<1>7. Opening!What(Tail(wire)) \in Seq(0..MaxSent)
  BY WhatIs
<1>8. <<>> \o Opening!What(Tail(wire)) = Opening!What(Tail(wire))
  BY <1>7, ConcatEmptySeq
<1> QED
  BY <1>3, <1>4, <1>5, <1>6, <1>8 DEF Flow

-----------------------------------------------------------------------------
LEMMA DeadlineTyped ==
    ASSUME Opening!HandshakeAssumption, OpenTyped
    PROVE  Opening!Deadline \in Opening!Time /\ None \in Opening!Time
<1>1. clock \in 0..MaxClock /\ MaxClock \in Nat /\ Timeout \in Nat
  BY DEF Opening!HandshakeAssumption, OpenTyped
<1> QED
  BY <1>1 DEF Opening!Deadline, Opening!Time

LEMMA ResponseIs ==
    ASSUME NEW r \in Opening!Response
    PROVE  Opening!Segment("response", r) \in Opening!Segments
           /\ Opening!Segment("response", r).what = r
  BY DEF Opening!Segments, Opening!Segment

LEMMA BodyIs == Opening!Segment("body", None) \in Opening!Segments
  BY DEF Opening!Segments

LEMMA RefusalIs ==
    ASSUME NEW status \in {101, 200, 400, 403, 405, 426, 500}
    PROVE  Opening!Refusal(status) \in Opening!Response /\ ~Welcome(Opening!Refusal(status))
  BY DEF Opening!Refusal, Opening!Response, Welcome, Opening!VerifyAccept

LEMMA CheckedIs == ASSUME NEW r PROVE Opening!Checked(r) \in {101, 200, 400, 403, 405, 426, 500}
  BY DEF Opening!Checked

\* A request that reaches the server with a key has the dialer's.
LEMMA RequestKey ==
    ASSUME NEW x \in Opening!Segments, x.kind = "request", Opening!Checked(x.what) = 101
    PROVE  x.what.key = "own"
<1>1. PICK o \in Origins, d \in Detours \union {"none"} : x.what = Opening!Detoured(Opening!Asked(o), d)
  BY DEF Opening!Segments, Opening!Segment
<1>2. x.what.key # "none"
  BY DEF Opening!Checked
<1>3. Opening!Asked(o).key = "own"
  BY DEF Opening!Asked
<1>4. Opening!Detoured(Opening!Asked(o), d).key \in {"own", "none"}
  BY <1>3 DEF Opening!Detoured, Opening!Asked
<1> QED
  BY <1>1, <1>2, <1>4

LEMMA RequestIs ==
    ASSUME NEW o \in Origins, NEW d \in Detours \union {"none"}
    PROVE  Opening!Segment("request", Opening!Detoured(Opening!Asked(o), d)) \in Opening!Segments
  BY DEF Opening!Segments

\* What is left of a sequence when the connection breaks.
LEMMA Prefix ==
    ASSUME NEW S, NEW s \in Seq(S), NEW k \in 0..Len(s)
    PROVE  /\ SubSeq(s, 1, k) \in Seq(S)
           /\ s = <<>> => SubSeq(s, 1, k) = <<>>
           /\ SubSeq(s, 1, k) # <<>> =>
                /\ s # <<>> /\ k \in 1..Len(s)
                /\ Head(SubSeq(s, 1, k)) = Head(s)
                /\ Tail(SubSeq(s, 1, k)) = SubSeq(s, 2, k)
<1>1. SubSeq(s, 1, k) \in Seq(S)
  BY SubSeqProperties
<1>2. k = 0 => SubSeq(s, 1, k) = <<>>
  BY SubSeqEmpty
<1>3. s = <<>> => k = 0
  OBVIOUS
<1>4. k # 0 => k \in 1..Len(s) /\ 1 \in 1..Len(s) /\ k \in 1..Len(s) /\ s # <<>>
  OBVIOUS
<1>5. k # 0 => Head(SubSeq(s, 1, k)) = s[1] /\ Tail(SubSeq(s, 1, k)) = SubSeq(s, 1 + 1, k)
  BY <1>4, HeadTailOfSubSeq
<1>6. k # 0 => Head(s) = s[1]
  BY <1>4
<1> QED
  BY <1>1, <1>2, <1>3, <1>4, <1>5, <1>6

\* The part of a buffer that is read is one as well.
LEMMA Split ==
    ASSUME NEW S, NEW s \in Seq(S), NEW k \in 1..Len(s)
    PROVE  SubSeq(s, 2, k) \in Seq(S) /\ SubSeq(s, k + 1, Len(s)) \in Seq(S)
<1>1. \A i \in 1..Len(s) : s[i] \in S
  OBVIOUS
<1>2. SubSeq(s, 2, k) \in Seq(S)
  BY <1>1, SubSeqProperties
<1>3. SubSeq(s, k + 1, Len(s)) \in Seq(S)
  BY <1>1, SubSeqProperties
<1> QED
  BY <1>2, <1>3

\* Bytes sent before the 101 follow the request.
LEMMA EarlyBytes ==
    ASSUME Opening!HandshakeAssumption, NEW x, NEW c \in {<<>>, <<Opening!Early>>}
    PROVE  LET t == [i \in DOMAIN c |-> Opening!Segment("frame", Opening!Early)] IN
           /\ t \in Seq(FrameSegments) /\ Opening!What(t) = c /\ c \in Seq(0..MaxSent)
           /\ <<x>> \o t # <<>> /\ Head(<<x>> \o t) = x /\ Tail(<<x>> \o t) = t
<1> DEFINE t == [i \in DOMAIN c |-> Opening!Segment("frame", Opening!Early)]
<1>1. Opening!Early \in 0..MaxSent
  BY DEF Opening!HandshakeAssumption, Opening!Early
<1>2. Opening!Segment("frame", Opening!Early) \in FrameSegments
      /\ Opening!Segment("frame", Opening!Early).what = Opening!Early
  BY <1>1, FrameIs
<1>3. c \in Seq(0..MaxSent) /\ Len(c) \in Nat /\ DOMAIN c = 1..Len(c)
      /\ \A i \in 1..Len(c) : c[i] = Opening!Early
  <2>1. CASE c = <<>>
    BY <2>1
  <2>2. CASE c = <<Opening!Early>>
    BY <1>1, <2>2
  <2> QED
    BY <2>1, <2>2
<1>4. t \in Seq(FrameSegments) /\ Len(t) = Len(c)
      /\ \A i \in 1..Len(c) : t[i] = Opening!Segment("frame", Opening!Early)
  BY <1>2, <1>3
<1> HIDE DEF t
<1>5. Opening!What(t) = c
  <2>1. Opening!What(t) \in Seq(0..MaxSent) /\ Len(Opening!What(t)) = Len(c)
        /\ \A i \in 1..Len(c) : Opening!What(t)[i] = c[i]
    BY <1>2, <1>3, <1>4, WhatIs
  <2> QED
    BY <1>3, <2>1, SeqEqual
<1>6. /\ <<x>> \o t # <<>> /\ Head(<<x>> \o t) = x /\ Tail(<<x>> \o t) = t
  <2> DEFINE U == FrameSegments \union {x}
  <2>1. <<x>> \in Seq(U) /\ t \in Seq(U) /\ Len(<<x>>) = 1 /\ <<x>>[1] = x /\ Len(t) \in Nat
    BY <1>3, <1>4, SeqMonotonic
  <2> HIDE DEF U
  <2>2. /\ <<x>> \o t \in Seq(U) /\ Len(<<x>> \o t) = 1 + Len(t)
        /\ \A i \in 1..(1 + Len(t)) : (<<x>> \o t)[i] = IF i <= 1 THEN x ELSE t[i - 1]
    BY <2>1, ConcatProperties
  <2> DEFINE p == <<x>> \o t
  <2>3. p # <<>> /\ p \in Seq(U) /\ Len(p) = 1 + Len(t)
    BY <2>1, <2>2
  <2>4. Head(p) = p[1] /\ p[1] = x
    BY <2>1, <2>2, <2>3
  <2>5. /\ Tail(p) \in Seq(U) /\ Len(Tail(p)) = Len(t)
        /\ \A i \in 1..Len(t) : Tail(p)[i] = p[i + 1]
    <3> HIDE DEF p
    <3>1. Tail(p) \in Seq(U) /\ Len(Tail(p)) = Len(p) - 1
          /\ \A i \in 1..Len(Tail(p)) : Tail(p)[i] = p[i + 1]
      BY <2>3, HeadTailProperties
    <3>2. Len(p) - 1 = Len(t)
      BY <2>1, <2>3
    <3> QED
      BY <3>1, <3>2
  <2>6. \A i \in 1..Len(t) : p[i + 1] = t[i]
    <3> SUFFICES ASSUME NEW i \in 1..Len(t) PROVE p[i + 1] = t[i]
      OBVIOUS
    <3>1. i + 1 \in 1..(1 + Len(t)) /\ ~(i + 1 <= 1) /\ i + 1 - 1 = i
      BY <2>1
    <3> QED
      BY <2>2, <3>1
  <2> HIDE DEF p
  <2>7. Tail(p) = t
    BY <2>1, <2>5, <2>6, SeqEqual
  <2> QED
    BY <2>3, <2>4, <2>7 DEF p
<1> QED
  BY <1>3, <1>4, <1>5, <1>6 DEF t

-----------------------------------------------------------------------------
\* Steps that only move the dialer, outside the conversation.
DialerMoves ==
    /\ UNCHANGED <<cbuf, askedFor, up, down, Opening!server, Opening!talk, losses>>
    /\ clock' \in 0..MaxClock /\ cdl' \in Opening!Time /\ response' \in Opening!Response \union {None}
    /\ cl # "open" => cl' # "open"

LEMMA MovesEnough ==
    ASSUME OpenInv, DialerMoves,
           \/ cl' = cl /\ cnet' = cnet /\ cdl' = cdl
           \/ Dialing /\ cl' = "connecting" /\ cnet' = cnet
           \/ Dialing /\ cl' = "requesting" /\ cnet' = "up"
           \/ cl # "open" /\ cl' = "failed" /\ cnet' = IF cnet = "up" THEN "closed" ELSE cnet
    PROVE  OpenInv'
<1> USE DEF DialerMoves, Opening!server, Opening!talk
<1>1. OpenTyped'
  BY DEF OpenInv, OpenTyped
<1>2. Untimed'
  BY DEF OpenInv, Untimed
<1>3. Ahead'
  BY DEF OpenInv, Ahead, Dialing
<1>4. BothEnds'
  BY DEF OpenInv, BothEnds, Ahead, Dialing, Taken, Opening!NothingLeftOpen
<1>5. Answer'
  BY DEF OpenInv, Answer, Dialing, Welcomed
<1>6. Request'
  BY DEF OpenInv, Request, Taken
<1>7. FlowsDown'
  BY DEF OpenInv, FlowsDown
<1>8. FlowsUp'
  BY DEF OpenInv, FlowsUp, Taken
<1> QED
  BY <1>1, <1>2, <1>3, <1>4, <1>5, <1>6, <1>7, <1>8 DEF OpenInv

LEMMA DialStep ==
    ASSUME Opening!HandshakeAssumption, OpenInv,
           (\E scheme \in Schemes : Opening!Dial(scheme)) \/ Opening!ConnectFails \/ Opening!Connect
               \/ Opening!HandshakeFails \/ Opening!Tick
    PROVE  OpenInv'
<1>1. OpenTyped /\ Opening!Deadline \in Opening!Time /\ None \in Opening!Time
  BY DeadlineTyped DEF OpenInv
<1>2. /\ UNCHANGED <<cbuf, askedFor, up, down, Opening!server, Opening!talk, losses>>
      /\ clock' \in 0..MaxClock
  <2>1. clock \in 0..MaxClock /\ MaxClock \in Nat
    BY <1>1 DEF OpenTyped, Opening!HandshakeAssumption
  <2>2. CASE Opening!Tick
    BY <2>1, <2>2 DEF Opening!Tick, Opening!client
  <2>3. CASE (\E scheme \in Schemes : Opening!Dial(scheme)) \/ Opening!ConnectFails \/ Opening!Connect
             \/ Opening!HandshakeFails
    BY <2>1, <2>3 DEF Opening!Dial, Opening!ConnectFails, Opening!Connect, Opening!HandshakeFails
  <2> QED
    BY <2>2, <2>3
<1>3. cdl' \in Opening!Time /\ response' \in Opening!Response \union {None} /\ (cl # "open"
      => cl' # "open")
  BY <1>1 DEF Opening!Dial, Opening!ConnectFails, Opening!Connect, Opening!HandshakeFails, Opening!Tick,
      Opening!client, OpenTyped, Opening!DialFails
<1>4. \/ cl' = cl /\ cnet' = cnet /\ cdl' = cdl
      \/ Dialing /\ cl' = "connecting" /\ cnet' = cnet
      \/ Dialing /\ cl' = "requesting" /\ cnet' = "up"
      \/ cl # "open" /\ cl' = "failed" /\ cnet' = IF cnet = "up" THEN "closed" ELSE cnet
  BY DEF Opening!Dial, Opening!ConnectFails, Opening!Connect, Opening!HandshakeFails, Opening!Tick,
      Opening!client, Opening!DialFails, Dialing
<1> QED
  BY <1>2, <1>3, <1>4, MovesEnough DEF DialerMoves

LEMMA WriteRequestStep ==
    ASSUME Opening!HandshakeAssumption, OpenInv, NEW origin \in Origins, Opening!WriteRequest(origin)
    PROVE  OpenInv'
<1>1. PICK detour \in Detours \union {"none"} :
        /\ cwrote' = IF detour = "early" THEN <<Opening!Early>> ELSE <<>>
        /\ up' = <<Opening!Segment("request", Opening!Detoured(Opening!Asked(origin), detour))>>
                 \o [i \in DOMAIN cwrote' |-> Opening!Segment("frame", Opening!Early)]
  BY DEF Opening!WriteRequest
<1> DEFINE x == Opening!Segment("request", Opening!Detoured(Opening!Asked(origin), detour))
           c == cwrote'
           t == [i \in DOMAIN c |-> Opening!Segment("frame", Opening!Early)]
<1>2. x \in Opening!Segments
  BY RequestIs
<1> HIDE DEF x
<1>3. /\ t \in Seq(FrameSegments) /\ Opening!What(t) = cwrote' /\ cwrote' \in Seq(0..MaxSent)
      /\ <<x>> \o t # <<>> /\ Tail(<<x>> \o t) = t
  BY <1>1, EarlyBytes
<1>4. up' = <<x>> \o t
  BY <1>1 DEF x
<1> HIDE DEF t, c
<1>5. /\ up' \in Seq(Opening!Segments) /\ up' # <<>> /\ Tail(up') \in Seq(FrameSegments)
           /\ Opening!What(Tail(up')) = cwrote'
  <2>1. t \in Seq(Opening!Segments) /\ <<x>> \in Seq(Opening!Segments)
    BY <1>2, <1>3, FrameSeqs
  <2> QED
    BY <1>3, <1>4, <2>1, ConcatProperties
<1>6. /\ cl = "requesting" /\ cl' = "waiting" /\ askedFor' = origin
      /\ UNCHANGED <<clock, cnet, cdl, cbuf, response, down, Opening!server, swrote, cread, sread,
           losses>>
  BY DEF Opening!WriteRequest
<1>7. sv = "idle" /\ up = <<>> /\ cwrote = <<>> /\ down = <<>>
  BY <1>6 DEF OpenInv, Ahead, Dialing
<1> USE DEF Opening!server
<1>8. OpenTyped'
  BY <1>3, <1>5, <1>6 DEF OpenInv, OpenTyped
<1>9. Untimed'
  BY <1>6 DEF OpenInv, Untimed
<1>10. Ahead'
  BY <1>6 DEF OpenInv, Ahead, Dialing
<1>11. BothEnds'
  BY <1>6, <1>7 DEF OpenInv, BothEnds, Taken, Opening!NothingLeftOpen
<1>12. Answer'
  BY <1>6, <1>7 DEF OpenInv, Answer, Welcomed
<1>13. Request'
  BY <1>5, <1>6, <1>7 DEF OpenInv, Request, Taken
<1>14. FlowsDown' /\ FlowsUp'
  BY <1>5, <1>6, <1>7 DEF FlowsDown, FlowsUp, Taken
<1> QED
  BY <1>8, <1>9, <1>10, <1>11, <1>12, <1>13, <1>14 DEF OpenInv

LEMMA ReadResponseStep ==
    ASSUME Opening!HandshakeAssumption, OpenInv, Opening!ReadResponse
    PROVE  OpenInv'
<1> DEFINE r == Head(down).what
<1>1. /\ cl = "waiting" /\ down # <<>>
      /\ UNCHANGED <<clock, askedFor, up, Opening!server, Opening!talk, losses>>
  BY DEF Opening!ReadResponse
<1>2. PICK k \in 1..Len(down) :
        /\ down' = SubSeq(down, k + 1, Len(down))
        /\ IF r.status = 101 /\ Opening!VerifyAccept(r)
           THEN \/ Opening!Dialed(SubSeq(down, 2, k)) /\ response' = r
                \/ Timeout > 0 /\ Opening!DialFails(r) /\ cbuf' = SubSeq(down, 2, k)
           ELSE Opening!DialFails(r) /\ cbuf' = SubSeq(down, 2, k)
  BY DEF Opening!ReadResponse
<1>3. /\ r \in Opening!Response
      /\ ~Welcomed => ~Welcome(r)
      /\ Welcomed => Tail(down) \in Seq(FrameSegments)
  BY <1>1 DEF OpenInv, Answer
<1>4. down \in Seq(Opening!Segments) /\ SubSeq(down, 2, k) \in Seq(Opening!Segments)
      /\ SubSeq(down, k + 1, Len(down)) \in Seq(Opening!Segments)
  BY Split DEF OpenInv, OpenTyped
<1>5. cbuf = <<>> /\ cread = <<>> /\ sv \notin {"idle", "hijacked", "answering"}
  BY <1>1 DEF OpenInv, Ahead
<1>0. None \in Opening!Time
  BY DeadlineTyped DEF OpenInv
<1> HIDE DEF r
<1>6. /\ cbuf' = SubSeq(down, 2, k)
      /\ response' = r
      /\ \/ Welcome(r) /\ cl' = "open" /\ cdl' = None /\ cnet' = cnet
         \/ cl' = "failed" /\ cnet' # "up" /\ cdl' = cdl /\ cnet' \in {cnet, "closed"}
  BY <1>2 DEF Welcome, Opening!Dialed, Opening!DialFails
<1> USE DEF Opening!server, Opening!talk
<1>7. OpenTyped'
  BY <1>0, <1>1, <1>2, <1>3, <1>4, <1>6 DEF OpenInv, OpenTyped
<1>8. Untimed'
  BY <1>1, <1>6 DEF OpenInv, Untimed
<1>9. Ahead'
  BY <1>1, <1>5, <1>6 DEF OpenInv, Ahead, Dialing
<1>10. BothEnds'
  BY <1>1, <1>6 DEF OpenInv, BothEnds, Taken, Opening!NothingLeftOpen
<1>11. Request'
  BY <1>1 DEF OpenInv, Request, Taken
<1>12. CASE cl' = "failed"
  <2>1. Answer' /\ FlowsDown' /\ FlowsUp'
    BY <1>12 DEF Answer, FlowsDown, FlowsUp
  <2> QED
    BY <1>7, <1>8, <1>9, <1>10, <1>11, <2>1 DEF OpenInv
<1>13. CASE Welcome(r) /\ cl' = "open"
  <2>1. Welcomed /\ Tail(down) \in Seq(FrameSegments)
    BY <1>3, <1>13
  <2>2. /\ SubSeq(down, 2, k) \in Seq(FrameSegments)
        /\ SubSeq(down, k + 1, Len(down)) \in Seq(FrameSegments)
        /\ Flow(Opening!What(Tail(down)), <<>>, SubSeq(down, 2, k), SubSeq(down, k + 1, Len(down)))
    BY <1>1, <1>4, <2>1, FlowStarts
  <2>3. Answer'
    BY <1>1, <1>2, <1>6, <1>13, <2>1, <2>2 DEF Answer, Welcomed
  <2>4. FlowsDown'
    <3>1. losses = 0 /\ sv = "open" => swrote = Opening!What(Tail(down))
      BY <1>1, <2>1 DEF OpenInv, FlowsDown
    <3> QED
      BY <1>1, <1>2, <1>5, <1>6, <1>13, <2>2, <3>1 DEF FlowsDown
  <2>5. FlowsUp'
    BY <1>1, <1>13, <2>1 DEF OpenInv, FlowsUp, Taken
  <2> QED
    BY <1>7, <1>8, <1>9, <1>10, <1>11, <2>3, <2>4, <2>5 DEF OpenInv
<1> QED
  BY <1>6, <1>12, <1>13

\* A server that answers with anything but a 101 of its own, or something in its place.
LEMMA RefusedStep ==
    ASSUME OpenInv, sv = "idle", up # <<>>, sv' \in {"refused", "bypassed"}, said' \in BOOLEAN,
           up' \in Seq(Opening!Segments), NEW r \in Opening!Response, ~Welcome(r),
           down' \in Seq(Opening!Segments), down' # <<>>, Head(down') = Opening!Segment("response", r),
           UNCHANGED <<clock, Opening!client, snet, sdl, sbuf, key, Opening!talk, losses>>
    PROVE  OpenInv'
<1> DEFINE x == Opening!Segment("response", r)
<1>1. x \in Opening!Segments /\ x.what = r
  BY ResponseIs
<1> HIDE DEF x
<1>2. down' \in Seq(Opening!Segments) /\ down' # <<>> /\ Head(down') = x
  BY DEF x
<1>3. cl # "open" /\ ~Dialing
  BY DEF OpenInv, Answer, Welcomed, Ahead
<1> USE DEF Opening!client, Opening!talk
<1>4. OpenTyped'
  BY <1>2 DEF OpenInv, OpenTyped
<1>5. Untimed' /\ Ahead'
  BY <1>3 DEF OpenInv, Untimed, Ahead, Dialing
<1>6. BothEnds'
  BY DEF OpenInv, BothEnds, Opening!NothingLeftOpen, Taken
<1>7. Answer'
  BY <1>1, <1>2, <1>3 DEF Answer, Welcomed
<1>8. Request' /\ FlowsDown' /\ FlowsUp'
  BY DEF Request, FlowsDown, FlowsUp, Taken
<1> QED
  BY <1>4, <1>5, <1>6, <1>7, <1>8 DEF OpenInv

LEMMA UpgradeStep ==
    ASSUME Opening!HandshakeAssumption, OpenInv, Opening!Upgrade
    PROVE  OpenInv'
<1> DEFINE r == Head(up).what
<1>1. /\ sv = "idle" /\ up # <<>> /\ Head(up).kind = "request"
      /\ UNCHANGED <<clock, Opening!client, sdl, Opening!talk, losses>>
  BY DEF Opening!Upgrade
<1>2. up \in Seq(Opening!Segments) /\ Head(up) \in Opening!Segments
      /\ Tail(up) \in Seq(Opening!Segments) /\ Tail(up) \in Seq(FrameSegments)
  BY <1>1, HeadTailProperties DEF OpenInv, OpenTyped, Request
<1>3. down = <<>> /\ sread = <<>> /\ cl # "open" /\ ~Dialing
  BY <1>1 DEF OpenInv, Ahead, Answer, Welcomed
<1>4. CASE Opening!Checked(r) # 101
  <2>1. /\ sv' = "refused" /\ said' = TRUE /\ up' = Tail(up)
        /\ down' = down \o <<Opening!Segment("response", Opening!Refusal(Opening!Checked(r))),
             Opening!Segment("body", None)>>
        /\ UNCHANGED <<snet, sbuf, key>>
    BY <1>4 DEF Opening!Upgrade
  <2>2. Opening!Refusal(Opening!Checked(r)) \in Opening!Response
        /\ ~Welcome(Opening!Refusal(Opening!Checked(r)))
    BY CheckedIs, RefusalIs
  <2> DEFINE a == Opening!Segment("response", Opening!Refusal(Opening!Checked(r)))
             b == Opening!Segment("body", None)
  <2>3. a \in Opening!Segments /\ b \in Opening!Segments
    BY <2>2, ResponseIs, BodyIs
  <2> HIDE DEF a, b
  <2>4. <<a, b>> \in Seq(Opening!Segments) /\ <<a, b>> # <<>> /\ Head(<<a, b>>) = a
    BY <2>3
  <2>5. down' = <<a, b>>
    BY <1>3, <2>1, <2>4, ConcatEmptySeq DEF a, b
  <2> QED
    BY <1>1, <1>2, <2>1, <2>2, <2>4, <2>5, RefusedStep DEF a
<1>5. CASE Opening!Checked(r) = 101
  <2>1. /\ sv' = "hijacked" /\ snet' = "up" /\ key' = r.key /\ down' = down /\ said' = said
    BY <1>5 DEF Opening!Upgrade
  <2>2. PICK k \in 1..Len(up) : sbuf' = SubSeq(up, 2, k) /\ up' = SubSeq(up, k + 1, Len(up))
    BY <1>5 DEF Opening!Upgrade
  <2>3. key' = "own"
    BY <1>1, <1>2, <1>5, <2>1, RequestKey
  <2>4. /\ SubSeq(up, 2, k) \in Seq(FrameSegments)
        /\ SubSeq(up, k + 1, Len(up)) \in Seq(FrameSegments)
        /\ Flow(Opening!What(Tail(up)), <<>>, SubSeq(up, 2, k), SubSeq(up, k + 1, Len(up)))
    BY <1>1, <1>2, FlowStarts
  <2>5. sbuf' \in Seq(FrameSegments) /\ up' \in Seq(FrameSegments) /\ Flow(Opening!What(Tail(up)), <<>>,
        sbuf', up')
    BY <2>2, <2>4
  <2>6. sbuf' \in Seq(Opening!Segments) /\ up' \in Seq(Opening!Segments)
    BY <2>5, FrameSeqs
  <2> USE DEF Opening!client, Opening!talk
  <2>7. OpenTyped'
    BY <1>1, <2>1, <2>3, <2>6 DEF OpenInv, OpenTyped
  <2>8. Untimed' /\ Ahead'
    BY <1>1, <1>3, <2>1 DEF OpenInv, Untimed, Ahead, Dialing
  <2>9. BothEnds'
    BY <1>1, <2>1, <2>3 DEF OpenInv, BothEnds, Opening!NothingLeftOpen, Taken
  <2>10. Answer'
    BY <1>1, <1>3, <2>1 DEF Answer, Welcomed
  <2>11. Request' /\ FlowsDown'
    BY <2>1, <2>5 DEF Request, FlowsDown, Taken
  <2>12. FlowsUp'
    <3>1. losses = 0 /\ cl = "waiting" => cwrote = Opening!What(Tail(up))
      BY <1>1 DEF OpenInv, FlowsUp
    <3> QED
      BY <1>1, <1>3, <2>1, <2>5, <3>1 DEF FlowsUp
  <2> QED
    BY <2>7, <2>8, <2>9, <2>10, <2>11, <2>12 DEF OpenInv
<1> QED
  BY <1>4, <1>5

LEMMA InterceptStep ==
    ASSUME Opening!HandshakeAssumption, OpenInv, NEW what \in Canned, Opening!Intercept(what)
    PROVE  OpenInv'
<1>1. /\ sv = "idle" /\ up # <<>> /\ sv' = "bypassed" /\ up' = <<>>
      /\ UNCHANGED <<clock, Opening!client, snet, sdl, sbuf, key, said, Opening!talk, losses>>
  BY DEF Opening!Intercept
<1>2. what \in {"stale", "plain", "extension", "page"}
  BY DEF Opening!HandshakeAssumption
<1>3. \E r \in Opening!Response : /\ ~Welcome(r) /\ down' \in Seq(Opening!Segments)
                           /\ down' # <<>> /\ Head(down') = Opening!Segment("response", r)
  <2>0. ASSUME NEW r \in Opening!Response, down' = <<Opening!Segment("response", r)>>
        PROVE  down' \in Seq(Opening!Segments) /\ down' # <<>>
               /\ Head(down') = Opening!Segment("response", r)
    <3> DEFINE x == Opening!Segment("response", r)
    <3>1. x \in Opening!Segments
      BY ResponseIs
    <3> HIDE DEF x
    <3>2. <<x>> \in Seq(Opening!Segments) /\ <<x>> # <<>> /\ Head(<<x>>) = x
      BY <3>1
    <3> QED
      BY <2>0, <3>2 DEF x
  <2>1. CASE what = "page"
    <3>1. down' = <<Opening!Segment("response", Opening!Refusal(200)), Opening!Segment("body", None)>>
      BY <2>1 DEF Opening!Intercept
    <3>2. Opening!Refusal(200) \in Opening!Response /\ ~Welcome(Opening!Refusal(200))
      BY RefusalIs
    <3> DEFINE a == Opening!Segment("response", Opening!Refusal(200))
               b == Opening!Segment("body", None)
    <3>3. a \in Opening!Segments /\ b \in Opening!Segments
      BY <3>2, ResponseIs, BodyIs
    <3> HIDE DEF a, b
    <3>4. <<a, b>> \in Seq(Opening!Segments) /\ <<a, b>> # <<>> /\ Head(<<a, b>>) = a
      BY <3>3
    <3> QED
      BY <3>1, <3>2, <3>4 DEF a, b
  <2>2. CASE what = "plain"
    <3>1. down' = <<Opening!Segment("response", Opening!Refusal(101))>>
      BY <2>2 DEF Opening!Intercept
    <3>2. Opening!Refusal(101) \in Opening!Response /\ ~Welcome(Opening!Refusal(101))
      BY RefusalIs
    <3> QED
      BY <2>0, <3>1, <3>2
  <2>3. CASE what = "stale"
    <3> DEFINE r == [status |-> 101, upgrade |-> TRUE, accept |-> "stale", extension |-> FALSE]
    <3>1. down' = <<Opening!Segment("response", r)>>
      BY <2>3 DEF Opening!Intercept
    <3>2. r \in Opening!Response /\ ~Welcome(r)
      BY DEF Opening!Response, Welcome, Opening!VerifyAccept
    <3> HIDE DEF r
    <3> QED
      BY <2>0, <3>1, <3>2
  <2>4. CASE what = "extension"
    <3> DEFINE r == [status |-> 101, upgrade |-> TRUE, accept |-> "own", extension |-> TRUE]
    <3>1. down' = <<Opening!Segment("response", r)>>
      BY <2>4 DEF Opening!Intercept
    <3>2. r \in Opening!Response /\ ~Welcome(r)
      BY DEF Opening!Response, Welcome, Opening!VerifyAccept
    <3> HIDE DEF r
    <3> QED
      BY <2>0, <3>1, <3>2
  <2> QED
    BY <1>2, <2>1, <2>2, <2>3, <2>4
<1>4. said' \in BOOLEAN /\ up' \in Seq(Opening!Segments)
  BY <1>1 DEF OpenInv, OpenTyped
<1> QED
  BY <1>1, <1>3, <1>4, RefusedStep

LEMMA FailedStep ==
    ASSUME OpenInv, sv \in {"hijacked", "answering"}, Opening!UpgradeFails,
           UNCHANGED <<clock, Opening!client, up, down, sbuf, key, said, Opening!talk, losses>>
    PROVE  OpenInv'
<1>1. sv' = "failed" /\ snet' = "closed" /\ sdl' = sdl
  BY DEF Opening!UpgradeFails
<1>2. cl # "open" /\ ~Dialing /\ down = <<>>
  BY DEF OpenInv, Answer, Welcomed, Ahead
<1> USE DEF Opening!client, Opening!talk
<1>3. OpenTyped' /\ Untimed'
  BY <1>1 DEF OpenInv, OpenTyped, Untimed
<1>4. Ahead' /\ BothEnds'
  BY <1>1, <1>2 DEF OpenInv, Ahead, BothEnds, Opening!NothingLeftOpen, Taken, Dialing
<1>5. Answer' /\ Request' /\ FlowsDown' /\ FlowsUp'
  BY <1>1, <1>2 DEF Answer, Welcomed, Request, FlowsDown, FlowsUp, Taken
<1> QED
  BY <1>3, <1>4, <1>5 DEF OpenInv

LEMMA TakeOverStep ==
    ASSUME Opening!HandshakeAssumption, OpenInv, Opening!TakeOver
    PROVE  OpenInv'
<1>1. /\ sv = "hijacked" /\ UNCHANGED <<clock, Opening!client, up, down, sbuf, key, said, Opening!talk,
           losses>>
  BY DEF Opening!TakeOver
<1>2. CASE Opening!UpgradeFails
  BY <1>1, <1>2, FailedStep
<1>3. CASE ~Opening!Premature /\ sv' = "answering" /\ sdl' = Opening!Deadline /\ snet' = snet
  <2>1. sbuf = <<>> /\ sv' = "answering" /\ sdl' = Opening!Deadline /\ snet' = snet
    BY <1>3 DEF Opening!Premature
  <2>2. Opening!Deadline \in Opening!Time
    BY DeadlineTyped DEF OpenInv
  <2> USE DEF Opening!client, Opening!talk
  <2>3. OpenTyped' /\ Untimed'
    BY <1>1, <2>1, <2>2 DEF OpenInv, OpenTyped, Untimed
  <2>4. Ahead' /\ BothEnds'
    BY <1>1, <2>1 DEF OpenInv, Ahead, BothEnds, Opening!NothingLeftOpen, Taken, Dialing
  <2>5. Answer' /\ Request'
    BY <1>1, <2>1 DEF OpenInv, Answer, Welcomed, Request, Taken
  <2>6. FlowsDown' /\ FlowsUp'
    BY <1>1, <2>1 DEF OpenInv, FlowsDown, FlowsUp, Taken
  <2> QED
    BY <2>3, <2>4, <2>5, <2>6 DEF OpenInv
<1> QED
  BY <1>2, <1>3 DEF Opening!TakeOver

LEMMA WriteAcceptStep ==
    ASSUME Opening!HandshakeAssumption, OpenInv, Opening!WriteAccept
    PROVE  OpenInv'
<1> DEFINE x == Opening!Segment("response", Opening!Accepted)
<1>1. /\ sv = "answering" /\ said' = TRUE
      /\ \/ sv' = "open" /\ sdl' = None /\ snet' = snet
         \/ sv' = "cut" /\ snet' = "closed" /\ sdl' = sdl
      /\ down' = IF cnet = "up" THEN Append(down, x) ELSE down
      /\ UNCHANGED <<clock, Opening!client, up, key, Opening!talk, losses>>
  BY DEF Opening!WriteAccept, Opening!Lift
<1>2. sbuf = <<>> /\ down = <<>> /\ key = "own" /\ cl # "open" /\ ~Dialing /\ swrote = <<>>
  BY <1>1 DEF OpenInv, BothEnds, Ahead, Answer, Welcomed, Taken
<1>3. sbuf' = sbuf
  BY <1>2 DEF Opening!WriteAccept
<1>4. Opening!Accepted \in Opening!Response
  BY <1>2 DEF Opening!Accepted, Opening!Response
<1>5. x \in Opening!Segments /\ x.what \in Opening!Response
  BY <1>4, ResponseIs
<1> HIDE DEF x
<1>6. /\ down' \in Seq(Opening!Segments)
      /\ cnet = "up" => down' # <<>>
      /\ down' # <<>> => Head(down') = x /\ Tail(down') = <<>>
  BY <1>1, <1>2, <1>5
<1>7. None \in Opening!Time
  BY DeadlineTyped DEF OpenInv
<1>8. <<>> \in Seq(FrameSegments) /\ Opening!What(<<>>) = <<>>
  BY DEF Opening!What
<1> USE DEF Opening!client, Opening!talk
<1>9. OpenTyped' /\ Untimed'
  BY <1>1, <1>2, <1>3, <1>6, <1>7 DEF OpenInv, OpenTyped, Untimed
<1>10. Ahead'
  BY <1>1, <1>2 DEF OpenInv, Ahead, Dialing
<1>11. BothEnds'
  BY <1>1, <1>2, <1>6 DEF OpenInv, BothEnds, Opening!NothingLeftOpen, Taken
<1>12. Answer'
  BY <1>1, <1>2, <1>5, <1>6, <1>8 DEF Answer, Welcomed
<1>13. Request'
  BY <1>1, <1>3 DEF OpenInv, Request, Taken
<1>14. FlowsDown'
  <2>1. losses = 0 /\ cl = "waiting" => cnet = "up"
    BY DEF OpenInv, BothEnds
  <2> QED
    BY <1>1, <1>2, <1>6, <1>8, <2>1 DEF FlowsDown
<1>15. FlowsUp'
  BY <1>1, <1>3 DEF OpenInv, FlowsUp, Taken
<1> QED
  BY <1>9, <1>10, <1>11, <1>12, <1>13, <1>14, <1>15 DEF OpenInv

-----------------------------------------------------------------------------
LEMMA LoseStep ==
    ASSUME Opening!HandshakeAssumption, OpenInv, Opening!Lose
    PROVE  OpenInv'
<1>1. /\ losses < MaxLosses /\ losses' = losses + 1 /\ cnet = "up" /\ cnet' = "lost" /\ up' = <<>>
      /\ UNCHANGED <<clock, cl, cdl, cbuf, askedFor, response, Opening!server, Opening!talk>>
  BY DEF Opening!Lose
<1>2. PICK k \in 0..Len(down) : down' = SubSeq(down, 1, k)
  BY DEF Opening!Lose
<1>3. losses \in 0..MaxLosses /\ MaxLosses \in Nat /\ down \in Seq(Opening!Segments)
  BY DEF OpenInv, OpenTyped, Opening!HandshakeAssumption
<1>4. losses' \in 0..MaxLosses /\ losses' # 0
  BY <1>1, <1>3
<1>5. /\ down' \in Seq(Opening!Segments) /\ (down = <<>> => down' = <<>>)
      /\ down' # <<>> => down # <<>> /\ k \in 1..Len(down) /\ Head(down') = Head(down)
           /\ Tail(down') = SubSeq(down, 2, k)
  BY <1>2, <1>3, Prefix
<1>6. down \in Seq(FrameSegments) => down' \in Seq(FrameSegments)
  BY <1>2, Prefix
<1> USE DEF Opening!server, Opening!talk
<1>7. OpenTyped'
  BY <1>1, <1>4, <1>5 DEF OpenInv, OpenTyped
<1>8. Untimed' /\ Ahead'
  BY <1>1, <1>5 DEF OpenInv, Untimed, Ahead, Dialing
<1>9. BothEnds'
  BY <1>1, <1>4 DEF OpenInv, BothEnds, Opening!NothingLeftOpen, Taken
<1>10. Answer'
  <2>1. cl = "waiting" /\ down' # <<>> /\ Welcomed => Tail(down') \in Seq(FrameSegments)
    BY <1>3, <1>5, FlowStarts DEF OpenInv, Answer
  <2> QED
    BY <1>1, <1>5, <1>6, <2>1 DEF OpenInv, Answer, Welcomed
<1>11. Request'
  BY <1>1 DEF OpenInv, Request, Taken
<1>12. FlowsDown' /\ FlowsUp'
  BY <1>4 DEF FlowsDown, FlowsUp
<1> QED
  BY <1>7, <1>8, <1>9, <1>10, <1>11, <1>12 DEF OpenInv

LEMMA ClientWritesStep ==
    ASSUME Opening!HandshakeAssumption, OpenInv, Opening!ClientWrites
    PROVE  OpenInv'
<1>1. /\ cl = "open" /\ Len(cwrote) < MaxSent
      /\ UNCHANGED <<clock, cnet, cdl, cbuf, askedFor, response, down, Opening!server, swrote, cread,
           sread, losses>>
  BY DEF Opening!ClientWrites
<1>2. cdl = None /\ Welcomed
  BY <1>1 DEF OpenInv, Untimed, Answer
<1> DEFINE f == Len(cwrote) + 1
<1>3. f \in 0..MaxSent /\ cwrote \in Seq(0..MaxSent) /\ up \in Seq(Opening!Segments)
  BY <1>1 DEF OpenInv, OpenTyped, Opening!HandshakeAssumption
<1>4. /\ cwrote' = Append(cwrote, f) /\ cl' = cl
      /\ up' = IF snet = "up" THEN Append(up, Opening!Segment("frame", f)) ELSE up
  BY <1>2 DEF Opening!ClientWrites, Opening!InTime
<1> HIDE DEF f
<1>5. CASE sv = "open"
  <2>0. snet = "up" /\ Taken
    BY <1>5 DEF OpenInv, BothEnds, Taken
  <2>1. sbuf \in Seq(FrameSegments) /\ up \in Seq(FrameSegments) /\ sread \in Seq(0..MaxSent)
    BY <2>0 DEF OpenInv, Request, OpenTyped
  <2>2. cwrote' \in Seq(0..MaxSent) /\ up' \in Seq(FrameSegments)
    BY <1>3, <1>4, <2>0, <2>1, FrameIs, AppendProperties
  <2>3. up' \in Seq(Opening!Segments)
    BY <2>2, FrameSeqs
  <2> USE DEF Opening!server
  <2>4. OpenTyped' /\ Untimed'
    BY <1>1, <1>4, <2>2, <2>3 DEF OpenInv, OpenTyped, Untimed
  <2>5. Ahead'
    BY <1>1, <1>4, <1>5 DEF OpenInv, Ahead, Dialing
  <2>6. BothEnds' /\ Answer'
    BY <1>1, <1>4, <1>5 DEF OpenInv, BothEnds, Opening!NothingLeftOpen, Taken, Answer, Welcomed
  <2>7. Request' /\ FlowsDown'
    BY <1>1, <1>4, <1>5, <2>1, <2>2 DEF OpenInv, Request, Taken, FlowsDown
  <2>8. FlowsUp'
    <3>1. losses = 0 => Flow(cwrote, sread, sbuf, up)
      BY <1>1, <2>0 DEF OpenInv, FlowsUp
    <3>2. losses = 0 => Flow(cwrote', sread, sbuf, up')
      BY <1>3, <1>4, <2>0, <2>1, <3>1, FlowWrites
    <3> QED
      BY <1>1, <1>4, <1>5, <3>2 DEF FlowsUp
  <2> QED
    BY <2>4, <2>5, <2>6, <2>7, <2>8 DEF OpenInv
<1>6. CASE sv = "cut"
  <2>1. up' = up /\ cwrote' \in Seq(0..MaxSent)
    <3>1. snet # "up"
      BY <1>6 DEF OpenInv, BothEnds, Opening!NothingLeftOpen
    <3> QED
      BY <1>3, <1>4, <3>1, AppendProperties
  <2> USE DEF Opening!server
  <2>2. OpenTyped' /\ Untimed'
    BY <1>1, <1>4, <2>1 DEF OpenInv, OpenTyped, Untimed
  <2>3. Ahead'
    BY <1>1, <1>4, <1>6 DEF OpenInv, Ahead, Dialing
  <2>4. BothEnds' /\ Answer'
    BY <1>1, <1>4, <1>6 DEF OpenInv, BothEnds, Opening!NothingLeftOpen, Taken, Answer, Welcomed
  <2>5. Request' /\ FlowsDown' /\ FlowsUp'
    BY <1>1, <1>4, <1>6 DEF OpenInv, Request, Taken, FlowsDown, FlowsUp
  <2> QED
    BY <2>2, <2>3, <2>4, <2>5 DEF OpenInv
<1> QED
  BY <1>2, <1>5, <1>6 DEF Welcomed

\* A frame more behind a response.
LEMMA WhatMore ==
    ASSUME NEW s \in Seq(FrameSegments), NEW f \in 0..MaxSent
    PROVE  Opening!What(Append(s, Opening!Segment("frame", f))) = Append(Opening!What(s), f)
<1>1. Opening!What(s) \in Seq(0..MaxSent) /\ <<>> \in Seq(0..MaxSent) /\ <<>> \in Seq(FrameSegments)
  BY WhatIs
<1>2. <<>> \o s = s /\ <<>> \o Opening!What(s) = Opening!What(s)
  BY <1>1, ConcatEmptySeq
<1>3. Flow(Opening!What(s), <<>>, <<>>, s)
  BY <1>2 DEF Flow
<1>4. Flow(Append(Opening!What(s), f), <<>>, <<>>, Append(s, Opening!Segment("frame", f)))
  BY <1>1, <1>3, FlowWrites
<1>5. Append(s, Opening!Segment("frame", f)) \in Seq(FrameSegments)
  BY FrameIs, AppendProperties
<1>6. /\ <<>> \o Append(s, Opening!Segment("frame", f)) = Append(s, Opening!Segment("frame", f))
      /\ <<>> \o Opening!What(Append(s, Opening!Segment("frame", f))) = Opening!What(Append(s,
           Opening!Segment("frame", f)))
  BY <1>5, WhatIs, ConcatEmptySeq
<1> QED
  BY <1>4, <1>6 DEF Flow

LEMMA ServerWritesStep ==
    ASSUME Opening!HandshakeAssumption, OpenInv, Opening!ServerWrites
    PROVE  OpenInv'
<1>1. /\ sv = "open" /\ cnet = "up" /\ Len(swrote) < MaxSent
      /\ UNCHANGED <<clock, Opening!client, up, snet, sdl, sbuf, key, said, cwrote, cread, sread,
           losses>>
  BY DEF Opening!ServerWrites
<1>2. sdl = None /\ Taken /\ ~Dialing
  BY <1>1 DEF OpenInv, Untimed, Taken, Ahead
<1> DEFINE f == Len(swrote) + 1
           x == Opening!Segment("frame", f)
<1>3. f \in 0..MaxSent /\ swrote \in Seq(0..MaxSent) /\ down \in Seq(Opening!Segments)
  BY <1>1 DEF OpenInv, OpenTyped, Opening!HandshakeAssumption
<1>4. swrote' = Append(swrote, f) /\ down' = Append(down, x) /\ sv' = sv
  BY <1>2 DEF Opening!ServerWrites, Opening!InTime
<1> HIDE DEF f
<1>5. x \in FrameSegments /\ x \in Opening!Segments
  BY <1>3, FrameIs DEF FrameSegments, Opening!Segments
<1> HIDE DEF x
<1>6. swrote' \in Seq(0..MaxSent) /\ down' \in Seq(Opening!Segments) /\ down' # <<>>
  <2>1. Append(swrote, f) \in Seq(0..MaxSent)
    BY <1>3
  <2>2. Append(down, x) \in Seq(Opening!Segments) /\ Append(down, x) # <<>>
    BY <1>3, <1>5
  <2> QED
    BY <1>4, <2>1, <2>2
<1>7. down # <<>> => Head(down') = Head(down) /\ Tail(down') = Append(Tail(down), x)
  BY <1>3, <1>4, HeadTailAppend
<1>8. cl = "waiting" => down # <<>> /\ Tail(down) \in Seq(FrameSegments)
  BY <1>1 DEF OpenInv, BothEnds, Answer, Welcomed
<1>9. cl = "open" => cbuf \in Seq(FrameSegments) /\ down \in Seq(FrameSegments)
  BY DEF OpenInv, Answer
<1> USE DEF Opening!client
<1>10. OpenTyped' /\ Untimed'
  BY <1>1, <1>2, <1>4, <1>6 DEF OpenInv, OpenTyped, Untimed
<1>11. Ahead'
  BY <1>1, <1>2, <1>4 DEF OpenInv, Ahead, Dialing
<1>12. BothEnds'
  BY <1>1, <1>2, <1>4, <1>6 DEF OpenInv, BothEnds, Opening!NothingLeftOpen, Taken
<1>13. Answer'
  <2>1. cl = "waiting" => Head(down') = Head(down) /\ Tail(down') \in Seq(FrameSegments)
    <3>1. \A s \in Seq(FrameSegments) : Append(s, x) \in Seq(FrameSegments)
      BY <1>5
    <3> QED
      BY <1>7, <1>8, <3>1
  <2>2. cl = "open" => down' \in Seq(FrameSegments)
    BY <1>4, <1>5, <1>9, AppendProperties
  <2> QED
    BY <1>1, <1>4, <1>8, <2>1, <2>2 DEF OpenInv, Answer, Welcomed
<1>14. Request' /\ FlowsUp'
  BY <1>1, <1>4 DEF OpenInv, Request, Taken, FlowsUp
<1>15. FlowsDown'
  <2>1. CASE cl = "waiting" /\ losses = 0
    <3>1. swrote = Opening!What(Tail(down))
      BY <1>1, <2>1 DEF OpenInv, FlowsDown
    <3>2. Opening!What(Append(Tail(down), x)) = Append(Opening!What(Tail(down)), f)
      BY <1>3, <1>8, <2>1, WhatMore DEF x
    <3> QED
      BY <1>1, <1>4, <1>7, <1>8, <2>1, <3>1, <3>2 DEF FlowsDown
  <2>2. CASE cl = "open" /\ losses = 0
    <3>1. Flow(swrote, cread, cbuf, down)
      BY <1>1, <2>2 DEF OpenInv, FlowsDown
    <3>2. Flow(swrote', cread, cbuf, down')
      BY <1>3, <1>4, <1>9, <2>2, <3>1, FlowWrites DEF x, OpenInv, OpenTyped
    <3> QED
      BY <1>1, <2>2, <3>2 DEF FlowsDown
  <2> QED
    BY <1>1, <2>1, <2>2 DEF FlowsDown
<1> QED
  BY <1>10, <1>11, <1>12, <1>13, <1>14, <1>15 DEF OpenInv

\* A read of a frame leaves frames.
LEMMA ReadLeaves ==
    ASSUME NEW buffer \in Seq(FrameSegments), NEW wire \in Seq(FrameSegments), buffer \o wire # <<>>
    PROVE  /\ Head(buffer \o wire).what \in 0..MaxSent
           /\ (IF buffer = <<>> THEN <<>> ELSE Tail(buffer)) \in Seq(FrameSegments)
           /\ (IF buffer = <<>> THEN Tail(wire) ELSE wire) \in Seq(FrameSegments)
<1>1. buffer \o wire \in Seq(FrameSegments)
  OBVIOUS
<1>2. Head(buffer \o wire) \in FrameSegments
  BY <1>1, HeadTailProperties
<1>3. \A x \in FrameSegments : x.what \in 0..MaxSent
  BY DEF FrameSegments, Opening!Segment
<1>4. buffer # <<>> => Tail(buffer) \in Seq(FrameSegments)
  BY HeadTailProperties
<1>5. buffer = <<>> => wire # <<>>
  BY ConcatEmptySeq
<1>6. buffer = <<>> => Tail(wire) \in Seq(FrameSegments)
  BY <1>5, HeadTailProperties
<1> QED
  BY <1>2, <1>3, <1>4, <1>6

LEMMA ClientReadsStep ==
    ASSUME Opening!HandshakeAssumption, OpenInv, Opening!ClientReads
    PROVE  OpenInv'
<1>1. /\ cl = "open" /\ cbuf \o down # <<>>
      /\ UNCHANGED <<clock, cnet, cdl, askedFor, response, up, Opening!server, cwrote, swrote, sread,
           losses>>
  BY DEF Opening!ClientReads
<1>2. cdl = None /\ Welcomed /\ cbuf \in Seq(FrameSegments) /\ down \in Seq(FrameSegments)
      /\ cread \in Seq(0..MaxSent)
  BY <1>1 DEF OpenInv, Untimed, Answer, OpenTyped
<1>3. /\ cread' = Append(cread, Head(cbuf \o down).what)
      /\ cbuf' = (IF cbuf = <<>> THEN <<>> ELSE Tail(cbuf))
      /\ down' = (IF cbuf = <<>> THEN Tail(down) ELSE down)
  BY <1>2 DEF Opening!ClientReads, Opening!InTime
<1>0. cl' = cl
  BY <1>2 DEF Opening!ClientReads, Opening!InTime
<1>4. cread' \in Seq(0..MaxSent) /\ cbuf' \in Seq(FrameSegments) /\ down' \in Seq(FrameSegments)
  <2>1. Head(cbuf \o down).what \in 0..MaxSent
    BY <1>1, <1>2, ReadLeaves
  <2>2. cbuf' \in Seq(FrameSegments) /\ down' \in Seq(FrameSegments)
    BY <1>1, <1>2, <1>3, ReadLeaves
  <2>3. Append(cread, Head(cbuf \o down).what) \in Seq(0..MaxSent)
    BY <1>2, <2>1, AppendProperties
  <2> QED
    BY <1>3, <2>2, <2>3
<1>5. cbuf' \in Seq(Opening!Segments) /\ down' \in Seq(Opening!Segments)
  BY <1>4, FrameSeqs
<1> USE DEF Opening!server
<1>6. OpenTyped' /\ Untimed'
  <2>0. UNCHANGED <<clock, cnet, cdl, askedFor, response, up, Opening!server, cwrote, swrote, sread,
        losses>>
    BY <1>1
  <2>1. OpenTyped'
    BY <1>0, <1>4, <1>5, <2>0 DEF OpenInv, OpenTyped
  <2>2. Untimed'
    BY <1>0, <2>0 DEF OpenInv, Untimed
  <2> QED
    BY <2>1, <2>2
<1>7. Ahead'
  BY <1>0, <1>1, <1>2 DEF OpenInv, Ahead, Dialing, Welcomed
<1>8. BothEnds' /\ Answer'
  BY <1>0, <1>1, <1>2, <1>4 DEF OpenInv, BothEnds, Opening!NothingLeftOpen, Taken, Answer, Welcomed
<1>9. Request' /\ FlowsUp'
  BY <1>0, <1>1, <1>2 DEF OpenInv, Request, Taken, FlowsUp
<1>10. FlowsDown'
  <2>1. losses = 0 /\ sv = "open" => Flow(swrote, cread, cbuf, down)
    BY <1>1, <1>2 DEF OpenInv, FlowsDown
  <2>2. losses = 0 /\ sv = "open" => Flow(swrote, cread', cbuf', down')
    BY <1>1, <1>2, <1>3, <2>1, FlowReads
  <2> QED
    BY <1>0, <1>1, <2>2 DEF FlowsDown
<1> QED
  BY <1>6, <1>7, <1>8, <1>9, <1>10 DEF OpenInv

LEMMA ServerReadsStep ==
    ASSUME Opening!HandshakeAssumption, OpenInv, Opening!ServerReads
    PROVE  OpenInv'
<1>1. /\ sv = "open" /\ sbuf \o up # <<>>
      /\ sread' = Append(sread, Head(sbuf \o up).what)
      /\ sbuf' = (IF sbuf = <<>> THEN <<>> ELSE Tail(sbuf))
      /\ up' = (IF sbuf = <<>> THEN Tail(up) ELSE up)
  BY DEF Opening!ServerReads
<1>0. UNCHANGED <<clock, Opening!client, down, sv, snet, sdl, key, said, cwrote, swrote, cread, losses>>
  BY DEF Opening!ServerReads
<1>2. Taken /\ sbuf \in Seq(FrameSegments) /\ up \in Seq(FrameSegments) /\ sread \in Seq(0..MaxSent)
      /\ ~Dialing
  BY <1>1 DEF OpenInv, Request, Taken, OpenTyped, Ahead
<1>3. sread' \in Seq(0..MaxSent) /\ sbuf' \in Seq(FrameSegments) /\ up' \in Seq(FrameSegments)
  <2>1. Head(sbuf \o up).what \in 0..MaxSent
    BY <1>1, <1>2, ReadLeaves
  <2>2. sbuf' \in Seq(FrameSegments) /\ up' \in Seq(FrameSegments)
    BY <1>1, <1>2, ReadLeaves
  <2>3. Append(sread, Head(sbuf \o up).what) \in Seq(0..MaxSent)
    BY <1>2, <2>1, AppendProperties
  <2> QED
    BY <1>1, <2>2, <2>3
<1>4. sbuf' \in Seq(Opening!Segments) /\ up' \in Seq(Opening!Segments)
  BY <1>3, FrameSeqs
<1> USE DEF Opening!client
<1>5. OpenTyped' /\ Untimed'
  <2>1. OpenTyped'
    BY <1>0, <1>3, <1>4 DEF OpenInv, OpenTyped
  <2>2. Untimed'
    BY <1>0 DEF OpenInv, Untimed
  <2> QED
    BY <2>1, <2>2
<1>6. Ahead'
  BY <1>0, <1>1, <1>2 DEF OpenInv, Ahead, Dialing
<1>7. BothEnds' /\ Answer'
  BY <1>0, <1>1 DEF OpenInv, BothEnds, Opening!NothingLeftOpen, Taken, Answer, Welcomed
<1>8. Request' /\ FlowsDown'
  BY <1>0, <1>1, <1>3 DEF OpenInv, Request, Taken, FlowsDown
<1>9. FlowsUp'
  <2>1. losses = 0 /\ cl \in {"waiting", "open"} => Flow(cwrote, sread, sbuf, up)
    BY <1>2 DEF OpenInv, FlowsUp
  <2>2. losses = 0 /\ cl \in {"waiting", "open"} => Flow(cwrote, sread', sbuf', up')
    BY <1>1, <1>2, <2>1, FlowReads
  <2> QED
    BY <1>0, <2>2, <1>1 DEF FlowsUp
<1> QED
  BY <1>5, <1>6, <1>7, <1>8, <1>9 DEF OpenInv

-----------------------------------------------------------------------------
LEMMA OpenInit ==
    ASSUME Opening!HandshakeAssumption, Opening!Init
    PROVE  OpenInv
<1>1. OpenTyped
  <2>1. clock \in 0..MaxClock /\ losses \in 0..MaxLosses /\ None \in Opening!Time
    BY DEF Opening!HandshakeAssumption, Opening!Init, Opening!Time
  <2>2. \A S : <<>> \in Seq(S)
    OBVIOUS
  <2>3. /\ up \in Seq(Opening!Segments) /\ down \in Seq(Opening!Segments)
             /\ cbuf \in Seq(Opening!Segments) /\ sbuf \in Seq(Opening!Segments)
        /\ cwrote \in Seq(0..MaxSent) /\ swrote \in Seq(0..MaxSent)
        /\ cread \in Seq(0..MaxSent) /\ sread \in Seq(0..MaxSent)
    BY <2>2 DEF Opening!Init
  <2>4. cdl \in Opening!Time /\ sdl \in Opening!Time /\ said \in BOOLEAN /\ key \in {"own", None}
    BY <2>1 DEF Opening!Init
  <2> QED
    BY <2>1, <2>3, <2>4 DEF Opening!Init, OpenTyped
<1>2. Untimed /\ Ahead /\ BothEnds
  BY DEF Opening!Init, Untimed, Ahead, BothEnds, Opening!NothingLeftOpen, Taken, Dialing
<1>3. Answer /\ Request /\ FlowsDown /\ FlowsUp
  BY DEF Opening!Init, Answer, Welcomed, Request, FlowsDown, FlowsUp, Taken
<1> QED
  BY <1>1, <1>2, <1>3 DEF OpenInv

LEMMA OpenStep ==
    ASSUME Opening!HandshakeAssumption, OpenInv, [Opening!Next]_Opening!vars
    PROVE  OpenInv'
<1>1. CASE Opening!WriteAcceptFails
  BY <1>1, FailedStep DEF Opening!WriteAcceptFails
<1>2. CASE UNCHANGED Opening!vars
  <2> USE <1>2 DEF Opening!vars, Opening!client, Opening!server, Opening!talk
  <2>1. OpenTyped' /\ Untimed' /\ Ahead'
    BY DEF OpenInv, OpenTyped, Untimed, Ahead, Dialing
  <2>2. BothEnds' /\ Answer' /\ Request'
    BY DEF OpenInv, BothEnds, Opening!NothingLeftOpen, Taken, Answer, Welcomed, Request
  <2>3. FlowsDown' /\ FlowsUp'
    BY DEF OpenInv, FlowsDown, FlowsUp, Taken
  <2> QED
    BY <2>1, <2>2, <2>3 DEF OpenInv
<1> QED
  BY <1>1, <1>2, DialStep, WriteRequestStep, ReadResponseStep, UpgradeStep, TakeOverStep,
      WriteAcceptStep,
     InterceptStep, LoseStep, ClientWritesStep, ServerWritesStep, ClientReadsStep, ServerReadsStep
         DEF Opening!Next

LEMMA OpenEnough ==
    ASSUME OpenInv
    PROVE  Opening!HandshakeSound
<1>1. Opening!TypeOK
  <2>1. \A s \in Seq(Opening!Segments) : \A i \in DOMAIN s : s[i] \in Opening!Segments
    OBVIOUS
  <2>2. \A q \in {up, down, cbuf, sbuf} : \A i \in DOMAIN q : q[i] \in Opening!Segments
    BY <2>1 DEF OpenInv, OpenTyped
  <2> QED
    BY <2>2 DEF OpenInv, OpenTyped, Opening!TypeOK
<1>2. Opening!DialedMeansUpgraded /\ Opening!NothingLeftOpen /\ Opening!ConversationsLast
  BY DEF OpenInv, OpenTyped, Answer, Welcomed, BothEnds, Opening!DialedMeansUpgraded,
         Opening!ConversationsLast
<1>3. Opening!FirstFramesKept
  BY DEF OpenInv, FlowsDown, FlowsUp, Taken, Flow, Opening!FirstFramesKept
<1> QED
  BY <1>1, <1>2, <1>3 DEF Opening!HandshakeSound

LEMMA OpenInvariant == ASSUME Opening!HandshakeAssumption PROVE Opening!Spec => []OpenInv
<1>1. Opening!Init => OpenInv
  BY OpenInit
<1>2. OpenInv /\ [Opening!Next]_Opening!vars => OpenInv'
  BY OpenStep
<1> QED
  BY <1>1, <1>2, PTL DEF Opening!Spec

\* A Dial that succeeded met an Upgrade that answered this very request, and from
\* the first frame on nothing is lost, doubled or reordered; a handshake that failed
\* leaves no connection open, and one that did not leaves no deadline behind, whatever
\* the timeout, the proxy between the ends and the segments the bytes come in.
THEOREM HandshakeIsSound == Opening!Spec => []HandshakeSound
<1>1. OpenInv => HandshakeSound
  BY OpenEnough DEF HandshakeSound
<1>2. Opening!Spec => []OpenInv
  BY WsAssumption, OpenInvariant DEF WsAssumption
<1> QED
  BY <1>1, <1>2, PTL

-----------------------------------------------------------------------------
(***************************************************************************)
(* The text of messages and of close reasons. A parse of a byte string     *)
(* begins at its first byte and a rune's first byte tells its length, so   *)
(* it has no choice: RunesTo says how far whole runes reach, and the       *)
(* recursion of Parses is unfolded once, from there.                       *)
(***************************************************************************)

\* The forms one by one.
FormA == <<0..127>>
FormB == <<194..223, Following>>
FormC == <<{224}, 160..191, Following>>
FormD == <<225..236 \union {238, 239}, Following, Following>>
FormE == <<{237}, 128..159, Following>>
FormF == <<{240}, 144..191, Following, Following>>
FormG == <<241..243, Following, Following, Following>>
FormH == <<{244}, 128..143, Following, Following>>

LEMMA FormCases ==
    ASSUME NEW f
    PROVE  f \in Forms <=> \/ f = FormA \/ f = FormB \/ f = FormC \/ f = FormD
                           \/ f = FormE \/ f = FormF \/ f = FormG \/ f = FormH
  BY DEF Forms, FormA, FormB, FormC, FormD, FormE, FormF, FormG, FormH

\* What a rune's first two bytes may be, and the length the first announces.
Lead(x) == IF x < 128 THEN 1 ELSE IF x < 224 THEN 2 ELSE IF x < 240 THEN 3 ELSE 4
Announces(x, n) == n = Lead(x)

LEMMA FormIs ==
    ASSUME NEW f \in Forms
    PROVE  /\ Len(f) \in 1..4
           /\ \A x \in f[1] : x \in 0..127 \union 194..244 /\ Len(f) = Lead(x)
           /\ Len(f) > 1 => \A x \in f[2] : x \in Following
           /\ Len(f) > 2 => f[3] = Following
           /\ Len(f) > 3 => f[4] = Following
<1>1. CASE f = FormA
  BY <1>1 DEF FormA, Lead
<1>2. CASE f = FormB
  BY <1>2 DEF FormB, Lead, Following
<1>3. CASE f = FormC
  BY <1>3 DEF FormC, Lead, Following
<1>4. CASE f = FormD
  BY <1>4 DEF FormD, Lead, Following
<1>5. CASE f = FormE
  BY <1>5 DEF FormE, Lead, Following
<1>6. CASE f = FormF
  BY <1>6 DEF FormF, Lead, Following
<1>7. CASE f = FormG
  BY <1>7 DEF FormG, Lead, Following
<1>8. CASE f = FormH
  BY <1>8 DEF FormH, Lead, Following
<1> QED
  BY <1>1, <1>2, <1>3, <1>4, <1>5, <1>6, <1>7, <1>8, FormCases

\* Which two first bytes some form begins with.
Pair(x, y) ==
    \/ x \in 194..223 /\ y \in Following
    \/ x = 224 /\ y \in 160..191
    \/ x \in (225..236 \union {238, 239}) /\ y \in Following
    \/ x = 237 /\ y \in 128..159
    \/ x = 240 /\ y \in 144..191
    \/ x \in 241..243 /\ y \in Following
    \/ x = 244 /\ y \in 128..143

\* The first two bytes tell the form, and the others follow.
LEMMA FormOf ==
    ASSUME NEW x \in Nat, NEW y \in Nat
    PROVE  /\ x < 128 <=> \E f \in Forms : Len(f) = 1 /\ x \in f[1]
           /\ Pair(x, y) <=> \E f \in Forms : Len(f) > 1 /\ x \in f[1] /\ y \in f[2]
<1>1. /\ FormA \in Forms /\ FormB \in Forms /\ FormC \in Forms /\ FormD \in Forms
      /\ FormE \in Forms /\ FormF \in Forms /\ FormG \in Forms /\ FormH \in Forms
  BY FormCases
<1>2. x < 128 => \E f \in Forms : Len(f) = 1 /\ x \in f[1]
  <2>1. x < 128 => Len(FormA) = 1 /\ x \in FormA[1]
    BY DEF FormA
  <2> QED
    BY <1>1, <2>1
<1>3. ASSUME NEW f \in Forms, Len(f) = 1, x \in f[1] PROVE x < 128
  <2>1. Len(f) = Lead(x)
    BY <1>3, FormIs
  <2> QED
    BY <1>3, <2>1 DEF Lead
<1>4. ASSUME Pair(x, y) PROVE \E f \in Forms : Len(f) > 1 /\ x \in f[1] /\ y \in f[2]
  <2>1. CASE x \in 194..223 /\ y \in Following
    <3>1. Len(FormB) > 1 /\ x \in FormB[1] /\ y \in FormB[2]
      BY <2>1 DEF FormB
    <3> QED
      BY <1>1, <3>1
  <2>2. CASE x = 224 /\ y \in 160..191
    <3>1. Len(FormC) > 1 /\ x \in FormC[1] /\ y \in FormC[2]
      BY <2>2 DEF FormC
    <3> QED
      BY <1>1, <3>1
  <2>3. CASE x \in (225..236 \union {238, 239}) /\ y \in Following
    <3>1. Len(FormD) > 1 /\ x \in FormD[1] /\ y \in FormD[2]
      BY <2>3 DEF FormD
    <3> QED
      BY <1>1, <3>1
  <2>4. CASE x = 237 /\ y \in 128..159
    <3>1. Len(FormE) > 1 /\ x \in FormE[1] /\ y \in FormE[2]
      BY <2>4 DEF FormE
    <3> QED
      BY <1>1, <3>1
  <2>5. CASE x = 240 /\ y \in 144..191
    <3>1. Len(FormF) > 1 /\ x \in FormF[1] /\ y \in FormF[2]
      BY <2>5 DEF FormF
    <3> QED
      BY <1>1, <3>1
  <2>6. CASE x \in 241..243 /\ y \in Following
    <3>1. Len(FormG) > 1 /\ x \in FormG[1] /\ y \in FormG[2]
      BY <2>6 DEF FormG
    <3> QED
      BY <1>1, <3>1
  <2>7. CASE x = 244 /\ y \in 128..143
    <3>1. Len(FormH) > 1 /\ x \in FormH[1] /\ y \in FormH[2]
      BY <2>7 DEF FormH
    <3> QED
      BY <1>1, <3>1
  <2> QED
    BY <1>4, <2>1, <2>2, <2>3, <2>4, <2>5, <2>6, <2>7 DEF Pair
<1>5. ASSUME NEW f \in Forms, Len(f) > 1, x \in f[1], y \in f[2] PROVE Pair(x, y)
  <2>1. CASE f = FormA
    BY <1>5, <2>1 DEF FormA
  <2>2. CASE f = FormB
    BY <1>5, <2>2 DEF FormB, Pair
  <2>3. CASE f = FormC
    BY <1>5, <2>3 DEF FormC, Pair
  <2>4. CASE f = FormD
    BY <1>5, <2>4 DEF FormD, Pair
  <2>5. CASE f = FormE
    BY <1>5, <2>5 DEF FormE, Pair
  <2>6. CASE f = FormF
    BY <1>5, <2>6 DEF FormF, Pair
  <2>7. CASE f = FormG
    BY <1>5, <2>7 DEF FormG, Pair
  <2>8. CASE f = FormH
    BY <1>5, <2>8 DEF FormH, Pair
  <2> QED
    BY <2>1, <2>2, <2>3, <2>4, <2>5, <2>6, <2>7, <2>8, FormCases
<1> QED
  BY <1>2, <1>3, <1>4, <1>5

-----------------------------------------------------------------------------
\* One step of the recursion of Parses: s from i on.
ParsedFrom(s, partial, g, i) ==
    \/ i = Len(s) + 1
    \/ \E f \in Forms :
         \/ /\ i + Len(f) - 1 <= Len(s)
            /\ Matches(s, i, f, Len(f))
            /\ g[i + Len(f)]
         \/ /\ partial
            /\ Len(s) < i + Len(f) - 1
            /\ Matches(s, i, f, Len(s) - i + 1)

\* The recursion has a solution: it goes from the end to the beginning.
LEMMA ParseExists ==
    ASSUME NEW s, Len(s) \in Nat, NEW partial
    PROVE  \E g : g = [i \in 1..(Len(s) + 1) |-> ParsedFrom(s, partial, g, i)]
<1> DEFINE n == Len(s)
           From(k, g) == g = [i \in (n + 1 - k)..(n + 1) |-> ParsedFrom(s, partial, g, i)]
           S == {k \in 0..n : \E g : From(k, g)}
<1> HIDE DEF n
<1>1. n \in Nat
  BY DEF n
<1>2. 0 \in S
  <2> DEFINE g == [i \in (n + 1 - 0)..(n + 1) |-> TRUE]
  <2>1. \A i \in (n + 1 - 0)..(n + 1) : g[i] = ParsedFrom(s, partial, g, i)
    BY <1>1 DEF ParsedFrom, n
  <2>2. From(0, g)
    BY <2>1
  <2> HIDE DEF From
  <2> QED
    BY <1>1, <2>2
<1>3. ASSUME NEW k \in 0..n, k < n, k \in S PROVE k + 1 \in S
  <2>1. PICK g : From(k, g)
    BY <1>3
  <2> DEFINE m == n - k
             h == [i \in m..(n + 1) |-> IF i = m THEN ParsedFrom(s, partial, g, m) ELSE g[i]]
  <2>2. m \in 1..n /\ m = n + 1 - (k + 1) /\ m + 1 = n + 1 - k
    BY <1>1, <1>3
  <2> HIDE DEF m
  <2>3. ASSUME NEW i \in m..(n + 1) PROVE ParsedFrom(s, partial, g, i) <=> ParsedFrom(s, partial, h, i)
    <3>1. ASSUME NEW f \in Forms, i + Len(f) - 1 <= Len(s) PROVE g[i + Len(f)] = h[i + Len(f)]
      <4>1. Len(f) \in 1..4
        BY FormIs
      <4>2. i + Len(f) - 1 <= n
        BY <3>1 DEF n
      <4>3. i \in Nat /\ m <= i /\ m \in Nat
        BY <1>1, <2>2
      <4>4. i + Len(f) \in m..(n + 1) /\ i + Len(f) # m
        BY <1>1, <4>1, <4>2, <4>3
      <4> QED
        BY <4>4
    <3> HIDE DEF h
    <3> QED
      BY <3>1 DEF ParsedFrom
  <2>4. ASSUME NEW i \in m..(n + 1) PROVE h[i] = ParsedFrom(s, partial, h, i)
    <3>1. h[i] = ParsedFrom(s, partial, g, i)
      <4>1. CASE i = m
        BY <4>1
      <4>2. CASE i # m
        <5>1. i \in (n + 1 - k)..(n + 1) /\ h[i] = g[i]
          BY <1>1, <2>2, <4>2
        <5> QED
          BY <2>1, <5>1
      <4> QED
        BY <4>1, <4>2
    <3>2. ParsedFrom(s, partial, g, i) = ParsedFrom(s, partial, h, i)
      BY <2>3 DEF ParsedFrom
    <3> QED
      BY <3>1, <3>2
  <2>5. From(k + 1, h)
    BY <2>2, <2>4
  <2> HIDE DEF From, h
  <2>6. k + 1 \in 0..n
    BY <1>1, <1>3
  <2> QED
    BY <2>5, <2>6
<1> HIDE DEF S
<1>4. \A k \in 0..n : k \in S
  BY <1>2, <1>3, <1>1, Upward
<1>5. n \in S
  BY <1>1, <1>4
<1>6. PICK g : From(n, g)
  BY <1>5 DEF S
<1>7. n + 1 - n = 1
  BY <1>1
<1> QED
  BY <1>6, <1>7 DEF n

LEMMA ParsesIs ==
    ASSUME NEW s, Len(s) \in Nat, NEW partial
    PROVE  \E g : /\ g = [i \in 1..(Len(s) + 1) |-> ParsedFrom(s, partial, g, i)]
                  /\ Parses(s, partial) = g[1]
<1> DEFINE c == CHOOSE h : h = [i \in 1..(Len(s) + 1) |-> ParsedFrom(s, partial, h, i)]
<1>1. c = [i \in 1..(Len(s) + 1) |-> ParsedFrom(s, partial, c, i)]
  BY ParseExists
<1>2. Parses(s, partial) = c[1]
  BY DEF Parses, ParsedFrom
<1> QED
  BY <1>1, <1>2

\* A rune of n bytes begins at i; and the first p bytes are runes: whatever holds at
\* the beginning and after every rune of it holds there.
RuneAt(s, i, n) == \E f \in Forms : Len(f) = n /\ i + n - 1 <= Len(s) /\ Matches(s, i, f, n)

Closed(s, p, S) == 1 \in S /\ \A i \in S : \A n \in 1..4 : i + n - 1 <= p /\ RuneAt(s, i, n)
    => i + n \in S
RunesTo(s, p) == \A S \in SUBSET (1..(p + 1)) : Closed(s, p, S) => p + 1 \in S

LEMMA NoRunes == ASSUME NEW s PROVE RunesTo(s, 0)
  BY DEF RunesTo, Closed

LEMMA OneRune ==
    ASSUME NEW s, NEW p \in Nat, RunesTo(s, p), NEW n \in 1..4, RuneAt(s, p + 1, n)
    PROVE  RunesTo(s, p + n)
<1> SUFFICES ASSUME NEW S \in SUBSET (1..(p + n + 1)), Closed(s, p + n, S) PROVE p + n + 1 \in S
  BY DEF RunesTo
<1> DEFINE T == S \cap 1..(p + 1)
<1>1. T \in SUBSET (1..(p + 1))
  OBVIOUS
<1>2. 1 \in T
  BY DEF Closed
<1>3. ASSUME NEW i \in T, NEW m \in 1..4, i + m - 1 <= p, RuneAt(s, i, m) PROVE i + m \in T
  <2>1. i \in S /\ i \in Nat /\ i + m - 1 <= p + n /\ i + m \in 1..(p + 1)
    BY <1>3
  <2> QED
    BY <1>3, <2>1 DEF Closed
<1>4. Closed(s, p, T)
  BY <1>2, <1>3 DEF Closed
<1>5. p + 1 \in S
  BY <1>1, <1>4 DEF RunesTo
<1>6. (p + 1) + n - 1 <= p + n /\ (p + 1) + n = p + n + 1
  OBVIOUS
<1>7. (p + 1) + n \in S
  BY <1>5, <1>6 DEF Closed
<1> QED
  BY <1>6, <1>7

\* Bytes that come later change nothing.
LEMMA RunesKept ==
    ASSUME NEW s \in Seq(Nat), NEW u \in Seq(Nat), NEW p \in Nat, p <= Len(s), p <= Len(u),
           \A i \in 1..p : u[i] = s[i], RunesTo(s, p)
    PROVE  RunesTo(u, p)
<1> SUFFICES ASSUME NEW S \in SUBSET (1..(p + 1)), Closed(u, p, S) PROVE p + 1 \in S
  BY DEF RunesTo
<1>1. ASSUME NEW i \in S, NEW n \in 1..4, i + n - 1 <= p, RuneAt(s, i, n) PROVE i + n \in S
  <2>1. i \in 1..(p + 1)
    OBVIOUS
  <2>2. i \in Nat \ {0} /\ \A k \in 1..n : i + k - 1 \in 1..p
    BY <1>1, <2>1
  <2>3. \A f : Matches(u, i, f, n) <=> Matches(s, i, f, n)
    BY <2>2 DEF Matches
  <2>4. RuneAt(u, i, n)
    BY <1>1, <2>2, <2>3 DEF RuneAt
  <2> QED
    BY <1>1, <2>4 DEF Closed
<1>2. Closed(s, p, S)
  BY <1>1 DEF Closed
<1> QED
  BY <1>2 DEF RunesTo

\* The first byte of a rune tells its length, so a parse has no choice.
LEMMA Begun ==
    ASSUME NEW s, NEW i \in Nat, NEW f \in Forms, NEW n \in Nat, n >= 1, Matches(s, i, f, n)
    PROVE  s[i] \in f[1] /\ Len(f) = Lead(s[i])
<1>1. 1 \in 1..n /\ i + 1 - 1 = i
  OBVIOUS
<1>2. s[i + 1 - 1] \in f[1]
  BY <1>1 DEF Matches
<1>3. s[i] \in f[1]
  BY <1>1, <1>2
<1> QED
  BY <1>3, FormIs

LEMMA SkipRune ==
    ASSUME NEW s \in Seq(Nat), NEW partial, NEW g,
           g = [i \in 1..(Len(s) + 1) |-> ParsedFrom(s, partial, g, i)],
           NEW i \in 1..(Len(s) + 1), NEW n \in 1..4, RuneAt(s, i, n)
    PROVE  g[i] <=> g[i + n]
<1>1. g[i] <=> ParsedFrom(s, partial, g, i)
  OBVIOUS
<1>2. PICK f \in Forms : Len(f) = n /\ i + n - 1 <= Len(s) /\ Matches(s, i, f, n)
  BY DEF RuneAt
<1>3. n = Lead(s[i])
  BY <1>2, Begun
<1>4. g[i + n] => ParsedFrom(s, partial, g, i)
  BY <1>2 DEF ParsedFrom
<1>5. ASSUME ParsedFrom(s, partial, g, i) PROVE g[i + n]
  <2>1. i # Len(s) + 1 /\ i <= Len(s)
    BY <1>2
  <2>2. PICK h \in Forms :
           \/ /\ i + Len(h) - 1 <= Len(s)
              /\ Matches(s, i, h, Len(h))
              /\ g[i + Len(h)]
           \/ /\ partial
              /\ Len(s) < i + Len(h) - 1
              /\ Matches(s, i, h, Len(s) - i + 1)
    BY <1>5, <2>1 DEF ParsedFrom
  <2>3. Len(h) = n
    <3>1. Len(h) \in 1..4
      BY FormIs
    <3>2. Len(s) - i + 1 \in Nat /\ Len(s) - i + 1 >= 1
      BY <2>1
    <3>3. CASE Matches(s, i, h, Len(h))
      <4>1. \A k \in 1..4 : k \in Nat /\ k >= 1
        OBVIOUS
      <4>2. Len(h) \in Nat /\ Len(h) >= 1
        BY <3>1, <4>1
      <4>3. Len(h) = Lead(s[i])
        BY <3>3, <4>2, Begun
      <4> QED
        BY <1>3, <4>3
    <3>4. CASE Matches(s, i, h, Len(s) - i + 1)
      BY <1>3, <3>2, <3>4, Begun
    <3> QED
      BY <2>2, <3>3, <3>4
  <2> QED
    BY <1>2, <2>2, <2>3
<1> QED
  BY <1>1, <1>4, <1>5

LEMMA SkipRunes ==
    ASSUME NEW s \in Seq(Nat), NEW partial, NEW p \in Nat, p <= Len(s), RunesTo(s, p)
    PROVE  \E g : /\ g = [i \in 1..(Len(s) + 1) |-> ParsedFrom(s, partial, g, i)]
                  /\ Parses(s, partial) <=> ParsedFrom(s, partial, g, p + 1)
<1>1. Len(s) \in Nat
  OBVIOUS
<1>2. PICK g : /\ g = [i \in 1..(Len(s) + 1) |-> ParsedFrom(s, partial, g, i)]
               /\ Parses(s, partial) = g[1]
  BY <1>1, ParsesIs
<1> DEFINE S == {i \in 1..(p + 1) : g[1] <=> g[i]}
<1>3. S \in SUBSET (1..(p + 1)) /\ 1 \in S
  OBVIOUS
<1>4. ASSUME NEW i \in S, NEW n \in 1..4, i + n - 1 <= p, RuneAt(s, i, n) PROVE i + n \in S
  <2>1. i \in 1..(Len(s) + 1) /\ i + n \in 1..(p + 1)
    BY <1>1, <1>4
  <2>2. g[i] <=> g[i + n]
    <3> HIDE DEF S
    <3>1. g = [j \in 1..(Len(s) + 1) |-> ParsedFrom(s, partial, g, j)]
      BY <1>2
    <3> QED
      BY <1>4, <2>1, <3>1, SkipRune
  <2> QED
    BY <2>1, <2>2
<1> HIDE DEF S
<1>5. p + 1 \in S
  BY <1>3, <1>4 DEF RunesTo, Closed
<1>6. p + 1 \in 1..(Len(s) + 1)
  BY <1>1
<1>7. g[p + 1] = ParsedFrom(s, partial, g, p + 1)
  BY <1>2, <1>6
<1> QED
  BY <1>2, <1>5, <1>7 DEF S

\* Runes to the end; runes and the beginning of one; runes and what begins none.
LEMMA WholeParses ==
    ASSUME NEW s \in Seq(Nat), NEW partial, RunesTo(s, Len(s))
    PROVE  Parses(s, partial)
<1>1. Len(s) \in Nat /\ Len(s) <= Len(s)
  OBVIOUS
<1>2. PICK g : Parses(s, partial) <=> ParsedFrom(s, partial, g, Len(s) + 1)
  BY <1>1, SkipRunes
<1> QED
  BY <1>2 DEF ParsedFrom

LEMMA ShortParses ==
    ASSUME NEW s \in Seq(Nat), NEW p \in Nat, p < Len(s), RunesTo(s, p), Len(s) - p < Lead(s[p + 1])
    PROVE  ~WellFormed(s)
<1>1. Len(s) \in Nat /\ p <= Len(s) /\ p + 1 \in Nat
  OBVIOUS
<1>2. PICK g : Parses(s, FALSE) <=> ParsedFrom(s, FALSE, g, p + 1)
  BY <1>1, SkipRunes
<1>3. ASSUME NEW f \in Forms, (p + 1) + Len(f) - 1 <= Len(s), Matches(s, p + 1, f, Len(f)) PROVE FALSE
  <2>1. \A k \in 1..4 : k \in Nat /\ k >= 1
    OBVIOUS
  <2>2. Len(f) \in Nat /\ Len(f) >= 1
    BY <2>1, FormIs
  <2>3. Len(f) = Lead(s[p + 1])
    BY <1>1, <1>3, <2>2, Begun
  <2> QED
    BY <1>1, <1>3, <2>2, <2>3
<1>4. p + 1 # Len(s) + 1
  BY <1>1
<1> QED
  BY <1>2, <1>3, <1>4 DEF ParsedFrom, WellFormed

LEMMA DeadParses ==
    ASSUME NEW s \in Seq(Nat), NEW p \in Nat, NEW k \in 1..4, k = Len(s) - p, RunesTo(s, p),
           k <= Lead(s[p + 1]), \A f \in Forms : Len(f) >= k => ~Matches(s, p + 1, f, k)
    PROVE  ~WellFormed(s) /\ ~Extendable(s)
<1> SUFFICES ASSUME NEW partial, Parses(s, partial) PROVE FALSE
  BY DEF WellFormed, Extendable
<1>1. Len(s) \in Nat /\ p <= Len(s) /\ p + 1 \in Nat /\ p + 1 # Len(s) + 1 /\ Len(s) - (p + 1) + 1 = k
  OBVIOUS
<1>2. PICK g : Parses(s, partial) <=> ParsedFrom(s, partial, g, p + 1)
  BY <1>1, SkipRunes
<1>3. PICK f \in Forms : \/ Matches(s, p + 1, f, Len(f))
                         \/ Len(s) < (p + 1) + Len(f) - 1 /\ Matches(s, p + 1, f, k)
  BY <1>1, <1>2 DEF ParsedFrom
<1>4. \A j \in 1..4 : j \in Nat /\ j >= 1
  OBVIOUS
<1>5. Len(f) \in Nat /\ Len(f) >= 1
  BY <1>4, FormIs
<1>6. CASE Matches(s, p + 1, f, Len(f))
  <2>1. Len(f) = Lead(s[p + 1])
    BY <1>1, <1>5, <1>6, Begun
  <2>2. \A j \in 1..k : j \in 1..Len(f)
    BY <1>5, <2>1
  <2>3. Matches(s, p + 1, f, k)
    BY <1>6, <2>2 DEF Matches
  <2> QED
    BY <2>1, <2>3
<1>7. CASE Len(s) < (p + 1) + Len(f) - 1 /\ Matches(s, p + 1, f, k)
  <2>1. Len(f) >= k
    BY <1>1, <1>5, <1>7
  <2> QED
    BY <1>7, <2>1
<1> QED
  BY <1>3, <1>6, <1>7

\* A rune by its first two bytes.
LEMMA PairRune ==
    ASSUME NEW s \in Seq(Nat), NEW i \in Nat \ {0}, NEW n \in 2..4, i + n - 1 = Len(s),
           Announces(s[i], n), Pair(s[i], s[i + 1]), \A k \in 3..n : s[i + k - 1] \in Following
    PROVE  RuneAt(s, i, n)
<1>1. i \in 1..Len(s) /\ i + 1 \in 1..Len(s)
  OBVIOUS
<1>2. s[i] \in Nat /\ s[i + 1] \in Nat
  BY <1>1
<1>3. PICK f \in Forms : Len(f) > 1 /\ s[i] \in f[1] /\ s[i + 1] \in f[2]
  BY <1>2, FormOf
<1>4. Len(f) = n /\ (n > 2 => f[3] = Following) /\ (n > 3 => f[4] = Following)
  BY <1>3, FormIs, ZenonT(30) DEF Announces
<1>5. ASSUME NEW k \in 1..n PROVE s[i + k - 1] \in f[k]
  <2>1. CASE k = 1
    BY <1>3, <2>1
  <2>2. CASE k = 2
    BY <1>3, <2>2
  <2>3. CASE k = 3
    <3>1. n > 2 /\ k \in 3..n
      BY <2>3
    <3> QED
      BY <1>4, <2>3, <3>1
  <2>4. CASE k = 4
    <3>1. n > 3 /\ k \in 3..n
      BY <2>4
    <3> QED
      BY <1>4, <2>4, <3>1
  <2>5. k = 1 \/ k = 2 \/ k = 3 \/ k = 4
    OBVIOUS
  <2> QED
    BY <2>1, <2>2, <2>3, <2>4, <2>5
<1>6. Matches(s, i, f, n)
  BY <1>5 DEF Matches
<1> QED
  BY <1>4, <1>6 DEF RuneAt

LEMMA NoPair ==
    ASSUME NEW s \in Seq(Nat), NEW i \in Nat \ {0}, NEW k \in 2..4, i + 1 <= Len(s), s[i] >= 128,
           ~Pair(s[i], s[i + 1]), NEW f \in Forms, Len(f) >= k
    PROVE  ~Matches(s, i, f, k)
<1> SUFFICES ASSUME Matches(s, i, f, k) PROVE FALSE
  OBVIOUS
<1>1. s[i] \in Nat /\ s[i + 1] \in Nat
  OBVIOUS
<1>2. 1 \in 1..k /\ 2 \in 1..k /\ i + 1 - 1 = i /\ i + 2 - 1 = i + 1
  OBVIOUS
<1>3. s[i] \in f[1] /\ s[i + 1] \in f[2]
  <2>1. s[i + 1 - 1] \in f[1] /\ s[i + 2 - 1] \in f[2]
    BY <1>2 DEF Matches
  <2> QED
    BY <1>2, <2>1
<1>4. Len(f) > 1
  <2>1. \A j \in 1..4 : j >= k => j > 1
    OBVIOUS
  <2> QED
    BY <2>1, FormIs
<1> QED
  BY <1>1, <1>3, <1>4, FormOf

LEMMA NoFollowing ==
    ASSUME NEW s \in Seq(Nat), NEW i \in Nat \ {0}, NEW k \in 2..4, s[i + k - 1] \notin Following,
           NEW f \in Forms, Len(f) >= k
    PROVE  ~Matches(s, i, f, k)
<1>1. \A x \in f[k] : x \in Following
  <2>1. \A j \in 1..4 : (j >= k /\ k = 2 => j > 1) /\ (j >= k /\ k = 3 => j > 2) /\ (j >= k /\ k = 4
        => j > 3)
    OBVIOUS
  <2>2. k = 2 \/ k = 3 \/ k = 4
    OBVIOUS
  <2> QED
    BY <2>1, <2>2, FormIs
<1>2. k \in 1..k
  OBVIOUS
<1> QED
  BY <1>1, <1>2 DEF Matches

-----------------------------------------------------------------------------
(* The incremental check                                                   *)

\* What the first byte of a rune carries, and the m bytes of s after p that begin a
\* rune of n bytes and make v so far.
Bits(x) == x - (IF x < 224 THEN 192 ELSE IF x < 240 THEN 224 ELSE 240)

Octets == 0..255
Ascii == 0..127
Stray == 128..191 \union 248..255
Leading == 192..247

Begins(s, p, m, n, v) ==
    /\ Len(s) = p + m
    /\ s[p + 1] \in Leading
    /\ n = Lead(s[p + 1])
    /\ \A k \in 2..m : s[p + k] \in Following
    /\ m = 1 => v = Bits(s[p + 1])
    /\ m = 2 => v = Bits(s[p + 1]) * 64 + (s[p + 2] - 128)
    /\ m = 3 => v = (Bits(s[p + 1]) * 64 + (s[p + 2] - 128)) * 64 + (s[p + 3] - 128)

Dead(s) == ~WellFormed(s) /\ ~Extendable(s)

LEMMA FirstIs ==
    ASSUME NEW c \in Octets
    PROVE  /\ Utf!Announced(c) \in {0, 1, 2, 3, 4}
           /\ Utf!Announced(c) = 0 => c \in Stray
           /\ Utf!Announced(c) = 1 => c \in Ascii
           /\ Utf!Announced(c) \in {2, 3, 4} =>
                /\ c \in Leading
                /\ Utf!Announced(c) = Lead(c)
                /\ Utf!Carried(c) = Bits(c)
                /\ Bits(c) \in 0..31
           /\ Lead(c) \in {1, 2, 3, 4}
  BY SMT DEF Octets, Ascii, Stray, Leading, Utf!Announced, Utf!Carried, Bits, Lead

LEMMA OctetIs ==
    /\ \A c \in Octets : c \in Nat /\ 1 <= Lead(c)
    /\ \A c \in Ascii : c \in Nat /\ c < 128
    /\ \A c \in Leading : c >= 128
    /\ \A c \in Stray : \A f \in Forms : c \notin f[1]
<1>1. /\ \A c \in Octets : c \in Nat /\ 1 <= Lead(c)
      /\ \A c \in Ascii : c \in Nat /\ c < 128
      /\ \A c \in Leading : c >= 128
  BY SMT DEF Octets, Ascii, Leading, Lead
<1>2. ASSUME NEW c \in Stray, NEW f \in Forms, c \in f[1] PROVE FALSE
  <2>1. c \in 0..127 \union 194..244
    BY <1>2, FormIs
  <2> QED
    BY <2>1, SMT DEF Stray
<1> QED
  BY <1>1, <1>2

\* A byte more, where the runes so far are not touched.
Lengthened(u, s, c) == s \in Seq(Nat) /\ c \in Octets /\ u = Append(s, c)

Grown(u, s, c, p) ==
    /\ u \in Seq(Nat) /\ Len(u) = Len(s) + 1 /\ u[Len(s) + 1] = c
    /\ Len(s) \in Nat
    /\ \A i \in 1..Len(s) : u[i] = s[i]
    /\ RunesTo(u, p)

LEMMA ByteMore ==
    ASSUME NEW c, NEW s, NEW u, Lengthened(u, s, c), NEW p \in Nat, p <= Len(s), RunesTo(s, p)
    PROVE  Grown(u, s, c, p)
<1>1. c \in Nat /\ s \in Seq(Nat) /\ u = Append(s, c)
  BY OctetIs DEF Lengthened
<1>2. /\ u \in Seq(Nat) /\ Len(u) = Len(s) + 1 /\ u[Len(s) + 1] = c /\ Len(s) \in Nat
      /\ \A i \in 1..Len(s) : u[i] = s[i]
  BY <1>1
<1>3. p <= Len(u) /\ \A i \in 1..p : u[i] = s[i]
  BY <1>2
<1>4. RunesTo(u, p)
  BY <1>1, <1>2, <1>3, RunesKept
<1> QED
  BY <1>2, <1>4 DEF Grown

\* A byte where a rune begins: one that begins nothing, a whole rune, a longer one.
LEMMA FirstDead ==
    ASSUME NEW c \in Octets, NEW s, NEW u, Lengthened(u, s, c), RunesTo(s, Len(s)),
           Utf!Announced(c) = 0
    PROVE  Dead(u)
<1>1. PICK n \in Nat : n = Len(s) /\ n <= Len(s)
  BY DEF Lengthened
<1>2. Grown(u, s, c, n)
  BY <1>1, ByteMore
<1>3. /\ u \in Seq(Nat) /\ Len(u) = n + 1 /\ u[n + 1] = c /\ RunesTo(u, n)
  BY <1>2, <1>1 DEF Grown
<1>4. c \in Stray
  BY FirstIs
<1>5. ASSUME NEW f \in Forms, Matches(u, n + 1, f, 1) PROVE FALSE
  <2>1. n + 1 \in Nat /\ 1 \in Nat /\ 1 >= 1
    BY <1>1
  <2>2. u[n + 1] \in f[1]
    BY <1>5, <2>1, Begun
  <2> QED
    BY <1>3, <1>4, <2>2, OctetIs
<1>6. 1 \in 1..4 /\ 1 = Len(u) - n
  BY <1>1, <1>3
<1>7. 1 <= Lead(c)
  BY OctetIs
<1>8. 1 <= Lead(u[n + 1])
  BY <1>3, <1>7
<1> QED
  BY <1>3, <1>5, <1>6, <1>8, DeadParses DEF Dead

LEMMA FirstWhole ==
    ASSUME NEW c \in Octets, NEW s, NEW u, Lengthened(u, s, c), RunesTo(s, Len(s)),
           Utf!Announced(c) = 1
    PROVE  RunesTo(u, Len(u))
<1>1. PICK n \in Nat : n = Len(s) /\ n <= Len(s)
  BY DEF Lengthened
<1>2. Grown(u, s, c, n)
  BY <1>1, ByteMore
<1>3. /\ u \in Seq(Nat) /\ Len(u) = n + 1 /\ u[n + 1] = c /\ RunesTo(u, n)
  BY <1>2, <1>1 DEF Grown
<1>4. c \in Ascii
  BY FirstIs
<1>5. c < 128 /\ c \in Nat
  BY <1>4, OctetIs
<1>6. PICK f \in Forms : Len(f) = 1 /\ c \in f[1]
  BY <1>5, FormOf
<1>7. \A k \in 1..1 : k = 1 /\ (n + 1) + k - 1 = n + 1
  OBVIOUS
<1>8. Matches(u, n + 1, f, 1)
  BY <1>3, <1>6, <1>7 DEF Matches
<1>9. (n + 1) + 1 - 1 <= Len(u) /\ 1 \in 1..4
  BY <1>1, <1>3
<1>10. RuneAt(u, n + 1, 1)
  BY <1>6, <1>8, <1>9 DEF RuneAt
<1>11. RunesTo(u, n + 1)
  BY <1>1, <1>3, <1>9, <1>10, OneRune
<1> QED
  BY <1>3, <1>11

LEMMA FirstOfSeveral ==
    ASSUME NEW c \in Octets, NEW s, NEW u, Lengthened(u, s, c), RunesTo(s, Len(s)),
           Utf!Announced(c) \in {2, 3, 4}
    PROVE  /\ Utf!Carried(c) \in 0..31
           /\ RunesTo(u, Len(s))
           /\ Begins(u, Len(s), 1, Utf!Announced(c), Utf!Carried(c))
<1>1. PICK n \in Nat : n = Len(s) /\ n <= Len(s)
  BY DEF Lengthened
<1>2. Grown(u, s, c, n)
  BY <1>1, ByteMore
<1>3. /\ u \in Seq(Nat) /\ Len(u) = n + 1 /\ u[n + 1] = c /\ RunesTo(u, n)
  BY <1>2, <1>1 DEF Grown
<1>4. /\ c \in Leading /\ Utf!Announced(c) = Lead(c) /\ Utf!Carried(c) = Bits(c)
      /\ Bits(c) \in 0..31
  BY FirstIs
<1>5. Begins(u, n, 1, Lead(c), Bits(c))
  BY <1>3, <1>4 DEF Begins
<1> QED
  BY <1>1, <1>3, <1>4, <1>5

-----------------------------------------------------------------------------
\* The checks of the complete value are those of its first two bytes.
Leads(n) == CASE n = 2 -> 192..223 [] n = 3 -> 224..239 [] n = 4 -> 240..247
Least(n) == CASE n = 2 -> 128 [] n = 3 -> 2048 [] n = 4 -> 65536

TwoBytes(x, y) == (x - 192) * 64 + (y - 128)
ThreeBytes(x, y, z) == ((x - 224) * 64 + (y - 128)) * 64 + (z - 128)
FourBytes(x, y, z, w) == (((x - 240) * 64 + (y - 128)) * 64 + (z - 128)) * 64 + (w - 128)

RuneRefused(v, n) == v < Least(n) \/ v \in Utf!Surrogates \/ v > Utf!MaxRune

LEMMA RefusedTwo ==
    ASSUME NEW x \in Leads(2), NEW y \in Following
    PROVE  RuneRefused(TwoBytes(x, y), 2) <=> ~Pair(x, y)
<1>1. x \in 192..223 /\ y \in 128..191
  BY SMT DEF Leads, Following
<1>2. PICK v : v = TwoBytes(x, y)
  OBVIOUS
<1>3. v < 128 \/ v \in Utf!Surrogates \/ v > Utf!MaxRune <=> ~Pair(x, y)
  BY <1>1, <1>2, SMT DEF TwoBytes, Pair, Following, Utf!Surrogates, Utf!MaxRune
<1>4. Least(2) = 128
  BY SMT DEF Least
<1> QED
  BY <1>2, <1>3, <1>4 DEF RuneRefused

LEMMA RefusedThree ==
    ASSUME NEW x \in Leads(3), NEW y \in Following, NEW z \in Following
    PROVE  RuneRefused(ThreeBytes(x, y, z), 3) <=> ~Pair(x, y)
<1>1. x \in 224..239 /\ y \in 128..191 /\ z \in 128..191
  BY SMT DEF Leads, Following
<1>2. PICK v : v = ThreeBytes(x, y, z)
  OBVIOUS
<1>3. v < 2048 \/ v \in Utf!Surrogates \/ v > Utf!MaxRune <=> ~Pair(x, y)
  BY <1>1, <1>2, SMT DEF ThreeBytes, Pair, Following, Utf!Surrogates, Utf!MaxRune
<1>4. Least(3) = 2048
  BY SMT DEF Least
<1> QED
  BY <1>2, <1>3, <1>4 DEF RuneRefused

LEMMA RefusedFour ==
    ASSUME NEW x \in Leads(4), NEW y \in Following, NEW z \in Following, NEW w \in Following
    PROVE  RuneRefused(FourBytes(x, y, z, w), 4) <=> ~Pair(x, y)
<1>1. x \in 240..247 /\ y \in 128..191 /\ z \in 128..191 /\ w \in 128..191
  BY SMT DEF Leads, Following
<1>2. PICK v : v = FourBytes(x, y, z, w)
  OBVIOUS
<1>3. PICK r : r = (z - 128) * 64 + (w - 128)
  OBVIOUS
<1>4. r \in 0..4095
  BY <1>1, <1>3, SMT
<1>5. v = (x - 240) * 262144 + (y - 128) * 4096 + r
  BY <1>1, <1>2, <1>3, SMT DEF FourBytes
<1>6. v < 65536 <=> x = 240 /\ y < 144
  BY <1>1, <1>4, <1>5, SMT
<1>7. v > 1114111 <=> x > 244 \/ (x = 244 /\ y > 143)
  BY <1>1, <1>4, <1>5, SMT
<1>8. v \in Utf!Surrogates => v < 65536
  BY SMT DEF Utf!Surrogates
<1>9. ~Pair(x, y) <=> (x = 240 /\ y < 144) \/ x > 244 \/ (x = 244 /\ y > 143)
  BY <1>1, SMT DEF Pair, Following
<1>10. Least(4) = 65536 /\ Utf!MaxRune = 1114111
  BY SMT DEF Least, Utf!MaxRune
<1> QED
  BY <1>2, <1>6, <1>7, <1>8, <1>9, <1>10 DEF RuneRefused

\* The same in the words of the state: what the last of n bytes makes of v is wrong
\* exactly where no rune begins with the first two.
Further(v, c) == v * 64 + (c % 64)

LEMMA LeadIs ==
    ASSUME NEW x \in Leading
    PROVE  /\ Lead(x) \in {2, 3, 4} /\ x \in Leads(Lead(x)) /\ x \in Nat /\ Bits(x) \in 0..31
           /\ Lead(x) = 2 => Bits(x) = x - 192
           /\ Lead(x) = 3 => Bits(x) = x - 224
           /\ Lead(x) = 4 => Bits(x) = x - 240
  BY SMT DEF Leading, Leads, Lead, Bits

LEMMA FurtherIs ==
    ASSUME NEW v \in Int, NEW c \in Following
    PROVE  Further(v, c) = v * 64 + (c - 128)
<1>1. c % 64 = c - 128
  BY SMT DEF Following
<1> QED
  BY <1>1 DEF Further

LEMMA WrongIs ==
    ASSUME NEW v, NEW n \in {2, 3, 4}, need = n
    PROVE  Utf!Wrong(v) <=> RuneRefused(v, n)
<1>1. Utf!MinForLength(need) = Least(n)
  BY DEF Utf!MinForLength, Least
<1> QED
  BY <1>1 DEF Utf!Wrong, RuneRefused

LEMMA LastOfTwo ==
    ASSUME NEW x \in Leading, NEW c \in Following, NEW v, v = Bits(x), Lead(x) = 2, need = 2
    PROVE  Utf!Wrong(Further(v, c)) <=> ~Pair(x, c)
<1>1. v \in Int
  BY LeadIs
<1>2. v = x - 192
  BY LeadIs
<1>3. Further(v, c) = TwoBytes(x, c)
  BY <1>1, <1>2, FurtherIs, SMT DEF TwoBytes
<1> QED
  BY <1>3, LeadIs, WrongIs, RefusedTwo

LEMMA LastOfThree ==
    ASSUME NEW x \in Leading, NEW y \in Following, NEW c \in Following,
           NEW v, v = Bits(x) * 64 + (y - 128), Lead(x) = 3, need = 3
    PROVE  Utf!Wrong(Further(v, c)) <=> ~Pair(x, y)
<1>1. y \in Int
  BY SMT DEF Following
<1>2. Bits(x) = x - 224 /\ x \in Nat
  BY LeadIs
<1>3. v = (x - 224) * 64 + (y - 128) /\ v \in Int
  BY <1>1, <1>2, SMT
<1>4. Further(v, c) = ThreeBytes(x, y, c)
  BY <1>3, FurtherIs, SMT DEF ThreeBytes
<1> QED
  BY <1>4, LeadIs, WrongIs, RefusedThree

LEMMA LastOfFour ==
    ASSUME NEW x \in Leading, NEW y \in Following, NEW z \in Following, NEW c \in Following,
           NEW v, v = (Bits(x) * 64 + (y - 128)) * 64 + (z - 128), Lead(x) = 4, need = 4
    PROVE  Utf!Wrong(Further(v, c)) <=> ~Pair(x, y)
<1>1. y \in Int /\ z \in Int
  BY SMT DEF Following
<1>2. Bits(x) = x - 240 /\ x \in Nat
  BY LeadIs
<1>3. v = ((x - 240) * 64 + (y - 128)) * 64 + (z - 128) /\ v \in Int
  BY <1>1, <1>2, SMT
<1>4. Further(v, c) = FourBytes(x, y, z, c)
  BY <1>3, FurtherIs, SMT DEF FourBytes
<1> QED
  BY <1>4, LeadIs, WrongIs, RefusedFour

\* A byte inside a rune: what it adds to.
Partly(s, p, m, n, v) == p \in Nat /\ m \in {1, 2, 3} /\ RunesTo(s, p) /\ Begins(s, p, m, n, v)

Inside(u, s, c, p, m, n) ==
    /\ u \in Seq(Nat) /\ RunesTo(u, p)
    /\ p \in Nat /\ m \in {1, 2, 3}
    /\ Len(s) = p + m /\ Len(u) = p + m + 1 /\ u[p + m + 1] = c
    /\ \A k \in 1..m : u[p + k] = s[p + k]
    /\ u[p + 1] = s[p + 1]
    /\ u[p + 1] \in Leading /\ n = Lead(u[p + 1]) /\ n \in {2, 3, 4}
    /\ \A k \in 2..m : u[p + k] \in Following

LEMMA InsideIs ==
    ASSUME NEW s, NEW c, NEW u, Lengthened(u, s, c), NEW p, NEW m, NEW n, NEW v, Partly(s, p, m, n, v)
    PROVE  Inside(u, s, c, p, m, n)
<1>1. p \in Nat /\ m \in {1, 2, 3} /\ RunesTo(s, p) /\ Begins(s, p, m, n, v)
  BY DEF Partly
<1>2. Len(s) = p + m /\ p <= Len(s) /\ s[p + 1] \in Leading /\ n = Lead(s[p + 1])
  BY <1>1 DEF Begins
<1>3. Grown(u, s, c, p)
  BY <1>1, <1>2, ByteMore
<1>4. /\ u \in Seq(Nat) /\ Len(u) = Len(s) + 1 /\ u[Len(s) + 1] = c
      /\ \A i \in 1..Len(s) : u[i] = s[i]
      /\ RunesTo(u, p)
  BY <1>3 DEF Grown
<1>5. Len(u) = p + m + 1 /\ u[p + m + 1] = c
  BY <1>1, <1>2, <1>4
<1>6. \A k \in 1..m : p + k \in 1..Len(s)
  BY <1>1, <1>2
<1>7. \A k \in 1..m : u[p + k] = s[p + k]
  BY <1>4, <1>6
<1>8. 1 \in 1..m /\ \A k \in 2..m : k \in 1..m
  BY <1>1
<1>9. u[p + 1] = s[p + 1]
  BY <1>7, <1>8
<1>10. \A k \in 2..m : s[p + k] \in Following
  BY <1>1 DEF Begins
<1>11. n \in {2, 3, 4}
  BY <1>2, LeadIs
<1> QED
  BY <1>1, <1>2, <1>4, <1>5, <1>7, <1>8, <1>9, <1>10, <1>11 DEF Inside

LEMMA InsideDead ==
    ASSUME NEW s, NEW c, NEW u, Lengthened(u, s, c), NEW p, NEW m, NEW n, NEW v, Partly(s, p, m, n, v),
           m < n,
           \A f \in Forms : Len(f) >= m + 1 => ~Matches(u, p + 1, f, m + 1)
    PROVE  Dead(u)
<1>1. Inside(u, s, c, p, m, n)
  BY InsideIs
<1>2. p \in Nat /\ m \in {1, 2, 3}
  BY <1>1 DEF Inside
<1> USE <1>2
<1>3. /\ u \in Seq(Nat) /\ RunesTo(u, p) /\ Len(u) = p + m + 1
      /\ n = Lead(u[p + 1]) /\ n \in {2, 3, 4}
  BY <1>1 DEF Inside
<1>4. PICK k \in 1..4 : k = m + 1
  OBVIOUS
<1>5. k = Len(u) - p /\ k <= n
  BY <1>3, <1>4
<1> QED
  BY <1>3, <1>4, <1>5, DeadParses DEF Dead

LEMMA InsideStray ==
    ASSUME NEW s, NEW c, NEW u, Lengthened(u, s, c), NEW p, NEW m, NEW n, NEW v, Partly(s, p, m, n, v),
           m < n, c \notin Following
    PROVE  Dead(u)
<1>1. Inside(u, s, c, p, m, n)
  BY InsideIs
<1>2. p \in Nat /\ m \in {1, 2, 3}
  BY <1>1 DEF Inside
<1> USE <1>2
<1>3. u \in Seq(Nat) /\ u[p + m + 1] = c
  BY <1>1 DEF Inside
<1>4. PICK k \in 2..4 : k = m + 1
  OBVIOUS
<1>5. p + 1 \in Nat \ {0} /\ (p + 1) + k - 1 = p + m + 1
  BY <1>4
<1>6. u[(p + 1) + k - 1] \notin Following
  BY <1>3, <1>5
<1>7. \A f \in Forms : Len(f) >= k => ~Matches(u, p + 1, f, k)
  BY <1>3, <1>5, <1>6, NoFollowing
<1> QED
  BY <1>4, <1>7, InsideDead

LEMMA InsideMore ==
    ASSUME NEW s, NEW c, NEW u, Lengthened(u, s, c), NEW p, NEW m, NEW n, NEW v \in Nat,
           Partly(s, p, m, n, v),
           m + 1 < n, c \in Following
    PROVE  Begins(u, p, m + 1, n, Further(v, c))
<1>1. Inside(u, s, c, p, m, n)
  BY InsideIs
<1>2. p \in Nat /\ m \in {1, 2, 3}
  BY <1>1 DEF Inside
<1> USE <1>2
<1>3. /\ Len(u) = p + (m + 1) /\ u[p + 1] \in Leading /\ n = Lead(u[p + 1]) /\ n \in {2, 3, 4}
      /\ \A k \in 1..m : u[p + k] = s[p + k]
      /\ \A k \in 2..m : u[p + k] \in Following
      /\ u[p + (m + 1)] = c /\ u[p + 1] = s[p + 1]
  BY <1>1 DEF Inside
<1>4. \A k \in 2..(m + 1) : k \in 2..m \/ k = m + 1
  OBVIOUS
<1>5. \A k \in 2..(m + 1) : u[p + k] \in Following
  BY <1>3, <1>4
<1>6. m \in {1, 2}
  BY <1>3
<1>7. Further(v, c) = v * 64 + (c - 128)
  BY FurtherIs
<1>8. CASE m = 1
  <2>1. v = Bits(s[p + 1])
    BY <1>8 DEF Partly, Begins
  <2>2. u[p + 2] = c /\ m + 1 = 2
    BY <1>3, <1>8
  <2>3. Further(v, c) = Bits(u[p + 1]) * 64 + (u[p + 2] - 128)
    BY <1>3, <1>7, <2>1, <2>2
  <2> HIDE DEF Further
  <2> QED
    BY <1>3, <1>5, <2>2, <2>3 DEF Begins
<1>9. CASE m = 2
  <2>1. v = Bits(s[p + 1]) * 64 + (s[p + 2] - 128)
    BY <1>9 DEF Partly, Begins
  <2>2. u[p + 3] = c /\ u[p + 2] = s[p + 2] /\ m + 1 = 3
    BY <1>3, <1>9
  <2>3. Further(v, c) = (Bits(u[p + 1]) * 64 + (u[p + 2] - 128)) * 64 + (u[p + 3] - 128)
    BY <1>3, <1>7, <2>1, <2>2
  <2> QED
    BY <1>3, <1>5, <2>2, <2>3 DEF Begins
<1> QED
  BY <1>6, <1>8, <1>9

\* The last byte of a rune.
LEMMA LastByteIs ==
    ASSUME NEW s, NEW c, NEW u, Lengthened(u, s, c), NEW p, NEW m, NEW v, Partly(s, p, m, m + 1, v),
           need = m + 1, c \in Following
    PROVE  Utf!Wrong(Further(v, c)) <=> ~Pair(u[p + 1], u[p + 2])
<1>1. Inside(u, s, c, p, m, m + 1)
  BY InsideIs
<1>2. p \in Nat /\ m \in {1, 2, 3}
  BY <1>1 DEF Inside
<1> USE <1>2
<1>3. /\ u[p + 1] \in Leading /\ m + 1 = Lead(u[p + 1])
      /\ \A k \in 1..m : u[p + k] = s[p + k]
      /\ \A k \in 2..m : u[p + k] \in Following
      /\ u[p + m + 1] = c /\ u[p + 1] = s[p + 1]
  BY <1>1 DEF Inside
<1>4. CASE m = 1
  <2>1. v = Bits(s[p + 1])
    BY <1>4 DEF Partly, Begins
  <2>2. u[p + 2] = c /\ Lead(u[p + 1]) = 2 /\ need = 2
    BY <1>3, <1>4
  <2> QED
    BY <1>3, <2>1, <2>2, LastOfTwo
<1>5. CASE m = 2
  <2>1. v = Bits(s[p + 1]) * 64 + (s[p + 2] - 128)
    BY <1>5 DEF Partly, Begins
  <2>2. u[p + 3] = c /\ u[p + 2] = s[p + 2] /\ u[p + 2] \in Following /\ Lead(u[p + 1]) = 3 /\ need = 3
    BY <1>3, <1>5
  <2>3. v = Bits(u[p + 1]) * 64 + (u[p + 2] - 128)
    BY <1>3, <2>1, <2>2
  <2> QED
    BY <1>3, <2>2, <2>3, LastOfThree
<1>6. CASE m = 3
  <2>1. v = (Bits(s[p + 1]) * 64 + (s[p + 2] - 128)) * 64 + (s[p + 3] - 128)
    BY <1>6 DEF Partly, Begins
  <2>2. /\ u[p + 3] = s[p + 3] /\ u[p + 2] = s[p + 2] /\ u[p + 2] \in Following
        /\ u[p + 3] \in Following /\ Lead(u[p + 1]) = 4 /\ need = 4
    BY <1>3, <1>6
  <2>3. v = (Bits(u[p + 1]) * 64 + (u[p + 2] - 128)) * 64 + (u[p + 3] - 128)
    BY <1>3, <2>1, <2>2
  <2> QED
    BY <1>3, <2>2, <2>3, LastOfFour
<1> QED
  BY <1>4, <1>5, <1>6

LEMMA LastWrong ==
    ASSUME NEW s, NEW c, NEW u, Lengthened(u, s, c), NEW p, NEW m, NEW v, Partly(s, p, m, m + 1, v),
           need = m + 1, c \in Following,
           Utf!Wrong(Further(v, c))
    PROVE  Dead(u)
<1>1. Inside(u, s, c, p, m, m + 1)
  BY InsideIs
<1>2. p \in Nat /\ m \in {1, 2, 3}
  BY <1>1 DEF Inside
<1> USE <1>2
<1>3. ~Pair(u[p + 1], u[p + 2])
  BY LastByteIs
<1>4. u \in Seq(Nat) /\ Len(u) = p + m + 1 /\ u[p + 1] \in Leading
  BY <1>1 DEF Inside
<1>5. PICK k \in 2..4 : k = m + 1
  OBVIOUS
<1>6. p + 1 \in Nat \ {0} /\ (p + 1) + 1 <= Len(u) /\ (p + 1) + 1 = p + 2 /\ m < m + 1
  BY <1>4
<1>7. u[p + 1] >= 128
  BY <1>4, OctetIs
<1>8. ~Pair(u[p + 1], u[(p + 1) + 1])
  BY <1>3, <1>6
<1>9. \A f \in Forms : Len(f) >= k => ~Matches(u, p + 1, f, k)
  BY <1>4, <1>6, <1>7, <1>8, NoPair
<1> QED
  BY <1>5, <1>6, <1>9, InsideDead

LEMMA LastWhole ==
    ASSUME NEW s, NEW c, NEW u, Lengthened(u, s, c), NEW p, NEW m, NEW v, Partly(s, p, m, m + 1, v),
           need = m + 1, c \in Following,
           ~Utf!Wrong(Further(v, c))
    PROVE  RunesTo(u, Len(u))
<1>1. Inside(u, s, c, p, m, m + 1)
  BY InsideIs
<1>2. p \in Nat /\ m \in {1, 2, 3}
  BY <1>1 DEF Inside
<1> USE <1>2
<1>3. Pair(u[p + 1], u[p + 2])
  BY LastByteIs
<1>4. /\ u \in Seq(Nat) /\ RunesTo(u, p) /\ Len(u) = p + m + 1 /\ m + 1 = Lead(u[p + 1])
      /\ \A k \in 2..m : u[p + k] \in Following
      /\ u[p + m + 1] = c
  BY <1>1 DEF Inside
<1>5. PICK k \in 2..4 : k = m + 1
  OBVIOUS
<1>6. /\ p + 1 \in Nat \ {0} /\ (p + 1) + k - 1 = Len(u) /\ (p + 1) + 1 = p + 2
      /\ k \in 1..4 /\ p + k = Len(u)
  BY <1>4, <1>5
<1>7. ASSUME NEW j \in 3..k PROVE u[(p + 1) + j - 1] \in Following
  <2>1. (p + 1) + j - 1 = p + j /\ (j \in 2..m \/ (j = m + 1 /\ p + j = p + m + 1))
    BY <1>5
  <2> QED
    BY <1>4, <2>1
<1>8. Announces(u[p + 1], k)
  BY <1>4, <1>5 DEF Announces
<1>9. Pair(u[p + 1], u[(p + 1) + 1])
  BY <1>3, <1>6
<1>10. RuneAt(u, p + 1, k)
  BY <1>4, <1>6, <1>7, <1>8, <1>9, PairRune
<1>11. RunesTo(u, p + k)
  BY <1>4, <1>6, <1>10, OneRune
<1> QED
  BY <1>6, <1>11

\* What up to three bytes can be worth.
Partial == {v \in Nat : v < 32768}

LEMMA SmallIs == \A x \in 0..31 : x \in Partial /\ x \in Utf!Values
  BY SMT DEF Partial, Utf!Values

LEMMA FurtherSmall ==
    ASSUME NEW v \in Partial, NEW c \in Following
    PROVE  v \in Nat /\ Further(v, c) \in Utf!Values
<1>1. v \in Int /\ v \in Nat
  BY SMT DEF Partial
<1>2. Further(v, c) = v * 64 + (c - 128)
  BY <1>1, FurtherIs
<1>3. PICK x : x = v * 64 + (c - 128)
  OBVIOUS
<1>4. x \in Utf!Values
  BY <1>3, SMT DEF Partial, Following, Utf!Values
<1> QED
  BY <1>1, <1>2, <1>3, <1>4

\* What a rune of n bytes can be worth.
LEMMA FurtherBounded ==
    ASSUME NEW s, NEW p, NEW m, NEW n, NEW v, Partly(s, p, m, n, v), m < n, NEW c \in Following
    PROVE  v \in Nat /\ Further(v, c) \in Utf!Values
<1>1. /\ s[p + 1] \in Leading /\ n = Lead(s[p + 1]) /\ m \in {1, 2, 3}
      /\ \A k \in 2..m : s[p + k] \in Following
      /\ m = 1 => v = Bits(s[p + 1])
      /\ m = 2 => v = Bits(s[p + 1]) * 64 + (s[p + 2] - 128)
      /\ m = 3 => v = (Bits(s[p + 1]) * 64 + (s[p + 2] - 128)) * 64 + (s[p + 3] - 128)
  BY DEF Partly, Begins
<1>2. PICK x \in Leading : x = s[p + 1]
  BY <1>1
<1>3. PICK b, y, z : b = Bits(x) /\ y = s[p + 2] /\ z = s[p + 3]
  OBVIOUS
<1>4. b \in 0..31 /\ (Lead(x) = 3 => b \in 0..15) /\ (Lead(x) = 4 => b \in 0..7)
      /\ Lead(x) \in {2, 3, 4}
  BY <1>3, SMT DEF Leading, Lead, Bits
<1>5. Lead(x) = n
  BY <1>1, <1>2
<1>6. \A w \in Following : w \in 128..191
  BY SMT DEF Following
<1>7. CASE m = 1
  <2>1. v \in 0..31
    BY <1>1, <1>2, <1>3, <1>4, <1>7
  <2> QED
    BY <2>1, SmallIs, FurtherSmall
<1>8. CASE m = 2
  <2>1. 2 \in 2..m /\ (n = 3 \/ n = 4)
    BY <1>4, <1>5, <1>8
  <2>2. y \in 128..191 /\ v = b * 64 + (y - 128)
    BY <1>1, <1>2, <1>3, <1>6, <1>8, <2>1
  <2>3. b \in 0..15
    BY <1>4, <1>5, <2>1
  <2>4. v \in Partial
    BY <2>2, <2>3, SMT DEF Partial
  <2> QED
    BY <2>4, FurtherSmall
<1>9. CASE m = 3
  <2>1. 2 \in 2..m /\ 3 \in 2..m /\ n = 4
    BY <1>4, <1>5, <1>9
  <2>2. y \in 128..191 /\ z \in 128..191 /\ v = (b * 64 + (y - 128)) * 64 + (z - 128)
    BY <1>1, <1>2, <1>3, <1>6, <1>9, <2>1
  <2>3. b \in 0..7
    BY <1>4, <1>5, <2>1
  <2>4. PICK w : w = b * 64 + (y - 128)
    OBVIOUS
  <2>5. w \in 0..511 /\ v = w * 64 + (z - 128)
    BY <2>2, <2>3, <2>4, SMT
  <2>6. v \in Partial
    BY <2>2, <2>5, SMT DEF Partial
  <2> QED
    BY <2>6, FurtherSmall
<1> QED
  BY <1>1, <1>7, <1>8, <1>9

-----------------------------------------------------------------------------
\* The validator is where the text is: between two runes, inside one, or past hope.
OnRune(s, pn, n, v) ==
    IF pn = 0 THEN RunesTo(s, Len(s)) ELSE \E p : Partly(s, p, n - pn, n, v)

Utf8Typed ==
    /\ pending \in {0, 1, 2, 3}
    /\ value \in Utf!Values
    /\ need \in {0, 2, 3, 4}
    /\ bad \in BOOLEAN
    /\ pending > 0 => pending < need
    /\ text \in Seq(Nat)

Utf8Inv ==
    /\ Utf8Typed
    /\ bad = FALSE => OnRune(text, pending, need, value)
    /\ bad = TRUE => Dead(text)

LEMMA FirstStep ==
    ASSUME Utf8Inv, bad = FALSE, NEW c \in Octets, Utf!First(c), text' = Append(text, c)
    PROVE  Utf8Inv'
<1>1. pending = 0 /\ RunesTo(text, Len(text))
  BY DEF Utf!First, Utf8Inv, OnRune
<1>2. Lengthened(text', text, c)
  BY DEF Lengthened, Utf8Inv, Utf8Typed
<1>3. text' \in Seq(Nat) /\ pending \in {0, 1, 2, 3} /\ value \in Utf!Values /\ need \in {0, 2, 3, 4}
  BY OctetIs DEF Utf8Inv, Utf8Typed
<1>4. CASE Utf!Announced(c) = 0
  <2>1. bad' = TRUE
    BY <1>4 DEF Utf!First
  <2>2. pending' = pending /\ need' = need /\ value' = value
    BY <1>4 DEF Utf!First
  <2>3. Utf8Typed'
    BY <1>1, <1>3, <2>1, <2>2 DEF Utf8Typed
  <2>4. Dead(text')
    BY <1>1, <1>2, <1>4, FirstDead
  <2> QED
    BY <2>1, <2>3, <2>4 DEF Utf8Inv
<1>5. CASE Utf!Announced(c) = 1
  <2>1. ~(Utf!Announced(c) = 0) /\ bad' = (Utf!Announced(c) = 0)
    BY <1>5 DEF Utf!First
  <2>2. bad' = FALSE
    BY <2>1
  <2>3. pending' = pending /\ need' = need /\ value' = value
    BY <1>5 DEF Utf!First
  <2>4. Utf8Typed'
    <3>1. bad' \in BOOLEAN
      BY <2>2
    <3> QED
      BY <1>1, <1>3, <2>3, <3>1 DEF Utf8Typed
  <2>5. RunesTo(text', Len(text'))
    BY <1>1, <1>2, <1>5, FirstWhole
  <2>6. OnRune(text', pending', need', value')
    BY <1>1, <2>3, <2>5 DEF OnRune
  <2> QED
    BY <2>2, <2>4, <2>6 DEF Utf8Inv
<1>6. CASE Utf!Announced(c) \in {2, 3, 4}
  <2>1. Utf!Announced(c) > 1 /\ Utf!Announced(c) # 0
    BY <1>6
  <2>2. bad' = FALSE
    BY <2>1 DEF Utf!First
  <2>3. pending' = Utf!Announced(c) - 1 /\ need' = Utf!Announced(c) /\ value' = Utf!Carried(c)
    BY <2>1 DEF Utf!First
  <2>4. /\ Utf!Carried(c) \in 0..31
        /\ RunesTo(text', Len(text))
        /\ Begins(text', Len(text), 1, Utf!Announced(c), Utf!Carried(c))
    BY <1>1, <1>2, <1>6, FirstOfSeveral
  <2>5. Utf!Carried(c) \in Utf!Values
    BY <2>4, SmallIs
  <2>6. pending' \in {0, 1, 2, 3} /\ pending' # 0 /\ pending' < need' /\ need' - pending' = 1
        /\ need' \in {0, 2, 3, 4}
    BY <1>6, <2>3
  <2>7. Utf8Typed'
    BY <1>3, <2>2, <2>3, <2>5, <2>6 DEF Utf8Typed
  <2>8. Len(text) \in Nat
    BY DEF Utf8Inv, Utf8Typed
  <2>9. Partly(text', Len(text), 1, need', value')
    BY <2>3, <2>4, <2>8 DEF Partly
  <2>10. OnRune(text', pending', need', value')
    BY <2>6, <2>9 DEF OnRune
  <2> QED
    BY <2>2, <2>7, <2>10 DEF Utf8Inv
<1> QED
  BY <1>4, <1>5, <1>6, FirstIs

LEMMA ContinueStep ==
    ASSUME Utf8Inv, bad = FALSE, NEW c \in Octets, Utf!Continue(c), text' = Append(text, c)
    PROVE  Utf8Inv'
<1>1. pending \in {1, 2, 3} /\ need \in {2, 3, 4} /\ pending < need /\ value \in Utf!Values
      /\ need' = need
  BY DEF Utf!Continue, Utf8Inv, Utf8Typed
<1>2. Lengthened(text', text, c)
  BY DEF Lengthened, Utf8Inv, Utf8Typed
<1>3. text' \in Seq(Nat)
  BY OctetIs DEF Utf8Inv, Utf8Typed
<1>4. PICK m : m = need - pending
  OBVIOUS
<1>5. m \in {1, 2, 3} /\ m < need /\ pending # 0
  BY <1>1, <1>4
<1>6. PICK p : Partly(text, p, m, need, value)
  BY <1>4, <1>5 DEF Utf8Inv, OnRune
<1>7. CASE c \notin Following
  <2>1. bad' = TRUE
    BY <1>7 DEF Utf!Continue, Following
  <2>2. pending' = pending /\ value' = value
    BY <1>7 DEF Utf!Continue, Following
  <2>3. Utf8Typed'
    BY <1>1, <1>3, <2>1, <2>2 DEF Utf8Typed
  <2>4. Dead(text')
    BY <1>2, <1>5, <1>6, <1>7, InsideStray
  <2> QED
    BY <2>1, <2>3, <2>4 DEF Utf8Inv
<1>8. CASE c \in Following
  <2>1. value' = Further(value, c)
    BY <1>8 DEF Utf!Continue, Following, Further
  <2>2. pending' = pending - 1
    BY <1>8 DEF Utf!Continue, Following
  <2>3. bad' = (pending = 1 /\ Utf!Wrong(Further(value, c)))
    BY <1>8 DEF Utf!Continue, Following, Further
  <2>4. bad' \in BOOLEAN
    BY <2>3
  <2>5. value \in Nat /\ Further(value, c) \in Utf!Values
    BY <1>5, <1>6, <1>8, FurtherBounded
  <2>6. pending' \in {0, 1, 2, 3} /\ pending' < need'
    BY <1>1, <2>2
  <2>7. Utf8Typed'
    BY <1>1, <1>3, <2>1, <2>4, <2>5, <2>6 DEF Utf8Typed
  <2>8. CASE pending = 1
    <3>1. need = m + 1 /\ pending' = 0
      BY <1>1, <1>4, <2>2, <2>8
    <3>2. CASE Utf!Wrong(Further(value, c))
      <4>1. bad' = TRUE
        BY <2>3, <2>8, <3>2
      <4>2. Dead(text')
        BY <1>2, <1>6, <1>8, <3>1, <3>2, LastWrong
      <4> QED
        BY <2>7, <4>1, <4>2 DEF Utf8Inv
    <3>3. CASE ~Utf!Wrong(Further(value, c))
      <4>1. bad' = FALSE
        BY <2>3, <3>3
      <4>2. RunesTo(text', Len(text'))
        BY <1>2, <1>6, <1>8, <3>1, <3>3, LastWhole
      <4>3. OnRune(text', pending', need', value')
        BY <3>1, <4>2 DEF OnRune
      <4> QED
        BY <2>7, <4>1, <4>3 DEF Utf8Inv
    <3> QED
      BY <3>2, <3>3
  <2>9. CASE pending # 1
    <3>1. bad' = FALSE
      BY <2>3, <2>9
    <3>2. m + 1 < need /\ m + 1 = need' - pending' /\ pending' # 0 /\ m + 1 \in {1, 2, 3}
      BY <1>1, <1>4, <2>2, <2>9
    <3>3. Begins(text', p, m + 1, need, Further(value, c))
      BY <1>2, <1>6, <1>8, <2>5, <3>2, InsideMore
    <3>4. Inside(text', text, c, p, m, need)
      BY <1>2, <1>6, InsideIs
    <3>5. p \in Nat /\ RunesTo(text', p)
      BY <3>4 DEF Inside
    <3>6. Partly(text', p, m + 1, need', value')
      BY <1>1, <2>1, <3>2, <3>3, <3>5 DEF Partly
    <3>7. OnRune(text', pending', need', value')
      BY <3>2, <3>6 DEF OnRune
    <3> QED
      BY <2>7, <3>1, <3>7 DEF Utf8Inv
  <2> QED
    BY <2>8, <2>9
<1> QED
  BY <1>7, <1>8

\* The instances mean what the module they take it from means.
LEMMA UtfSame ==
    ASSUME NEW s
    PROVE  (Utf!WellFormed(s) <=> WellFormed(s)) /\ (Utf!Extendable(s) <=> Extendable(s))
<1>1. ASSUME NEW partial PROVE Utf!Parses(s, partial) = Parses(s, partial)
  BY DEF Utf!Parses, Parses, Utf!Matches, Matches, Utf!Forms, Forms, Utf!Following, Following
<1> QED
  BY <1>1 DEF Utf!WellFormed, WellFormed, Utf!Extendable, Extendable

LEMMA ClosingSame ==
    ASSUME NEW s
    PROVE  Closing!WellFormed(s) <=> WellFormed(s)
<1>1. ASSUME NEW partial PROVE Closing!Parses(s, partial) = Parses(s, partial)
  BY DEF Closing!Parses, Parses, Closing!Matches, Matches, Closing!Forms, Forms, Closing!Following,
      Following
<1> QED
  BY <1>1 DEF Closing!WellFormed, WellFormed

UtfText == Utf!TypeOK /\ Utf!CompleteIsWellFormed /\ Utf!RefusesOnlyBad

LEMMA Utf8Exact == Utf8Inv => UtfText
<1> SUFFICES ASSUME Utf8Inv PROVE UtfText
  OBVIOUS
<1>1. Utf8Typed /\ text \in Seq(Nat) /\ bad \in BOOLEAN
  BY DEF Utf8Inv, Utf8Typed
<1>2. Utf!TypeOK
  BY <1>1 DEF Utf!TypeOK, Utf8Typed
<1>3. CASE bad = TRUE
  <2>1. ~WellFormed(text) /\ ~Extendable(text)
    BY <1>3 DEF Utf8Inv, Dead
  <2>2. ~Utf!WellFormed(text) /\ ~Utf!Extendable(text)
    BY <2>1, UtfSame
  <2> QED
    BY <1>2, <1>3, <2>2 DEF UtfText, Utf!CompleteIsWellFormed, Utf!RefusesOnlyBad, Utf!Complete
<1>4. CASE bad = FALSE /\ pending = 0
  <2>1. RunesTo(text, Len(text))
    BY <1>4 DEF Utf8Inv, OnRune
  <2>2. WellFormed(text)
    BY <1>1, <2>1, WholeParses DEF WellFormed
  <2>3. Utf!WellFormed(text)
    BY <2>2, UtfSame
  <2> QED
    BY <1>2, <1>4, <2>3 DEF UtfText, Utf!CompleteIsWellFormed, Utf!RefusesOnlyBad, Utf!Complete
<1>5. CASE bad = FALSE /\ pending # 0
  <2>1. PICK p : Partly(text, p, need - pending, need, value)
    BY <1>5 DEF Utf8Inv, OnRune
  <2>2. /\ p \in Nat /\ Len(text) = p + (need - pending) /\ RunesTo(text, p) /\ need = Lead(text[p + 1])
        /\ need - pending \in {1, 2, 3}
    BY <2>1 DEF Partly, Begins
  <2>3. pending > 0 /\ pending \in Nat /\ need \in Nat
    BY <1>1, <1>5 DEF Utf8Typed
  <2>4. p < Len(text) /\ Len(text) - p < need
    BY <2>2, <2>3
  <2>5. ~WellFormed(text)
    BY <1>1, <2>2, <2>4, ShortParses
  <2>6. ~Utf!WellFormed(text)
    BY <2>5, UtfSame
  <2> QED
    BY <1>2, <1>5, <2>6 DEF UtfText, Utf!CompleteIsWellFormed, Utf!RefusesOnlyBad, Utf!Complete
<1> QED
  BY <1>1, <1>3, <1>4, <1>5

LEMMA Utf8Starts == Utf!Init => Utf8Inv
<1> SUFFICES ASSUME Utf!Init PROVE Utf8Inv
  OBVIOUS
<1>1. pending = 0 /\ value = 0 /\ need = 0 /\ bad = FALSE /\ text = <<>>
  BY DEF Utf!Init
<1>2. 0 \in Utf!Values
  BY SmallIs
<1>3. text \in Seq(Nat) /\ Len(text) = 0
  BY <1>1
<1>4. RunesTo(text, Len(text))
  BY <1>3, NoRunes
<1> QED
  BY <1>1, <1>2, <1>3, <1>4 DEF Utf8Inv, Utf8Typed, OnRune

LEMMA Utf8Steps == Utf8Inv /\ [Utf!Next]_(Utf!vars) => Utf8Inv'
<1> SUFFICES ASSUME Utf8Inv, [Utf!Next]_(Utf!vars) PROVE Utf8Inv'
  OBVIOUS
<1>1. ASSUME NEW c \in Bytes, Utf!Write(c) PROVE Utf8Inv'
  <2>1. c \in Octets
    BY WsAssumption DEF WsAssumption, Utf!Utf8Assumption, Octets
  <2>2. bad = FALSE /\ text' = Append(text, c) /\ (Utf!First(c) \/ Utf!Continue(c))
    BY <1>1 DEF Utf!Write, Utf8Inv, Utf8Typed
  <2> QED
    BY <2>1, <2>2, FirstStep, ContinueStep
<1>2. CASE Utf!Reset
  <2>1. pending' = 0 /\ value' = 0 /\ need' = 0 /\ bad' = FALSE /\ text' = <<>>
    BY <1>2 DEF Utf!Reset
  <2>2. 0 \in Utf!Values
    BY SmallIs
  <2>3. text' \in Seq(Nat) /\ Len(text') = 0
    BY <2>1
  <2>4. RunesTo(text', Len(text'))
    BY <2>3, NoRunes
  <2> QED
    BY <2>1, <2>2, <2>3, <2>4 DEF Utf8Inv, Utf8Typed, OnRune
<1>3. CASE UNCHANGED Utf!vars
  <2>1. pending' = pending /\ value' = value /\ need' = need /\ bad' = bad /\ text' = text
    BY <1>3 DEF Utf!vars
  <2> QED
    BY <2>1 DEF Utf8Inv, Utf8Typed
<1> QED
  BY <1>1, <1>2, <1>3 DEF Utf!Next

-----------------------------------------------------------------------------
(* The reason of a close                                                   *)

\* No first byte is one that follows.
LEMMA FirstIsNot ==
    ASSUME NEW f \in Forms, NEW x \in f[1]
    PROVE  x \notin Following
<1>1. \A y \in 0..127 \union 194..244 : y \notin Following
  BY SMT DEF Following
<1>2. x \in 0..127 \union 194..244
  BY FormIs
<1> QED
  BY <1>1, <1>2

\* A byte that follows none begins a rune.
LEMMA RuneStart ==
    ASSUME NEW s \in Seq(Nat), NEW p \in Nat, p <= Len(s), RunesTo(s, p)
    PROVE  \A j \in 1..p : s[j] \notin Following => RunesTo(s, j - 1)
<1> DEFINE S == {i \in 1..(p + 1) : /\ RunesTo(s, i - 1)
                                    /\ \A j \in 1..(i - 1) : s[j] \notin Following => RunesTo(s, j - 1)}
<1>1. S \in SUBSET (1..(p + 1))
  OBVIOUS
<1>2. 1 \in S
  BY NoRunes
<1>3. ASSUME NEW i \in S, NEW n \in 1..4, i + n - 1 <= p, RuneAt(s, i, n) PROVE i + n \in S
  <2>1. i \in 1..(p + 1) /\ i - 1 \in Nat /\ (i - 1) + 1 = i /\ (i - 1) + n = (i + n) - 1
        /\ i + n \in 1..(p + 1)
    BY <1>3
  <2>2. RunesTo(s, i - 1) /\ \A j \in 1..(i - 1) : s[j] \notin Following => RunesTo(s, j - 1)
    OBVIOUS
  <2> HIDE DEF S
  <2>3. RuneAt(s, (i - 1) + 1, n)
    BY <1>3, <2>1
  <2>4. RunesTo(s, (i + n) - 1)
    BY <2>1, <2>2, <2>3, OneRune
  <2>5. ASSUME NEW j \in 1..((i + n) - 1), s[j] \notin Following PROVE RunesTo(s, j - 1)
    <3>1. CASE j \in 1..(i - 1)
      BY <2>2, <2>5, <3>1
    <3>2. CASE j = i
      BY <2>2, <3>2
    <3>3. CASE j > i
      <4>1. PICK f \in Forms : Len(f) = n /\ Matches(s, i, f, n)
        BY <1>3 DEF RuneAt
      <4>2. PICK k \in 2..4 : k = j - i + 1 /\ k \in 1..n /\ i + k - 1 = j
        BY <2>1, <2>5, <3>3
      <4>3. s[j] \in f[k]
        BY <4>1, <4>2 DEF Matches
      <4>4. \A x \in f[k] : x \in Following
        <5>1. (k = 2 /\ n > 1) \/ (k = 3 /\ n > 2) \/ (k = 4 /\ n > 3)
          BY <4>2
        <5> QED
          BY <4>1, <5>1, FormIs
      <4> QED
        BY <2>5, <4>3, <4>4
    <3> QED
      BY <2>1, <2>5, <3>1, <3>2, <3>3
  <2> QED
    BY <2>1, <2>4, <2>5 DEF S
<1> HIDE DEF S
<1>4. p + 1 \in S
  BY <1>1, <1>2, <1>3 DEF RunesTo, Closed
<1>5. (p + 1) - 1 = p
  OBVIOUS
<1> QED
  BY <1>4, <1>5 DEF S

\* Where runes end, one ends.
LEMMA RuneEnd ==
    ASSUME NEW s \in Seq(Nat), NEW p \in Nat, p <= Len(s), RunesTo(s, p), p > 0
    PROVE  \E n \in 1..4 : n <= p /\ RuneAt(s, p - n + 1, n)
<1> DEFINE S == {i \in 1..(p + 1) : i > 1 => \E n \in 1..4 : n < i /\ RuneAt(s, i - n, n)}
<1>1. S \in SUBSET (1..(p + 1)) /\ 1 \in S
  OBVIOUS
<1>2. ASSUME NEW i \in S, NEW n \in 1..4, i + n - 1 <= p, RuneAt(s, i, n) PROVE i + n \in S
  <2>1. i \in 1..(p + 1)
    OBVIOUS
  <2>2. i + n \in 1..(p + 1) /\ (i + n) - n = i /\ n < i + n
    BY <1>2, <2>1
  <2>3. RuneAt(s, (i + n) - n, n)
    BY <1>2, <2>2
  <2> QED
    BY <2>2, <2>3
<1> HIDE DEF S
<1>3. p + 1 \in S
  BY <1>1, <1>2 DEF RunesTo, Closed
<1>4. PICK n \in 1..4 : n < p + 1 /\ RuneAt(s, (p + 1) - n, n)
  BY <1>3 DEF S
<1>5. n <= p /\ (p + 1) - n = p - n + 1
  BY <1>4
<1> QED
  BY <1>4, <1>5

\* A cut goes through one rune at most.
LEMMA RuneCut ==
    ASSUME NEW s \in Seq(Nat), NEW p \in Nat, p <= Len(s), RunesTo(s, p), NEW room \in Nat, room < p
    PROVE  \E b \in 0..room : room <= b + 3 /\ RunesTo(s, b)
<1> DEFINE S == {i \in 1..(p + 1) : /\ RunesTo(s, i - 1)
                                    /\ i - 1 > room => \E b \in 0..room : room <= b + 3
                                         /\ RunesTo(s, b)}
<1>1. S \in SUBSET (1..(p + 1))
  OBVIOUS
<1>2. 1 \in S
  BY NoRunes
<1>3. ASSUME NEW i \in S, NEW n \in 1..4, i + n - 1 <= p, RuneAt(s, i, n) PROVE i + n \in S
  <2>1. i \in 1..(p + 1) /\ i - 1 \in Nat /\ (i - 1) + 1 = i /\ (i - 1) + n = (i + n) - 1
        /\ i + n \in 1..(p + 1)
    BY <1>3
  <2>2. RunesTo(s, i - 1) /\ (i - 1 > room => \E b \in 0..room : room <= b + 3 /\ RunesTo(s, b))
    OBVIOUS
  <2> HIDE DEF S
  <2>3. RuneAt(s, (i - 1) + 1, n)
    BY <1>3, <2>1
  <2>4. RunesTo(s, (i + n) - 1)
    BY <2>1, <2>2, <2>3, OneRune
  <2>5. ASSUME (i + n) - 1 > room, ~(i - 1 > room) PROVE \E b \in 0..room : room <= b + 3
               /\ RunesTo(s, b)
    <3>1. i - 1 \in 0..room /\ room <= (i - 1) + 3
      BY <2>1, <2>5
    <3> QED
      BY <2>2, <3>1
  <2> QED
    BY <2>1, <2>2, <2>4, <2>5 DEF S
<1> HIDE DEF S
<1>4. p + 1 \in S
  BY <1>1, <1>2, <1>3 DEF RunesTo, Closed
<1>5. (p + 1) - 1 = p
  OBVIOUS
<1> QED
  BY <1>4, <1>5 DEF S

-----------------------------------------------------------------------------
\* The operators of the instance, in the words of Utf8Text.
LEMMA ClosingForms ==
    /\ Closing!Forms = Forms
    /\ \A s, i, f, n : Closing!Matches(s, i, f, n) <=> Matches(s, i, f, n)
<1>1. Closing!Forms = Forms
  BY DEF Closing!Forms, Forms, Closing!Following, Following
<1>2. \A s, i, f, n : Closing!Matches(s, i, f, n) <=> Matches(s, i, f, n)
  BY DEF Closing!Matches, Matches
<1> QED
  BY <1>1, <1>2

WholeAt(s, n) == Closing!EndsWhole(SubSeq(s, 1, n))

LEMMA WholeIs ==
    ASSUME NEW s \in Seq(Nat), RunesTo(s, Len(s)), NEW n \in 1..Len(s)
    PROVE  WholeAt(s, n) <=> RunesTo(s, n)
<1>1. PICK t : t = SubSeq(s, 1, n)
  OBVIOUS
<1>2. t \in Seq(Nat) /\ Len(t) = n /\ n \in Nat /\ Len(s) \in Nat /\ n <= Len(s)
      /\ \A i \in 1..n : t[i] = s[i]
  BY <1>1
<1>3. WholeAt(s, n) <=> \E f \in Forms : Len(f) <= n /\ Matches(t, n - Len(f) + 1, f, Len(f))
  BY <1>1, <1>2, ClosingForms DEF WholeAt, Closing!EndsWhole
<1>4. ASSUME NEW f \in Forms, Len(f) <= n
      PROVE  /\ Matches(t, n - Len(f) + 1, f, Len(f)) <=> Matches(s, n - Len(f) + 1, f, Len(f))
             /\ Len(f) \in 1..4 /\ n - Len(f) + 1 \in 1..n
  <2>1. Len(f) \in 1..4
    BY FormIs
  <2>2. PICK m \in 1..4 : m = Len(f)
    BY <2>1
  <2>3. m <= n
    BY <1>4, <2>2
  <2>4. n - m + 1 \in 1..n /\ \A k \in 1..m : (n - m + 1) + k - 1 \in 1..n
    BY <1>2, <2>3
  <2>5. \A k \in 1..m : t[(n - m + 1) + k - 1] = s[(n - m + 1) + k - 1]
    BY <1>2, <2>4
  <2>6. Matches(t, n - m + 1, f, m) <=> Matches(s, n - m + 1, f, m)
    BY <2>5 DEF Matches
  <2> QED
    BY <2>2, <2>4, <2>6
<1>5. ASSUME WholeAt(s, n) PROVE RunesTo(s, n)
  <2>1. PICK f \in Forms : Len(f) <= n /\ Matches(t, n - Len(f) + 1, f, Len(f))
    BY <1>3, <1>5
  <2>2. PICK m \in 1..4, i \in 1..n : m = Len(f) /\ i = n - m + 1 /\ Matches(s, i, f, m)
    BY <1>4, <2>1
  <2>3. i \in 1..Len(s) /\ (i - 1) + m = n /\ (i - 1) + 1 = i /\ i - 1 \in Nat /\ i + m - 1 <= Len(s)
        /\ m \in Nat
        /\ m >= 1 /\ i \in Nat
    BY <1>2, <2>2
  <2>4. s[i] \in f[1]
    BY <2>2, <2>3, Begun
  <2>5. s[i] \notin Following
    BY <2>4, FirstIsNot
  <2>6. Len(s) <= Len(s) /\ Len(s) \in Nat
    BY <1>2
  <2>7. RunesTo(s, i - 1)
    BY <2>3, <2>5, <2>6, RuneStart
  <2>8. RuneAt(s, (i - 1) + 1, m)
    BY <2>2, <2>3 DEF RuneAt
  <2>9. RunesTo(s, (i - 1) + m)
    BY <2>2, <2>3, <2>7, <2>8, OneRune
  <2> QED
    BY <2>3, <2>9
<1>6. ASSUME RunesTo(s, n) PROVE WholeAt(s, n)
  <2>1. n > 0
    BY <1>2
  <2>2. PICK m \in 1..4 : m <= n /\ RuneAt(s, n - m + 1, m)
    BY <1>2, <1>6, <2>1, RuneEnd
  <2>3. PICK f \in Forms : Len(f) = m /\ Matches(s, n - m + 1, f, m)
    BY <2>2 DEF RuneAt
  <2>4. Len(f) <= n /\ Matches(t, n - Len(f) + 1, f, Len(f))
    BY <1>4, <2>2, <2>3
  <2> QED
    BY <1>3, <2>4
<1> QED
  BY <1>5, <1>6
\* The recursion of Truncate has a solution, and finds the last place where a rune
\* ends.
Trims(h, s, r) == h = [n \in 0..r |-> IF n = 0 \/ WholeAt(s, n) THEN n ELSE h[n - 1]]

LEMMA TrimExists ==
    ASSUME NEW s, NEW room \in Nat
    PROVE  \E h : Trims(h, s, room)
<1> DEFINE S == {r \in 0..room : \E h : Trims(h, s, r)}
<1>1. 0 \in S
  <2> DEFINE h == [n \in 0..0 |-> 0]
  <2>1. \A n \in 0..0 : n = 0
    OBVIOUS
  <2>2. Trims(h, s, 0)
    BY <2>1 DEF Trims
  <2> QED
    BY <2>2
<1>2. ASSUME NEW r \in 0..room, r < room, r \in S PROVE r + 1 \in S
  <2>1. PICK g : Trims(g, s, r)
    BY <1>2
  <2> DEFINE h == [n \in 0..(r + 1) |-> IF n = 0 \/ WholeAt(s, n) THEN n ELSE g[n - 1]]
  <2>2. ASSUME NEW n \in 0..(r + 1) PROVE h[n] = IF n = 0 \/ WholeAt(s, n) THEN n ELSE h[n - 1]
    <3>1. CASE n = 0 \/ WholeAt(s, n)
      BY <3>1
    <3>2. CASE ~(n = 0 \/ WholeAt(s, n))
      <4>1. n - 1 \in 0..r /\ n - 1 \in 0..(r + 1)
        BY <3>2
      <4>2. g[n - 1] = IF n - 1 = 0 \/ WholeAt(s, n - 1) THEN n - 1 ELSE g[(n - 1) - 1]
        BY <2>1, <4>1 DEF Trims
      <4>3. h[n - 1] = g[n - 1]
        BY <4>1, <4>2
      <4> QED
        BY <3>2, <4>3
    <3> QED
      BY <3>1, <3>2
  <2>3. Trims(h, s, r + 1)
    BY <2>2 DEF Trims
  <2>4. r + 1 \in 0..room
    BY <1>2
  <2> HIDE DEF h
  <2> QED
    BY <2>3, <2>4
<1> HIDE DEF S
<1>3. \A r \in 0..room : r \in S
  BY <1>1, <1>2, Upward
<1> QED
  BY <1>3 DEF S

LEMMA TrimIs ==
    ASSUME NEW s, NEW room \in Nat, NEW h, Trims(h, s, room)
    PROVE  /\ h[room] \in 0..room
           /\ h[room] = 0 \/ WholeAt(s, h[room])
           /\ \A k \in 1..room : WholeAt(s, k) => k <= h[room]
<1> DEFINE P(r) == /\ h[r] \in 0..r
                   /\ h[r] = 0 \/ WholeAt(s, h[r])
                   /\ \A k \in 1..r : WholeAt(s, k) => k <= h[r]
           S == {r \in 0..room : P(r)}
<1>1. \A n \in 0..room : h[n] = IF n = 0 \/ WholeAt(s, n) THEN n ELSE h[n - 1]
  BY DEF Trims
<1>2. 0 \in S
  BY <1>1
<1>3. ASSUME NEW r \in 0..room, r < room, r \in S PROVE r + 1 \in S
  <2>1. r + 1 \in 0..room /\ (r + 1) - 1 = r /\ r + 1 # 0
    BY <1>3
  <2>2. h[r + 1] = IF WholeAt(s, r + 1) THEN r + 1 ELSE h[r]
    BY <1>1, <2>1
  <2>3. P(r)
    <3> HIDE DEF P
    <3> QED
      BY <1>3
  <2>4. /\ h[r] \in 0..r
        /\ h[r] = 0 \/ WholeAt(s, h[r])
        /\ \A k \in 1..r : WholeAt(s, k) => k <= h[r]
    BY <2>3
  <2>5. \A k \in 1..(r + 1) : k \in 1..r \/ k = r + 1
    OBVIOUS
  <2> HIDE DEF S
  <2>6. CASE WholeAt(s, r + 1)
    <3>1. h[r + 1] = r + 1
      BY <2>2, <2>6
    <3>2. r + 1 \in 0..(r + 1) /\ \A k \in 1..(r + 1) : k <= r + 1
      OBVIOUS
    <3>3. P(r + 1)
      BY <2>6, <3>1, <3>2
    <3> HIDE DEF P
    <3> QED
      BY <2>1, <3>3 DEF S
  <2>7. CASE ~WholeAt(s, r + 1)
    <3>1. h[r + 1] = h[r]
      BY <2>2, <2>7
    <3>2. h[r] \in 0..(r + 1)
      BY <2>4
    <3>3. \A k \in 1..(r + 1) : WholeAt(s, k) => k <= h[r]
      BY <2>4, <2>5, <2>7
    <3>4. P(r + 1)
      BY <2>4, <3>1, <3>2, <3>3
    <3> HIDE DEF P
    <3> QED
      BY <2>1, <3>4 DEF S
  <2> QED
    BY <2>6, <2>7
<1> HIDE DEF S
<1>4. \A r \in 0..room : r \in S
  BY <1>2, <1>3, Upward
<1>5. room \in 0..room
  OBVIOUS
<1>6. P(room)
  <2> HIDE DEF P
  <2> QED
    BY <1>4, <1>5 DEF S
<1> QED
  BY <1>6

\* What Truncate leaves of whole runes: whole runes, and all but the one that is cut.
Left(t, s, room) ==
    /\ t \in Seq(Nat) /\ Len(t) \in Nat /\ Len(t) <= room
    /\ RunesTo(t, Len(t))
    /\ Closing!Prefix(t, s)
    /\ Len(t) = Len(s) \/ Len(t) >= room - 3

LEMMA TruncateIs ==
    ASSUME NEW s \in Seq(Nat), RunesTo(s, Len(s)), NEW room \in Nat, room = MaxClose - 2
    PROVE  Left(Closing!Truncate(s), s, room)
<1>1. Len(s) \in Nat
  OBVIOUS
<1>2. CASE Len(s) <= room
  <2>1. Closing!Truncate(s) = s
    BY <1>2 DEF Closing!Truncate
  <2>2. s = SubSeq(s, 1, Len(s))
    OBVIOUS
  <2> QED
    BY <1>1, <1>2, <2>1, <2>2 DEF Left, Closing!Prefix
<1>3. CASE room < Len(s)
  <2> DEFINE r == MaxClose - 2
             h == CHOOSE g : Trims(g, s, r)
  <2>1. Trims(h, s, room)
    BY TrimExists
  <2>2. ~(Len(s) <= r)
    BY <1>1, <1>3
  <2>3. Closing!Truncate(s) = SubSeq(s, 1, h[r])
    BY <2>2 DEF Closing!Truncate, Trims, WholeAt
  <2>4. Closing!Truncate(s) = SubSeq(s, 1, h[room])
    BY <2>3
  <2> HIDE DEF h
  <2>5. /\ h[room] \in 0..room
        /\ h[room] = 0 \/ WholeAt(s, h[room])
        /\ \A k \in 1..room : WholeAt(s, k) => k <= h[room]
    BY <2>1, TrimIs
  <2>6. PICK n \in 0..room : n = h[room]
    BY <2>5
  <2>7. PICK t : t = SubSeq(s, 1, n)
    OBVIOUS
  <2>8. /\ t \in Seq(Nat) /\ Len(t) = n /\ n \in Nat /\ n <= Len(s)
        /\ \A i \in 1..n : t[i] = s[i]
    BY <1>1, <1>3, <2>7
  <2>9. RunesTo(s, n)
    <3>1. CASE n = 0
      BY <3>1, NoRunes
    <3>2. CASE n # 0
      <4>1. n \in 1..Len(s) /\ WholeAt(s, n)
        BY <2>5, <2>6, <2>8, <3>2
      <4> QED
        BY <4>1, WholeIs
    <3> QED
      BY <3>1, <3>2
  <2>10. n <= Len(t)
    BY <2>8
  <2>11. RunesTo(t, n)
    BY <2>8, <2>9, <2>10, RunesKept
  <2>12. n >= room - 3
    <3>1. Len(s) <= Len(s)
      BY <1>1
    <3>2. PICK b \in 0..room : room <= b + 3 /\ RunesTo(s, b)
      BY <1>1, <1>3, <3>1, RuneCut
    <3>3. CASE b = 0
      BY <2>8, <3>2, <3>3
    <3>4. CASE b # 0
      <4>1. b \in 1..Len(s) /\ b \in 1..room
        BY <1>1, <1>3, <3>4
      <4>2. WholeAt(s, b)
        BY <3>2, <4>1, WholeIs
      <4>3. b <= n
        BY <2>5, <2>6, <4>1, <4>2
      <4> QED
        BY <2>8, <3>2, <4>3
    <3> QED
      BY <3>3, <3>4
  <2>13. Closing!Truncate(s) = t
    BY <2>4, <2>6, <2>7
  <2>14. Closing!Prefix(t, s)
    BY <2>7, <2>8 DEF Closing!Prefix
  <2>15. Len(t) <= room /\ Len(t) \in Nat /\ RunesTo(t, Len(t)) /\ Len(t) >= room - 3
    BY <2>8, <2>11, <2>12
  <2> QED
    BY <2>8, <2>13, <2>14, <2>15 DEF Left
<1> QED
  BY <1>1, <1>2, <1>3

-----------------------------------------------------------------------------
\* A close that is parsed by the peer.
LEMMA CodeIs ==
    ASSUME NEW c, Closing!CloseCodeValid(c)
    PROVE  c \in Nat /\ c # Closing!NoStatus /\ (c \div 256) * 256 + (c % 256) = c
<1>1. c \in Nat
  BY SMTT(20) DEF Closing!CloseCodeValid
<1>2. c # Closing!NoStatus
  BY DEF Closing!CloseCodeValid
<1>3. (c \div 256) * 256 + (c % 256) = c
  BY <1>1, SMT
<1> QED
  BY <1>1, <1>2, <1>3

Payload(c, t) == <<c \div 256, c % 256>> \o t

LEMMA ParseIs ==
    ASSUME NEW c, Closing!CloseCodeValid(c), NEW t \in Seq(Nat), RunesTo(t, Len(t))
    PROVE  /\ Len(Payload(c, t)) = 2 + Len(t)
           /\ Closing!ParseClose(Payload(c, t)) = <<c, t, "none">>
<1>1. PICK q : q = Payload(c, t)
  OBVIOUS
<1>2. c \in Nat /\ (c \div 256) * 256 + (c % 256) = c
  BY CodeIs
<1>3. PICK x \in Nat, y \in Nat : x = c \div 256 /\ y = c % 256
  BY <1>2, SMT
<1>4. x * 256 + y = c /\ q = <<x, y>> \o t
  BY <1>1, <1>2, <1>3 DEF Payload
<1>5. Len(t) \in Nat /\ Len(q) = 2 + Len(t) /\ q[1] = x /\ q[2] = y
      /\ \A i \in 1..Len(t) : q[2 + i] = t[i]
  BY <1>4
<1>6. q \in Seq(Nat)
  BY <1>3, <1>4
<1>7. SubSeq(q, 3, Len(q)) = t
  <2>1. PICK w : w = SubSeq(q, 3, Len(q))
    OBVIOUS
  <2>2. w \in Seq(Nat) /\ Len(w) = Len(t) /\ \A i \in 1..Len(t) : w[i] = q[2 + i]
    BY <1>5, <1>6, <2>1
  <2>3. \A i \in 1..Len(t) : w[i] = t[i]
    BY <1>5, <2>2
  <2>4. w = t
    BY <2>2, <2>3, SeqEqual
  <2> QED
    BY <2>1, <2>4
<1>8. WellFormed(t)
  BY WholeParses DEF WellFormed
<1>9. Closing!WellFormed(t)
  BY <1>8, ClosingSame
<1>10. Len(q) # 0 /\ Len(q) # 1 /\ Len(q) > 1
  BY <1>5
<1>11. q[1] * 256 + q[2] = c
  BY <1>4, <1>5
<1>12. Closing!ParseClose(q) = <<q[1] * 256 + q[2], SubSeq(q, 3, Len(q)), "none">>
  <2>1. Closing!CloseCodeValid(q[1] * 256 + q[2])
    BY <1>11
  <2>2. Closing!WellFormed(SubSeq(q, 3, Len(q)))
    BY <1>7, <1>9
  <2> QED
    BY <1>10, <2>1, <2>2 DEF Closing!ParseClose
<1> QED
  BY <1>1, <1>5, <1>7, <1>11, <1>12

CloseInv == code \in Codes /\ reason \in Seq(Nat) /\ RunesTo(reason, Len(reason))

CloseText == Closing!PeerTakesIt /\ Closing!ReasonKept

LEMMA CloseExact == CloseInv => CloseText
<1> SUFFICES ASSUME CloseInv PROVE CloseText
  OBVIOUS
<1>1. PICK room \in Nat : room = MaxClose - 2 /\ MaxClose = room + 2
  BY WsAssumption DEF WsAssumption, Closing!CloseAssumption
<1>2. PICK t : t = Closing!Truncate(reason)
  OBVIOUS
<1>3. Left(t, reason, room)
  BY <1>1, <1>2, TruncateIs DEF CloseInv
<1>4. CASE code = Closing!NoStatus
  <2>1. Closing!FormatClose(code, reason) = <<>>
    BY <1>4 DEF Closing!FormatClose
  <2>2. Len(<<>>) = 0
    OBVIOUS
  <2>3. Closing!ParseClose(<<>>) = <<Closing!NoStatus, <<>>, "none">>
    BY <2>2 DEF Closing!ParseClose
  <2>4. Closing!Parsed = <<code, <<>>, "none">>
    BY <1>4, <2>1, <2>3 DEF Closing!Parsed
  <2>5. Closing!Parsed[1] = code /\ Closing!Parsed[3] = "none"
    BY <2>4
  <2>6. 0 <= MaxClose
    BY <1>1
  <2> QED
    BY <1>4, <2>1, <2>2, <2>5, <2>6 DEF CloseText, Closing!PeerTakesIt, Closing!ReasonKept
<1>5. CASE code # Closing!NoStatus
  <2>1. Closing!CloseCodeValid(code)
    BY <1>5, WsAssumption DEF WsAssumption, Closing!CloseAssumption, CloseInv
  <2>2. PICK q : q = Payload(code, t)
    OBVIOUS
  <2>3. Closing!FormatClose(code, reason) = q
    BY <1>2, <1>5, <2>2 DEF Closing!FormatClose, Payload
  <2>4. t \in Seq(Nat) /\ RunesTo(t, Len(t))
    BY <1>3 DEF Left
  <2>5. Len(q) = 2 + Len(t) /\ Closing!ParseClose(q) = <<code, t, "none">>
    BY <2>1, <2>2, <2>4, ParseIs
  <2>6. Closing!Parsed = <<code, t, "none">>
    BY <2>3, <2>5 DEF Closing!Parsed
  <2>7. Closing!Parsed[1] = code /\ Closing!Parsed[2] = t /\ Closing!Parsed[3] = "none"
    BY <2>6
  <2>8. Len(q) <= MaxClose
    BY <1>1, <1>3, <2>5 DEF Left
  <2>9. Closing!PeerTakesIt
    BY <2>3, <2>7, <2>8 DEF Closing!PeerTakesIt
  <2>10. Closing!Prefix(t, reason) /\ (Len(t) = Len(reason) \/ Len(t) >= (MaxClose - 2) - 3)
    BY <1>1, <1>3 DEF Left
  <2>11. Closing!ReasonKept
    BY <2>7, <2>10 DEF Closing!ReasonKept
  <2> QED
    BY <2>9, <2>11 DEF CloseText
<1> QED
  BY <1>4, <1>5

LEMMA CloseStarts == Closing!Init => CloseInv
  BY NoRunes DEF Closing!Init, CloseInv

LEMMA CloseSteps == CloseInv /\ [Closing!Next]_(Closing!vars) => CloseInv'
<1> SUFFICES ASSUME CloseInv, [Closing!Next]_(Closing!vars) PROVE CloseInv'
  OBVIOUS
<1>1. ASSUME NEW r \in Runes, Closing!Say(r) PROVE CloseInv'
  <2>1. reason' = reason \o r /\ code' = code
    BY <1>1 DEF Closing!Say
  <2>2. r \in Seq(Nat) /\ \E f \in Forms : Len(r) = Len(f) /\ Matches(r, 1, f, Len(f))
    BY WsAssumption, ClosingForms DEF WsAssumption, Closing!CloseAssumption
  <2>3. PICK f \in Forms : Len(r) = Len(f) /\ Matches(r, 1, f, Len(f))
    BY <2>2
  <2>4. PICK p \in Nat, n \in 1..4 : p = Len(reason) /\ n = Len(f)
    BY FormIs DEF CloseInv
  <2>5. /\ reason' \in Seq(Nat) /\ Len(reason') = p + n /\ p <= Len(reason')
        /\ \A i \in 1..p : reason'[i] = reason[i]
        /\ \A i \in 1..n : reason'[p + i] = r[i]
    <3>1. reason \in Seq(Nat) /\ r \in Seq(Nat) /\ Len(reason) = p /\ Len(r) = n
      BY <2>2, <2>3, <2>4 DEF CloseInv
    <3>2. /\ reason' \in Seq(Nat) /\ Len(reason') = p + n
          /\ \A i \in 1..(p + n) : reason'[i] = IF i <= p THEN reason[i] ELSE r[i - p]
      BY <2>1, <3>1, ConcatProperties
    <3>3. /\ \A i \in 1..p : i \in 1..(p + n) /\ i <= p
          /\ \A i \in 1..n : p + i \in 1..(p + n) /\ ~(p + i <= p) /\ (p + i) - p = i
          /\ p <= p + n
      BY <2>4
    <3> QED
      BY <3>2, <3>3
  <2>6. RunesTo(reason', p)
    <3>1. reason \in Seq(Nat) /\ p <= Len(reason) /\ RunesTo(reason, p)
      BY <2>4 DEF CloseInv
    <3> QED
      BY <2>4, <2>5, <3>1, RunesKept
  <2>7. \A k \in 1..n : (p + 1) + k - 1 = p + k /\ 1 + k - 1 = k
    BY <2>4
  <2>8. \A k \in 1..n : r[k] \in f[k]
    BY <2>3, <2>4, <2>7 DEF Matches
  <2>9. Matches(reason', p + 1, f, n)
    BY <2>5, <2>7, <2>8 DEF Matches
  <2>10. (p + 1) + n - 1 <= Len(reason')
    BY <2>4, <2>5
  <2>11. RuneAt(reason', p + 1, n)
    BY <2>4, <2>9, <2>10 DEF RuneAt
  <2>12. RunesTo(reason', p + n)
    BY <2>4, <2>6, <2>11, OneRune
  <2> QED
    BY <2>1, <2>5, <2>12 DEF CloseInv
<1>2. CASE UNCHANGED Closing!vars
  BY <1>2 DEF Closing!vars, CloseInv
<1> QED
  BY <1>1, <1>2 DEF Closing!Next

\* The validator says of every text what Utf8Text says of it, and every close that is
\* sent is one the peer takes, with as much of its reason as there is room for.
THEOREM TextIsExact == Utf!Spec /\ Closing!Spec => []TextExact
<1>1. Utf8Inv /\ CloseInv => TextExact
  BY Utf8Exact, CloseExact DEF TextExact, UtfText, CloseText
<1>2. Utf!Spec => []Utf8Inv
  BY Utf8Starts, Utf8Steps, PTL DEF Utf!Spec
<1>3. Closing!Spec => []CloseInv
  BY CloseStarts, CloseSteps, PTL DEF Closing!Spec
<1> QED
  BY <1>1, <1>2, <1>3, PTL
=============================================================================
