---------------------------- MODULE ClientProofs ----------------------------
(***************************************************************************)
(* Proofs about Client, for any channels, pages, number of sockets and of  *)
(* faults. What the page and the server believe of a channel is spread     *)
(* over the object the page holds, requests and confirmations on the way,  *)
(* authorizations in flight and the seat. The invariant says what the last *)
(* request on the way will make of them; that the queues are queues, and   *)
(* that the first frame of a socket is the first, is why it is kept.       *)
(***************************************************************************)
EXTENDS Client, FiniteSetTheorems, TLAPS

-----------------------------------------------------------------------------
(* Requests and confirmations on the way                                   *)

\* Request i of a queue is about channel n.
About(q, i, n) == q[i].kind # "ping" /\ q[i].name = n

\* No request of the queue is.
Quiet(q, n) == \A i \in DOMAIN q : ~About(q, i, n)

\* Something in the queue is of this kind and about n.
Has(q, n, k) == \E i \in DOMAIN q : q[i].kind = k /\ q[i].name = n

\* The last request about n is of this kind.
Final(q, n, k) ==
    \E i \in DOMAIN q :
        /\ q[i].kind = k /\ q[i].name = n
        /\ \A j \in DOMAIN q : j > i => ~About(q, j, n)

\* The first of a queue is taken off it.
LEMMA TakenOff ==
    ASSUME NEW T, NEW q \in Seq(T), q # <<>>
    PROVE  /\ Head(q) = q[1] /\ Head(q) \in T /\ 1 \in DOMAIN q
           /\ Tail(q) \in Seq(T)
           /\ Len(q) \in Nat /\ DOMAIN q = 1..Len(q) /\ DOMAIN Tail(q) = 1..(Len(q) - 1)
           /\ \A i \in DOMAIN Tail(q) : Tail(q)[i] = q[i + 1] /\ i + 1 \in DOMAIN q
           /\ \A i \in DOMAIN q : i # 1 => i - 1 \in DOMAIN Tail(q) /\ q[i] = Tail(q)[i - 1]
<1>1. Len(q) \in Nat /\ Len(q) # 0 /\ DOMAIN q = 1..Len(q)
    OBVIOUS
<1>2. Head(q) = q[1] /\ Tail(q) \in Seq(T) /\ Len(Tail(q)) = Len(q) - 1
    OBVIOUS
<1>3. \A i \in 1..(Len(q) - 1) : Tail(q)[i] = q[i + 1]
    OBVIOUS
<1>4. DOMAIN Tail(q) = 1..(Len(q) - 1)
    BY <1>1, <1>2
<1>5. \A i \in DOMAIN q : i # 1 => i - 1 \in 1..(Len(q) - 1) /\ (i - 1) + 1 = i
    BY <1>1
<1> QED
    BY <1>1, <1>2, <1>3, <1>4, <1>5

LEMMA TailQuiet ==
    ASSUME NEW T, NEW q \in Seq(T), q # <<>>, NEW n, Quiet(q, n)
    PROVE  Quiet(Tail(q), n) /\ ~(Head(q).kind # "ping" /\ Head(q).name = n)
BY TakenOff DEF Quiet, About

LEMMA TailHas ==
    ASSUME NEW T, NEW q \in Seq(T), q # <<>>, NEW n, NEW k, Has(q, n, k)
    PROVE  Has(Tail(q), n, k) \/ (Head(q).kind = k /\ Head(q).name = n)
<1>1. PICK i \in DOMAIN q : q[i].kind = k /\ q[i].name = n
    BY DEF Has
<1>2. CASE i = 1
    BY <1>1, <1>2, TakenOff
<1>3. CASE i # 1
  <2>1. i - 1 \in DOMAIN Tail(q) /\ Tail(q)[i - 1] = q[i]
    BY <1>3, TakenOff
  <2> QED
    BY <1>1, <2>1 DEF Has
<1> QED
    BY <1>2, <1>3

LEMMA TailFinal ==
    ASSUME NEW T, NEW q \in Seq(T), q # <<>>, NEW n, NEW k, Final(q, n, k)
    PROVE  \/ Final(Tail(q), n, k)
           \/ Head(q).kind = k /\ Head(q).name = n /\ Quiet(Tail(q), n)
<1>1. PICK i \in DOMAIN q : /\ q[i].kind = k /\ q[i].name = n
                            /\ \A j \in DOMAIN q : j > i => ~About(q, j, n)
    BY DEF Final
<1>2. CASE i = 1
  <2>1. \A j \in DOMAIN Tail(q) : j + 1 \in DOMAIN q /\ j + 1 > 1 /\ Tail(q)[j] = q[j + 1]
    BY TakenOff
  <2>2. Quiet(Tail(q), n)
    BY <1>1, <1>2, <2>1 DEF Quiet, About
  <2> QED
    BY <1>1, <1>2, <2>2, TakenOff
<1>3. CASE i # 1
  <2>1. PICK p \in DOMAIN Tail(q) : p = i - 1 /\ Tail(q)[p] = q[i]
    BY <1>3, TakenOff
  <2>2. \A j \in DOMAIN Tail(q) : j > p => j + 1 \in DOMAIN q /\ j + 1 > i /\ Tail(q)[j] = q[j + 1]
    BY <2>1, TakenOff
  <2> QED
    BY <1>1, <2>1, <2>2 DEF Final, About
<1> QED
    BY <1>2, <1>3

\* Some are put at its end.
LEMMA PutOn ==
    ASSUME NEW T, NEW q \in Seq(T), NEW r \in Seq(T)
    PROVE  /\ q \o r \in Seq(T)
           /\ Len(q) \in Nat /\ Len(r) \in Nat /\ DOMAIN q = 1..Len(q) /\ DOMAIN r = 1..Len(r)
           /\ DOMAIN (q \o r) = 1..(Len(q) + Len(r))
           /\ \A i \in DOMAIN q : (q \o r)[i] = q[i]
           /\ \A i \in DOMAIN r : (q \o r)[Len(q) + i] = r[i] /\ Len(q) + i \in DOMAIN (q \o r)
           /\ \A j \in DOMAIN (q \o r) : j \in DOMAIN q
                 \/ (j - Len(q) \in DOMAIN r /\ (q \o r)[j] = r[j - Len(q)])
<1>1. Len(q) \in Nat /\ Len(r) \in Nat /\ DOMAIN q = 1..Len(q) /\ DOMAIN r = 1..Len(r)
    OBVIOUS
<1>2. q \o r \in Seq(T) /\ Len(q \o r) = Len(q) + Len(r)
    OBVIOUS
<1>3. \A i \in 1..(Len(q) + Len(r)) : (q \o r)[i] = IF i <= Len(q) THEN q[i] ELSE r[i - Len(q)]
    OBVIOUS
<1>4. DOMAIN (q \o r) = 1..(Len(q) + Len(r))
    BY <1>1, <1>2
<1>5. \A i \in DOMAIN q : (q \o r)[i] = q[i]
    BY <1>1, <1>3
<1>6. \A i \in DOMAIN r : (q \o r)[Len(q) + i] = r[i] /\ Len(q) + i \in DOMAIN (q \o r)
    BY <1>1, <1>3, <1>4
<1>7. \A j \in DOMAIN (q \o r) : j \in DOMAIN q
         \/ (j - Len(q) \in DOMAIN r /\ (q \o r)[j] = r[j - Len(q)])
    BY <1>1, <1>3, <1>4
<1> QED
    BY <1>1, <1>2, <1>4, <1>5, <1>6, <1>7

\* Append is a way to say so.
LEMMA AppendPuts ==
    ASSUME NEW T, NEW q \in Seq(T), NEW x \in T
    PROVE  Append(q, x) = q \o <<x>>
<1>1. <<x>> \in Seq(T) /\ Len(<<x>>) = 1 /\ <<x>>[1] = x
    OBVIOUS
<1>2. Append(q, x) \in Seq(T) /\ q \o <<x>> \in Seq(T)
    BY <1>1
<1>3. Len(Append(q, x)) = Len(q) + 1 /\ Len(q \o <<x>>) = Len(q) + 1 /\ Len(q) \in Nat
    BY <1>1
<1>4. \A i \in 1..(Len(q) + 1) : Append(q, x)[i] = (q \o <<x>>)[i]
    BY <1>1, <1>3
<1> QED
    BY <1>2, <1>3, <1>4

LEMMA PutHas ==
    ASSUME NEW T, NEW q \in Seq(T), NEW r \in Seq(T), NEW n, NEW k, Has(q, n, k) \/ Has(r, n, k)
    PROVE  Has(q \o r, n, k)
<1>1. CASE Has(q, n, k)
  <2>1. PICK i \in DOMAIN q : q[i].kind = k /\ q[i].name = n
    BY <1>1 DEF Has
  <2>2. i \in DOMAIN (q \o r) /\ (q \o r)[i] = q[i]
    BY PutOn
  <2> QED
    BY <2>1, <2>2 DEF Has
<1>2. CASE Has(r, n, k)
  <2>1. PICK i \in DOMAIN r : r[i].kind = k /\ r[i].name = n
    BY <1>2 DEF Has
  <2>2. Len(q) + i \in DOMAIN (q \o r) /\ (q \o r)[Len(q) + i] = r[i]
    BY PutOn
  <2> QED
    BY <2>1, <2>2 DEF Has
<1> QED
    BY <1>1, <1>2

LEMMA PutQuiet ==
    ASSUME NEW T, NEW q \in Seq(T), NEW r \in Seq(T), NEW n, Quiet(r, n)
    PROVE  /\ Quiet(q, n) => Quiet(q \o r, n)
           /\ \A k : Final(q, n, k) => Final(q \o r, n, k)
<1>1. \A j \in DOMAIN (q \o r) : j \notin DOMAIN q => ~About(q \o r, j, n)
    BY PutOn DEF Quiet, About
<1>2. \A j \in DOMAIN q : (q \o r)[j] = q[j] /\ j \in DOMAIN (q \o r)
    BY PutOn
<1>3. Quiet(q, n) => Quiet(q \o r, n)
    BY <1>1, <1>2 DEF Quiet, About
<1>4. ASSUME NEW k, Final(q, n, k)
      PROVE  Final(q \o r, n, k)
  <2>1. PICK i \in DOMAIN q : /\ q[i].kind = k /\ q[i].name = n
                              /\ \A j \in DOMAIN q : j > i => ~About(q, j, n)
    BY <1>4 DEF Final
  <2>2. \A j \in DOMAIN (q \o r) : j > i => ~About(q \o r, j, n)
    BY <1>1, <1>2, <2>1 DEF About
  <2> QED
    BY <1>2, <2>1, <2>2 DEF Final
<1> QED
    BY <1>3, <1>4

LEMMA PutFinal ==
    ASSUME NEW T, NEW q \in Seq(T), NEW r \in Seq(T), NEW n, NEW k, Final(r, n, k)
    PROVE  Final(q \o r, n, k)
<1>1. PICK i \in DOMAIN r : /\ r[i].kind = k /\ r[i].name = n
                            /\ \A j \in DOMAIN r : j > i => ~About(r, j, n)
    BY DEF Final
<1>2. PICK p \in DOMAIN (q \o r) : p = Len(q) + i /\ (q \o r)[p] = r[i]
    BY PutOn
<1>3. ASSUME NEW j \in DOMAIN (q \o r), j > p
      PROVE  ~About(q \o r, j, n)
  <2>1. j - Len(q) \in DOMAIN r /\ j - Len(q) > i /\ (q \o r)[j] = r[j - Len(q)]
    BY <1>2, <1>3, PutOn
  <2> QED
    BY <1>1, <2>1 DEF About
<1> QED
    BY <1>1, <1>2, <1>3 DEF Final

LEMMA SingleRequest ==
    ASSUME NEW T, NEW x \in T
    PROVE  /\ <<x>> \in Seq(T)
           /\ \A n : ~(x.kind # "ping" /\ x.name = n) => Quiet(<<x>>, n)
           /\ Final(<<x>>, x.name, x.kind) /\ Has(<<x>>, x.name, x.kind)
<1>1. <<x>> \in Seq(T) /\ DOMAIN <<x>> = {1} /\ <<x>>[1] = x
    OBVIOUS
<1> QED
    BY <1>1 DEF Quiet, Final, Has, About

\* A set of channels in some order: each of them, once.
LEMMA Ordered ==
    ASSUME NEW S, IsFiniteSet(S)
    PROVE  /\ SetToSeq(S) \in Seq(S)
           /\ \A i, j \in DOMAIN SetToSeq(S) : SetToSeq(S)[i] = SetToSeq(S)[j] => i = j
           /\ \A x \in S : \E i \in DOMAIN SetToSeq(S) : SetToSeq(S)[i] = x
<1> DEFINE c == Cardinality(S)
<1>1. c \in Nat /\ ExistsBijection(1..c, S)
    BY FS_CardinalityType
<1>2. PICK g : g \in Bijection(1..c, S)
    BY <1>1 DEF ExistsBijection
<1>3. g \in [1..c -> S] /\ IsInjective(g)
    BY <1>2 DEF Bijection, Injection
<1>4. SetToSeq(S) \in [1..c -> S] /\ IsInjective(SetToSeq(S))
    BY <1>3 DEF SetToSeq
<1>5. SetToSeq(S) \in Injection(1..c, S)
    BY <1>4 DEF Injection
<1>6. Cardinality(1..c) = c
    BY <1>1, FS_Interval
<1>7. SetToSeq(S) \in Surjection(1..c, S)
    BY <1>5, <1>6, FS_Injection
<1>8. SetToSeq(S) \in Seq(S)
    BY <1>1, <1>4
<1>9. DOMAIN SetToSeq(S) = 1..c
    BY <1>4
<1> QED
    BY <1>4, <1>7, <1>8, <1>9 DEF IsInjective, Surjection

\* _join asks for every public channel it is given, and writes of no other.
LEMMA SubscriptionsOf ==
    ASSUME NEW S \in SUBSET Names
    PROVE  /\ Subscriptions(S) \in Seq(Requests)
           /\ \A i \in DOMAIN Subscriptions(S) :
                 Subscriptions(S)[i].kind = "subscribe" /\ Subscriptions(S)[i].auth = None
           /\ \A n \in S \ Guarded : Final(Subscriptions(S), n, "subscribe")
           /\ \A n : n \notin S \ Guarded => Quiet(Subscriptions(S), n)
<1> DEFINE open == SetToSeq(S \ Guarded)
           r == Subscriptions(S)
<1>1. IsFiniteSet(S \ Guarded)
    BY ClientAssumption, FS_Subset
<1>2. /\ open \in Seq(S \ Guarded)
      /\ \A i, j \in DOMAIN open : open[i] = open[j] => i = j
      /\ \A x \in S \ Guarded : \E i \in DOMAIN open : open[i] = x
    BY <1>1, Ordered
<1>3. r = [i \in DOMAIN open |-> Request("subscribe", open[i], None)]
    BY DEF Subscriptions
<1> HIDE DEF open, r
<1>4. DOMAIN open = 1..Len(open) /\ Len(open) \in Nat /\ \A i \in DOMAIN open : open[i] \in S \ Guarded
    BY <1>2
<1>5. \A x \in Names : Request("subscribe", x, None) \in Requests
    BY DEF Request, Requests
<1>6. r \in Seq(Requests)
    BY <1>3, <1>4, <1>5
<1>7. DOMAIN r = DOMAIN open
    BY <1>3
<1>8. \A i \in DOMAIN r : r[i].kind = "subscribe" /\ r[i].auth = None /\ r[i].name = open[i]
    BY <1>3, <1>7 DEF Request
<1>9. ASSUME NEW n \in S \ Guarded
      PROVE  Final(r, n, "subscribe")
  <2>1. PICK i \in DOMAIN open : open[i] = n
    BY <1>2
  <2>2. \A j \in DOMAIN r : j > i => r[j].name # n
    BY <1>2, <1>4, <1>7, <1>8, <2>1
  <2> QED
    BY <1>7, <1>8, <2>1, <2>2 DEF Final, About
<1>10. \A n : n \notin S \ Guarded => Quiet(r, n)
    BY <1>4, <1>7, <1>8 DEF Quiet, About
<1> QED
    BY <1>6, <1>8, <1>9, <1>10 DEF r

-----------------------------------------------------------------------------
(* The inductive invariant                                                 *)

\* Objects are made by calls of the page.
MadeOK == \A n \in Names : held[n] <= made[n] /\ made[n] <= calls

\* A socket id is the one of a socket, and of the only one unless a listener connects.
AloneOK ==
    /\ sid # None => sock # None
    /\ ~bound.reentrant => /\ Alone
                           /\ sid # None => sid = sock
                           /\ retry.due <= 1 /\ (retry.due = 1 => retry.handle)

\* Nothing is on a socket that is not open yet, and the server's end of one that
\* went silent is gone.
EarlyOf(s) ==
    /\ status[s] \in {"none", "connecting"} =>
          up[s] = <<>> /\ seats[s] = {} /\ conn[s] # "open" /\ silent[s] = "no" /\ sid # s
    /\ conn[s] = "open" => silent[s] = "no"

Alive(s) == sock = s /\ status[s] = "open" /\ conn[s] = "open"

\* The frame with the socket id is the first, there is one, no confirmation is heard
\* before it, and it is on its way while the server is there and the page waits for it.
\* q is what the browser will hand over, own says that the socket id is this socket's,
\* used that the page listens to it and there that it is alive.
First(q, own, used, there) ==
    /\ \A i \in DOMAIN q : q[i].kind = "established" => i = 1 /\ ~own
    /\ used /\ ~own => \A i \in DOMAIN q : q[i].kind = "confirm" => q[1].kind = "established"
    /\ there /\ ~own => q # <<>> /\ q[1].kind = "established"

FirstOf(s) == First(down[s], sid = s, sock = s /\ status[s] = "open", Alive(s))

\* A channel the page let go of is left, or will be; one it holds was refused, is
\* being authorized, was asked for last, or has its seat; and of a seat the page
\* knows, will know, or it is about to go.
AgreesOn(s, n) ==
    /\ sid = None => Quiet(up[s], n) /\ n \notin seats[s]
    /\ held[n] = 0 => Final(up[s], n, "unsubscribe") \/ (Quiet(up[s], n) /\ n \notin seats[s])
    /\ sid = s /\ held[n] # 0 /\ n \notin denied[s] =>
          \/ \E a \in auths : a.name = n /\ a.socket = s /\ a.obj = held[n]
          \/ Final(up[s], n, "subscribe")
          \/ Quiet(up[s], n) /\ n \in seats[s]
    /\ n \in seats[s] =>
          \/ sid = s /\ confirmed[n] = s
          \/ Has(down[s], n, "confirm")
          \/ Has(up[s], n, "unsubscribe")

AgreeOf(s) == Alive(s) => \A n \in Names : AgreesOn(s, n)

\* The inductive invariant.
IInv ==
    /\ TypeOK
    /\ MadeOK
    /\ AloneOK
    /\ NothingOutlives
    /\ SignedForItsSocket
    /\ \A s \in Sockets : EarlyOf(s) /\ FirstOf(s) /\ AgreeOf(s)

-----------------------------------------------------------------------------
(* What the definitions come to                                            *)

\* A step of the specification, action by action.
LEMMA StepCases ==
    ASSUME TypeOK, [Next]_vars
    PROVE  \/ Connect \/ Disconnect \/ RetryFires \/ ActivityFires \/ PongFires \/ WindowPasses
           \/ \E n \in Names : Subscribe(n) \/ Unsubscribe(n)
           \/ \E a \in auths : AuthAnswers(a) \/ AuthFails(a)
           \/ \E s \in Sockets : Receive(s) \/ Closed(s) \/ Serve(s)
           \/ \E s \in Sockets : Accept(s) \/ Refuse(s)
           \/ \E s \in Sockets : ServerCloses(s) \/ Drop(s) \/ Silence(s) \/ CloseCompletes(s)
           \/ UNCHANGED vars
<1>1. bound.names \subseteq Names
    BY ClientAssumption DEF TypeOK, BoundType
<1> QED
    BY <1>1 DEF Next

LEMMA BoundTyped ==
    ASSUME TypeOK
    PROVE  /\ bound.calls \in 0..MaxCalls /\ bound.faults \in Nat /\ MaxCalls \in Nat
           /\ bound.sockets \in 1..MaxSockets /\ 1..bound.sockets \subseteq Sockets
           /\ None \notin Sockets /\ None \notin Names
<1>1. bound \in BoundType
    BY ClientAssumption DEF TypeOK
<1>2. bound.sockets \in 1..MaxSockets /\ MaxSockets \in Nat
    BY <1>1, ClientAssumption DEF BoundType
<1> QED
    BY <1>1, <1>2, ClientAssumption DEF BoundType, Sockets

\* _send: the frames at the end of what is on the way, or nothing.
LEMMA Sends ==
    ASSUME TypeOK, NEW s \in Sockets, NEW frames \in Seq(Requests)
    PROVE  /\ Sent(s, frames) \in Seq(Requests)
           /\ Sent(s, frames) = up[s] \/ (Sent(s, frames) = up[s] \o frames /\ status[s] = "open" /\ conn[s] = "open")
           /\ status[s] = "open" /\ conn[s] = "open" /\ silent[s] = "no" => Sent(s, frames) = up[s] \o frames
<1>1. up[s] \in Seq(Requests)
    BY DEF TypeOK
<1>2. up[s] \o frames \in Seq(Requests)
    BY <1>1
<1> QED
    BY <1>1, <1>2 DEF Sent

\* A change of one queue keeps them queues.
LEMMA OneQueue ==
    ASSUME NEW D, NEW T, NEW f \in [D -> Seq(T)], NEW d \in D, NEW q \in Seq(T)
    PROVE  /\ [f EXCEPT ![d] = q] \in [D -> Seq(T)]
           /\ [f EXCEPT ![d] = q][d] = q
           /\ \A e \in D : e # d => [f EXCEPT ![d] = q][e] = f[e]
    OBVIOUS

LEMMA RequestsTyped ==
    /\ \A n \in Names, a \in Sockets \union {None} :
          Request("subscribe", n, a) \in Requests /\ Request("unsubscribe", n, a) \in Requests
    /\ Request("ping", None, None) \in Requests
    /\ \A k \in {"established", "refused", "denied", "pong", "close", "fatal"} : Frame(k, None) \in Frames
    /\ \A n \in Names : Frame("confirm", n) \in Frames
    /\ \A k, n : Frame(k, n).kind = k /\ Frame(k, n).name = n
    /\ \A k, n, a : /\ Request(k, n, a).kind = k
                    /\ Request(k, n, a).name = n
                    /\ Request(k, n, a).auth = a
    /\ \A f \in Requests : f.kind # "ping" => f.kind \in {"subscribe", "unsubscribe"} /\ f.name \in Names
    /\ \A f \in Frames : f.kind = "confirm" => f.name \in Names
BY DEF Request, Requests, Frame, Frames

\* Every authorization that is asked for names a channel there is.
LEMMA AskingTyped ==
    ASSUME NEW S, NEW s, NEW objects
    PROVE  Asking(S, s, objects) \subseteq Auths
BY DEF Asking

\* What an authorization asks for is on its way, newly or from before.
LEMMA AskingCovers ==
    ASSUME NEW S \in SUBSET Names, NEW s \in Sockets, NEW objects, NEW n \in S \intersect Guarded,
           objects[n] \in 1..MaxCalls, MaxCalls \in Nat
    PROVE  \E a \in auths \union Asking(S, s, objects) :
               a.name = n /\ a.socket = s /\ a.obj = objects[n]
<1> DEFINE a == [name |-> n, obj |-> objects[n], socket |-> s, nr |-> 1]
<1>1. a \in Auths
    BY ClientAssumption DEF Auths
<1>2. a.name = n /\ a.socket = s /\ a.obj = objects[n] /\ 1..(a.nr - 1) = {}
    OBVIOUS
<1> HIDE DEF a
<1>3. a \in auths \/ a \in Asking(S, s, objects)
    BY <1>1, <1>2 DEF Asking
<1> QED
    BY <1>2, <1>3

-----------------------------------------------------------------------------
(* Types                                                                   *)

\* What a dial leaves.
LEMMA DialTyped ==
    ASSUME TypeOK, NEW t \in Sockets, NEW s \in Sockets, NEW free,
           NEW before \in [Sockets -> {"none", "connecting", "open", "closing", "closed"}],
           Dial(t, s, free, before)
    PROVE  /\ status[t] = "none" /\ status[s] = "none" /\ sock' = s
           /\ ~bound.reentrant => t = s
           /\ status' = [before EXCEPT ![t] = "connecting", ![s] = "connecting"]
           /\ status' \in [Sockets -> {"none", "connecting", "open", "closing", "closed"}]
BY DEF Dial, Fresh

\* What _open leaves.
LEMMA OpenTyped ==
    ASSUME TypeOK, Open
    PROVE  /\ state' \in States /\ sock' \in Sockets /\ status[sock'] = "none"
           /\ \E t \in Sockets : /\ status[t] = "none" /\ (~bound.reentrant => t = sock')
                                 /\ status' = [status EXCEPT ![t] = "connecting", ![sock'] = "connecting"]
           /\ status' \in [Sockets -> {"none", "connecting", "open", "closing", "closed"}]
<1>1. status \in [Sockets -> {"none", "connecting", "open", "closing", "closed"}]
    BY DEF TypeOK
<1>2. PICK t, s \in Sockets : Dial(t, s, state # "connecting" /\ sock = None, status)
    BY DEF Open
<1> QED
    BY <1>1, <1>2, DialTyped DEF Open, States

\* The timers of _retry after each of the things that happen to them.
LEMMA RetryTyped ==
    ASSUME TypeOK
    PROVE  /\ retry.handle \in BOOLEAN /\ retry.due \in Nat
           /\ RetrySet \in [handle : BOOLEAN, due : Nat]
           /\ RetrySet.handle /\ RetrySet.due = retry.due + 1
           /\ retry.due > 0 => RetryFired \in [handle : BOOLEAN, due : Nat]
           /\ ~RetryFired.handle /\ RetryFired.due = retry.due - 1
           /\ RetryCleared \in [handle : BOOLEAN, due : Nat]
           /\ ~RetryCleared.handle
           /\ RetryCleared.due = IF retry.handle THEN retry.due - 1 ELSE retry.due
<1>1. retry \in [handle : BOOLEAN, due : Nat] /\ (retry.handle => retry.due > 0)
    BY DEF TypeOK
<1>2. RetryFired.handle = FALSE /\ RetryFired.due = retry.due - 1
    BY DEF RetryFired
<1>3. RetrySet.handle = TRUE /\ RetrySet.due = retry.due + 1
    BY DEF RetrySet
<1>4. retry.due > 0 => RetryFired \in [handle : BOOLEAN, due : Nat]
    BY <1>1 DEF RetryFired
<1>5. RetrySet \in [handle : BOOLEAN, due : Nat]
    BY <1>1 DEF RetrySet
<1> QED
    BY <1>1, <1>2, <1>3, <1>4, <1>5 DEF RetryCleared

\* onmessage, by what is heard.
LEMMA ReceiveCases ==
    ASSUME TypeOK, NEW s \in Sockets, Receive(s)
    PROVE  /\ down[s] \in Seq(Frames) /\ down[s] # <<>>
           /\ Head(down[s]) \in Frames /\ Head(down[s]).kind \notin {"close", "fatal"}
           /\ down' = [down EXCEPT ![s] = Tail(down[s])]
           /\ UNCHANGED <<wanted, held, made, sock, retry, status, silent, conn, seats, denied,
                          turned, calls, faults, bound>>
           /\ \/ ~Heard(s) /\ UNCHANGED <<state, sid, activity, pong, recent, confirmed, auths, up>>
              \/ /\ Heard(s) /\ Head(down[s]).kind = "established" /\ activity' = TRUE /\ pong' = FALSE
                 /\ Established(s)
              \/ /\ Heard(s) /\ Head(down[s]).kind \notin {"established", "confirm"}
                 /\ activity' = TRUE /\ pong' = FALSE /\ recent' \in {TRUE, recent}
                 /\ UNCHANGED <<state, sid, confirmed, auths, up>>
              \/ /\ Heard(s) /\ Head(down[s]).kind = "confirm" /\ Head(down[s]).name \in Names
                 /\ activity' = TRUE /\ pong' = FALSE
                 /\ confirmed' = IF held[Head(down[s]).name] = 0 THEN confirmed
                                 ELSE [confirmed EXCEPT ![Head(down[s]).name] = s]
                 /\ UNCHANGED <<state, sid, recent, auths, up>>
<1>1. down[s] \in Seq(Frames) /\ down[s] # <<>>
    BY DEF TypeOK, Receive
<1>2. Head(down[s]) \in Frames
    BY <1>1, TakenOff
<1>3. /\ Head(down[s]).kind \in {"established", "refused", "denied", "confirm", "pong", "close", "fatal"}
      /\ Head(down[s]).kind = "confirm" => Head(down[s]).name \in Names
    BY <1>2 DEF Frames
<1>4. Head(down[s]).kind \notin {"close", "fatal"} /\ down' = [down EXCEPT ![s] = Tail(down[s])]
    BY DEF Receive
<1>5. UNCHANGED <<wanted, held, made, sock, retry, status, silent, conn, seats, denied,
                  turned, calls, faults, bound>>
    BY DEF Receive, history, bounds
<1>6. CASE ~Heard(s)
    BY <1>1, <1>2, <1>4, <1>5, <1>6 DEF Receive
<1>7. CASE Heard(s) /\ Head(down[s]).kind = "established"
  <2>1. activity' = TRUE /\ pong' = FALSE /\ Established(s)
    BY <1>7 DEF Receive, Touch
  <2> QED
    BY <1>1, <1>2, <1>4, <1>5, <1>7, <2>1
<1>8. CASE Heard(s) /\ Head(down[s]).kind \in {"refused", "denied"}
  <2>1. /\ activity' = TRUE /\ pong' = FALSE /\ recent' = TRUE
        /\ UNCHANGED <<state, sid, confirmed, auths, up>>
    BY <1>8 DEF Receive, Touch
  <2> QED
    BY <1>1, <1>2, <1>4, <1>5, <1>8, <2>1
<1>9. CASE Heard(s) /\ Head(down[s]).kind = "pong"
  <2>1. /\ activity' = TRUE /\ pong' = FALSE
        /\ UNCHANGED <<recent, state, sid, confirmed, auths, up>>
    BY <1>9 DEF Receive, Touch
  <2> QED
    BY <1>1, <1>2, <1>4, <1>5, <1>9, <2>1
<1>10. CASE Heard(s) /\ Head(down[s]).kind = "confirm"
  <2>1. /\ activity' = TRUE /\ pong' = FALSE
        /\ confirmed' = IF held[Head(down[s]).name] = 0 THEN confirmed
                        ELSE [confirmed EXCEPT ![Head(down[s]).name] = s]
        /\ UNCHANGED <<state, sid, recent, auths, up>>
    BY <1>10 DEF Receive, Touch
  <2> QED
    BY <1>1, <1>2, <1>3, <1>4, <1>5, <1>10, <2>1
<1> QED
    BY <1>3, <1>4, <1>6, <1>7, <1>8, <1>9, <1>10

\* onclose, by what is left.
LEMMA ClosedCases ==
    ASSUME TypeOK, NEW s \in Sockets, Closed(s)
    PROVE  /\ down[s] \in Seq(Frames) /\ down[s] # <<>> /\ Head(down[s]).kind \in {"close", "fatal"}
           /\ down' = [down EXCEPT ![s] = Tail(down[s])]
           /\ UNCHANGED <<held, made, recent, silent, conn, up, seats, denied, turned, calls, faults, bound>>
           /\ \/ /\ sock # s /\ status' = [status EXCEPT ![s] = "closed"]
                 /\ UNCHANGED <<wanted, confirmed, state, sock, sid, retry, activity, pong, auths>>
              \/ /\ sock = s /\ status' = [status EXCEPT ![s] = "closed"] /\ sock' = None
                 /\ sid' = None /\ confirmed' = [n \in Names |-> None] /\ auths' \in {{}, auths}
                 /\ activity' = FALSE /\ pong' = FALSE /\ wanted' \in {wanted, TRUE}
                 /\ state' \in States /\ retry' \in {retry, RetrySet}
              \/ /\ bound.reentrant
                 /\ sock = s /\ sock' \in Sockets /\ status[sock'] = "none"
                 /\ \E t \in Sockets :
                        /\ status[t] = "none"
                        /\ status' = [status EXCEPT ![s] = "closed", ![t] = "connecting", ![sock'] = "connecting"]
                 /\ sid' = None /\ confirmed' = [n \in Names |-> None] /\ auths' \in {{}, auths}
                 /\ activity' = FALSE /\ pong' = FALSE /\ wanted' \in {wanted, TRUE}
                 /\ state' \in States /\ retry' \in {retry, RetrySet}
<1>1. down[s] \in Seq(Frames) /\ down[s] # <<>> /\ Head(down[s]).kind \in {"close", "fatal"}
    BY DEF TypeOK, Closed
<1>2. /\ down' = [down EXCEPT ![s] = Tail(down[s])]
      /\ UNCHANGED <<held, made, recent, silent, conn, up, seats, denied, turned, calls, faults, bound>>
    BY DEF Closed, history, bounds
<1>3. CASE sock # s
  <2>1. /\ status' = [status EXCEPT ![s] = "closed"]
        /\ UNCHANGED <<wanted, confirmed, state, sock, sid, retry, activity, pong, auths>>
    BY <1>3 DEF Closed, timers
  <2> QED
    BY <1>1, <1>2, <1>3, <2>1
<1>4. CASE sock = s
  <2>1. /\ sid' = None /\ confirmed' = [n \in Names |-> None] /\ auths' \in {{}, auths}
        /\ activity' = FALSE /\ pong' = FALSE
    BY <1>4 DEF Closed, Forget, Cancelled
  <2> DEFINE kind == Head(down[s]).kind
             before == [status EXCEPT ![s] = "closed"]
  <2>2. before \in [Sockets -> {"none", "connecting", "open", "closing", "closed"}]
    BY DEF TypeOK
  <2>3. GivesUpOrRetries(kind) => state' \in States /\ retry' \in {retry, RetrySet}
    BY DEF GivesUpOrRetries, Retry, States
  <2>4. CASE ComesBackOrNot(s, kind)
    <3>1. sock' = None /\ status' = before /\ wanted' = wanted /\ state' \in States /\ retry' \in {retry, RetrySet}
        BY <2>3, <2>4 DEF ComesBackOrNot, States
    <3> QED
        BY <1>1, <1>2, <1>4, <2>1, <3>1
  <2>5. ASSUME NEW t \in Sockets, NEW u \in Sockets, Dial(t, u, TRUE, before), bound.reentrant,
               wanted' \in {wanted, TRUE}, state' \in States, retry' \in {retry, RetrySet}
        PROVE  /\ sock' \in Sockets /\ status[sock'] = "none"
               /\ \E v \in Sockets :
                      /\ status[v] = "none"
                      /\ status' = [status EXCEPT ![s] = "closed", ![v] = "connecting", ![sock'] = "connecting"]
    <3>1. /\ status[t] = "none" /\ status[u] = "none" /\ sock' = u
          /\ status' = [before EXCEPT ![t] = "connecting", ![u] = "connecting"]
        BY <2>2, <2>5, DialTyped
    <3>2. [before EXCEPT ![t] = "connecting", ![u] = "connecting"]
              = [status EXCEPT ![s] = "closed", ![t] = "connecting", ![u] = "connecting"]
        BY DEF TypeOK
    <3> QED
        BY <3>1, <3>2
  <2>6. CASE ConnectedMeanwhile(s, kind)
    <3>1. bound.reentrant /\ wanted' = TRUE /\ state' \in States /\ retry' \in {retry, RetrySet}
        BY <2>3, <2>6 DEF ConnectedMeanwhile
    <3>2. CASE retry.handle
      <4>1. sock' = None /\ status' = before
        BY <2>6, <3>2 DEF ConnectedMeanwhile
      <4> QED
        BY <1>1, <1>2, <1>4, <2>1, <3>1, <4>1
    <3>3. CASE ~retry.handle
      <4>1. PICK t, u \in Sockets : Dial(t, u, TRUE, before)
        BY <2>6, <3>3 DEF ConnectedMeanwhile
      <4> QED
        BY <1>1, <1>2, <1>4, <2>1, <2>5, <3>1, <4>1
    <3> QED
        BY <3>2, <3>3
  <2>7. CASE ConnectedAtRetry(s, kind)
    <3>1. bound.reentrant /\ wanted' = wanted /\ state' \in States /\ retry' = RetrySet
        BY <2>7 DEF ConnectedAtRetry, States
    <3>2. PICK t, u \in Sockets : Dial(t, u, TRUE, before)
        BY <2>7 DEF ConnectedAtRetry
    <3> QED
        BY <1>1, <1>2, <1>4, <2>1, <2>5, <3>1, <3>2
  <2> QED
    BY <1>4, <2>4, <2>6, <2>7 DEF Closed
<1> QED
    BY <1>3, <1>4

\* Message, by the request.
LEMMA ServeCases ==
    ASSUME TypeOK, NEW s \in Sockets, Serve(s)
    PROVE  /\ conn[s] = "open" /\ up[s] \in Seq(Requests) /\ up[s] # <<>>
           /\ up' = [up EXCEPT ![s] = Tail(up[s])]
           /\ UNCHANGED <<wanted, held, made, confirmed, state, sock, sid, retry, activity, pong, recent,
                          auths, status, silent, conn, turned, calls, faults, bound>>
           /\ \/ /\ Head(up[s]).kind = "subscribe" /\ Head(up[s]).name \in Names
                 /\ seats' = [seats EXCEPT ![s] = @ \union {Head(up[s]).name}]
                 /\ down' = [down EXCEPT ![s] = down[s] \o <<Frame("confirm", Head(up[s]).name)>>]
                 /\ denied' = denied
              \/ /\ Head(up[s]).kind = "subscribe" /\ Head(up[s]).name \in Names
                 /\ denied' = [denied EXCEPT ![s] = @ \union {Head(up[s]).name}]
                 /\ down' = [down EXCEPT ![s] = down[s] \o <<Frame("denied", None)>>]
                 /\ seats' = seats
              \/ /\ Head(up[s]).kind = "unsubscribe" /\ Head(up[s]).name \in Names
                 /\ seats' = [seats EXCEPT ![s] = @ \ {Head(up[s]).name}]
                 /\ down' = down /\ denied' = denied
              \/ /\ Head(up[s]).kind = "ping"
                 /\ down' = [down EXCEPT ![s] = down[s] \o <<Frame("pong", None)>>]
                 /\ seats' = seats /\ denied' = denied
<1>1. conn[s] = "open" /\ up[s] \in Seq(Requests) /\ up[s] # <<>> /\ down[s] \in Seq(Frames)
    BY DEF TypeOK, Serve
<1>2. Head(up[s]) \in Requests
    BY <1>1, TakenOff
<1>3. Head(up[s]).kind \in {"subscribe", "unsubscribe"} => Head(up[s]).name \in Names
    BY <1>2 DEF Requests
<1>4. /\ up' = [up EXCEPT ![s] = Tail(up[s])]
      /\ UNCHANGED <<wanted, held, made, confirmed, state, sock, sid, retry, activity, pong, recent,
                     auths, status, silent, conn, turned, calls, faults, bound>>
    BY DEF Serve, page, timers, bounds
<1>5. /\ \A x \in Frames : Append(down[s], x) = down[s] \o <<x>>
      /\ Frame("denied", None) \in Frames /\ Frame("pong", None) \in Frames
      /\ \A n \in Names : Frame("confirm", n) \in Frames
    BY <1>1, AppendPuts, RequestsTyped
<1> QED
    BY <1>1, <1>3, <1>4, <1>5 DEF Serve

\* The four ways a server's end of a socket goes.
LEMMA GoneCases ==
    ASSUME TypeOK, NEW s \in Sockets,
           ServerCloses(s) \/ Drop(s) \/ Silence(s) \/ CloseCompletes(s)
    PROVE  /\ conn' = [conn EXCEPT ![s] = "gone"]
           /\ up' = [up EXCEPT ![s] = <<>>]
           /\ seats' = [seats EXCEPT ![s] = {}]
           /\ UNCHANGED <<wanted, held, made, confirmed, state, sock, sid, retry, activity, pong, recent,
                          auths, status, denied, calls, bound>>
           /\ silent' \in [Sockets -> {"no", "early", "late"}]
           /\ \A t \in Sockets : t # s => silent'[t] = silent[t]
           /\ turned' \in {turned, turned \union {s}}
           /\ faults' = faults \/ (faults < bound.faults /\ faults' = faults + 1)
           /\ \/ down' = [down EXCEPT ![s] = <<>>]
              \/ \E k \in 0..Len(down[s]), last \in {"close", "fatal"} :
                    down' = [down EXCEPT ![s] = SubSeq(down[s], 1, k) \o <<Frame(last, None)>>]
<1>0. down[s] \in Seq(Frames) /\ Len(down[s]) \in Nat
    BY DEF TypeOK
<1>1. SubSeq(down[s], 1, Len(down[s])) = down[s] /\ Len(down[s]) \in 0..Len(down[s])
    BY <1>0
<1>2. \A k \in 0..Len(down[s]) : SubSeq(down[s], 1, k) \in Seq(Frames)
    BY <1>0
<1>3. \A last \in {"close", "fatal"} :
          Append(down[s], Frame(last, None)) = SubSeq(down[s], 1, Len(down[s])) \o <<Frame(last, None)>>
    BY <1>0, <1>1, AppendPuts, RequestsTyped
<1>4. \A k \in 0..Len(down[s]) : \A last \in {"close", "fatal"} :
         Append(SubSeq(down[s], 1, k), Frame(last, None)) = SubSeq(down[s], 1, k) \o <<Frame(last, None)>>
    BY <1>2, AppendPuts, RequestsTyped
<1>5. /\ conn' = [conn EXCEPT ![s] = "gone"]
      /\ up' = [up EXCEPT ![s] = <<>>]
      /\ seats' = [seats EXCEPT ![s] = {}]
      /\ UNCHANGED <<wanted, held, made, confirmed, state, sock, sid, retry, activity, pong, recent,
                     auths, status, denied, calls, bound>>
    BY DEF ServerCloses, Drop, Silence, CloseCompletes, Gone, Fault, page, timers, history, bounds
<1>6. /\ silent' \in [Sockets -> {"no", "early", "late"}]
      /\ \A t \in Sockets : t # s => silent'[t] = silent[t]
    BY DEF ServerCloses, Drop, Silence, CloseCompletes, TypeOK
<1>7. /\ turned' \in {turned, turned \union {s}}
      /\ faults' = faults \/ (faults < bound.faults /\ faults' = faults + 1)
    BY DEF ServerCloses, Drop, Silence, CloseCompletes, Fault, history, bounds
<1>8. \/ down' = [down EXCEPT ![s] = <<>>]
      \/ \E k \in 0..Len(down[s]), last \in {"close", "fatal"} :
            down' = [down EXCEPT ![s] = SubSeq(down[s], 1, k) \o <<Frame(last, None)>>]
  <2>1. CASE ServerCloses(s)
    BY <2>1, <1>1, <1>3 DEF ServerCloses
  <2>2. CASE CloseCompletes(s)
    BY <2>2, <1>1, <1>3 DEF CloseCompletes
  <2>3. CASE Drop(s)
    BY <2>3, <1>4 DEF Drop
  <2>4. CASE Silence(s)
    BY <2>4 DEF Silence
  <2> QED
    BY <2>1, <2>2, <2>3, <2>4
<1> QED
    BY <1>5, <1>6, <1>7, <1>8

\* subscribe: the object is one that calls can have made.
LEMMA SubscribeEffect ==
    ASSUME TypeOK, MadeOK, NEW n \in Names, Subscribe(n)
    PROVE  /\ calls < bound.calls /\ calls' = calls + 1 /\ calls \in Nat
           /\ held' \in [Names -> 0..MaxCalls] /\ held'[n] \in 1..MaxCalls
           /\ \A m \in Names : m # n => held'[m] = held[m]
           /\ made' \in [Names -> 0..MaxCalls] /\ MadeOK'
           /\ \/ sid = None /\ auths' = auths /\ up' = up
              \/ /\ sid # None /\ auths' = auths \union Asking({n}, sid, held')
                 /\ up' = [up EXCEPT ![sock] = Sent(sock, Subscriptions({n}))]
           /\ UNCHANGED <<wanted, confirmed, state, sock, sid, retry, activity, pong, recent, status,
                          silent, down, conn, seats, denied, turned, faults, bound>>
<1>1. /\ calls < bound.calls /\ calls' = calls + 1
      /\ UNCHANGED <<wanted, confirmed, state, sock, sid, retry, activity, pong, recent, status,
                     silent, down, conn, seats, denied, turned, faults, bound>>
    BY DEF Subscribe, Called, timers, history
<1>2. calls \in Nat /\ bound.calls \in 0..MaxCalls /\ MaxCalls \in Nat
    BY BoundTyped DEF TypeOK
<1>3. PICK obj : /\ obj = IF held[n] = 0 THEN made[n] + 1 ELSE held[n]
                 /\ held' = [held EXCEPT ![n] = obj]
                 /\ made' = [made EXCEPT ![n] = IF held[n] = 0 THEN obj ELSE @]
    BY DEF Subscribe
<1>4. /\ held \in [Names -> 0..MaxCalls] /\ made \in [Names -> 0..MaxCalls]
      /\ held[n] \in 0..MaxCalls /\ made[n] \in 0..MaxCalls
      /\ held[n] <= made[n] /\ made[n] <= calls
    BY DEF TypeOK, MadeOK
<1>5. obj \in 1..MaxCalls /\ obj <= calls + 1 /\ (held[n] # 0 => obj <= made[n])
    BY <1>1, <1>2, <1>3, <1>4
<1>6. held' \in [Names -> 0..MaxCalls] /\ made' \in [Names -> 0..MaxCalls]
    BY <1>3, <1>4, <1>5
<1>7. held'[n] = obj /\ \A m \in Names : m # n => held'[m] = held[m] /\ made'[m] = made[m]
    BY <1>3, <1>4
<1>8. made'[n] = IF held[n] = 0 THEN obj ELSE made[n]
    BY <1>3, <1>4
<1>9. MadeOK'
  <2>1. SUFFICES ASSUME NEW m \in Names
                 PROVE  held'[m] <= made'[m] /\ made'[m] <= calls'
    BY DEF MadeOK
  <2>2. CASE m = n
    BY <1>1, <1>2, <1>4, <1>5, <1>7, <1>8, <2>2
  <2>3. CASE m # n
    <3>1. held[m] \in 0..MaxCalls /\ made[m] \in 0..MaxCalls /\ held[m] <= made[m] /\ made[m] <= calls
        BY <1>4 DEF MadeOK
    <3> QED
        BY <1>1, <1>2, <1>7, <2>3, <3>1
  <2> QED
    BY <2>2, <2>3
<1>10. \/ sid = None /\ auths' = auths /\ up' = up
       \/ /\ sid # None /\ auths' = auths \union Asking({n}, sid, held')
          /\ up' = [up EXCEPT ![sock] = Sent(sock, Subscriptions({n}))]
    BY DEF Subscribe
<1> QED
    BY <1>1, <1>2, <1>5, <1>6, <1>7, <1>9, <1>10

LEMMA MadeStep ==
    ASSUME IInv, [Next]_vars
    PROVE  MadeOK'
<1> USE DEF IInv
<1>0. calls \in Nat /\ \A n \in Names : held[n] \in Nat /\ made[n] \in Nat
    BY BoundTyped DEF TypeOK
<1>1. ASSUME NEW n \in Names, Subscribe(n)
      PROVE  MadeOK'
    BY <1>1, SubscribeEffect
<1>2. ASSUME NEW n \in Names, Unsubscribe(n)
      PROVE  MadeOK'
    BY <1>0, <1>2 DEF Unsubscribe, Called, MadeOK, TypeOK
<1>3. ASSUME held' = held, made' = made, calls' = calls \/ calls' = calls + 1
      PROVE  MadeOK'
    BY <1>0, <1>3 DEF MadeOK
<1>4. ASSUME Connect \/ Disconnect \/ RetryFires \/ ActivityFires \/ PongFires \/ WindowPasses
      PROVE  held' = held /\ made' = made /\ (calls' = calls \/ calls' = calls + 1)
    BY <1>4 DEF Connect, Disconnect, Called, RetryFires, ActivityFires, PongFires, WindowPasses,
                page, bounds
<1>5. ASSUME NEW a \in auths, AuthAnswers(a) \/ AuthFails(a)
      PROVE  held' = held /\ made' = made /\ calls' = calls
    BY <1>5 DEF AuthAnswers, AuthFails, page, bounds
<1>6. ASSUME NEW s \in Sockets, Receive(s) \/ Closed(s) \/ Serve(s)
      PROVE  held' = held /\ made' = made /\ calls' = calls
    BY <1>6 DEF Receive, Closed, Serve, page, bounds
<1>7. ASSUME NEW s \in Sockets, Accept(s) \/ Refuse(s)
      PROVE  held' = held /\ made' = made /\ calls' = calls
    BY <1>7 DEF Accept, Refuse, Fault, page, bounds
<1>8. ASSUME NEW s \in Sockets, ServerCloses(s) \/ Drop(s) \/ Silence(s) \/ CloseCompletes(s)
      PROVE  held' = held /\ made' = made /\ calls' = calls
    BY <1>8, GoneCases
<1>9. CASE UNCHANGED vars
    BY <1>3, <1>9 DEF vars, page, bounds
<1> HIDE DEF IInv
<1>10. TypeOK
    BY DEF IInv
<1> QED
    BY <1>1, <1>2, <1>3, <1>4, <1>5, <1>6, <1>7, <1>8, <1>9, <1>10, StepCases

\* The links of every socket are typed when only one of each queue changes.
LEMMA TypeStep ==
    ASSUME IInv, [Next]_vars
    PROVE  TypeOK'
<1> USE DEF IInv
<1>0. /\ calls \in Nat /\ faults \in Nat /\ bound.calls \in Nat /\ bound.faults \in Nat
      /\ down \in [Sockets -> Seq(Frames)] /\ up \in [Sockets -> Seq(Requests)]
      /\ \A s \in Sockets : down[s] \in Seq(Frames) /\ up[s] \in Seq(Requests)
      /\ None \notin Sockets
    BY BoundTyped DEF TypeOK
<1>1. ASSUME Connect
      PROVE  TypeOK'
  <2>1. UNCHANGED <<sock, status, state>> \/ Open
    BY <1>1 DEF Connect
  <2>2. /\ sock' \in Sockets \union {None} /\ state' \in States
        /\ status' \in [Sockets -> {"none", "connecting", "open", "closing", "closed"}]
    BY <2>1, OpenTyped DEF TypeOK
  <2>3. /\ wanted' = TRUE /\ calls < bound.calls /\ calls' = calls + 1
        /\ UNCHANGED <<held, made, confirmed, sid, retry, activity, pong, recent, auths, silent, down,
                       conn, up, seats, denied, turned, faults, bound>>
    BY <1>1 DEF Connect, Called, timers, history
  <2>4. calls' \in 0..bound'.calls
    BY ONLY <1>0, <2>3
  <2>5. TypeOK
    OBVIOUS
  <2> QED
    BY ONLY <2>2, <2>3, <2>4, <2>5 DEF TypeOK
<1>2. ASSUME Disconnect
      PROVE  TypeOK'
  <2>1. /\ state' \in States
        /\ status' \in [Sockets -> {"none", "connecting", "open", "closing", "closed"}]
    BY <1>2 DEF Disconnect, TypeOK, States
  <2>2. auths' \subseteq Auths
    BY <1>2 DEF Disconnect, Cancelled, TypeOK
  <2>3. /\ calls < bound.calls /\ calls' = calls + 1 /\ wanted' = FALSE /\ retry' = RetryCleared
        /\ UNCHANGED <<held, made, confirmed, sock, sid, activity, pong, recent, silent, down, conn, up,
                       seats, denied, turned, faults, bound>>
    BY <1>2 DEF Disconnect, Called, history
  <2>4. calls' \in 0..bound'.calls
    BY <1>0, <2>3
  <2>5. retry' \in [handle : BOOLEAN, due : Nat] /\ (retry'.handle => retry'.due > 0)
    BY <2>3, RetryTyped
  <2> QED
    BY <2>1, <2>2, <2>3, <2>4, <2>5 DEF TypeOK
<1>3. ASSUME RetryFires
      PROVE  TypeOK'
  <2>1. UNCHANGED <<sock, status, state>> \/ Open
    BY <1>3 DEF RetryFires
  <2>2. /\ sock' \in Sockets \union {None} /\ state' \in States
        /\ status' \in [Sockets -> {"none", "connecting", "open", "closing", "closed"}]
    BY <2>1, OpenTyped DEF TypeOK
  <2>3. retry' \in [handle : BOOLEAN, due : Nat] /\ (retry'.handle => retry'.due > 0)
    BY <1>3, RetryTyped DEF RetryFires
  <2> QED
    BY <1>3, <2>2, <2>3 DEF RetryFires, page, history, bounds, TypeOK
<1>4. ASSUME ActivityFires
      PROVE  TypeOK'
  <2>1. up' \in [Sockets -> Seq(Requests)] /\ pong' \in BOOLEAN
    <3>1. CASE sock # None /\ status[sock] = "open"
      <4>1. sock \in Sockets
        BY <3>1 DEF TypeOK
      <4>2. <<Request("ping", None, None)>> \in Seq(Requests)
        BY RequestsTyped
      <4>3. Sent(sock, <<Request("ping", None, None)>>) \in Seq(Requests)
        BY <4>1, <4>2, Sends
      <4>4. pong' = TRUE /\ up' = [up EXCEPT ![sock] = Sent(sock, <<Request("ping", None, None)>>)]
        BY <1>4, <3>1 DEF ActivityFires
      <4> QED
        BY <1>0, <4>1, <4>3, <4>4, OneQueue
    <3>2. CASE ~(sock # None /\ status[sock] = "open")
        BY <1>0, <1>4, <3>2 DEF ActivityFires, TypeOK
    <3> QED
        BY <3>1, <3>2
  <2>2. /\ activity' = FALSE
        /\ UNCHANGED <<wanted, held, made, confirmed, state, sock, sid, retry, recent, auths, status,
                       silent, down, conn, seats, denied, turned, calls, faults, bound>>
    BY <1>4 DEF ActivityFires, page, history, bounds
  <2> QED
    BY <2>1, <2>2 DEF TypeOK
<1>5. ASSUME PongFires
      PROVE  TypeOK'
  <2>1. /\ status' \in [Sockets -> {"none", "connecting", "open", "closing", "closed"}]
        /\ faults' \in 0..bound.faults
    BY <1>0, <1>5 DEF PongFires, TypeOK
  <2> QED
    BY <1>5, <2>1 DEF PongFires, page, history, TypeOK
<1>6. ASSUME WindowPasses
      PROVE  TypeOK'
    BY <1>6 DEF WindowPasses, page, timers, link, history, bounds, TypeOK
<1>7. ASSUME NEW n \in Names, Subscribe(n)
      PROVE  TypeOK'
  <2>1. /\ calls < bound.calls /\ calls' = calls + 1
        /\ held' \in [Names -> 0..MaxCalls] /\ made' \in [Names -> 0..MaxCalls]
        /\ UNCHANGED <<wanted, confirmed, state, sock, sid, retry, activity, pong, recent, status,
                       silent, down, conn, seats, denied, turned, faults, bound>>
    BY <1>7, SubscribeEffect
  <2>2. auths' \subseteq Auths /\ up' \in [Sockets -> Seq(Requests)]
    <3>1. CASE auths' = auths /\ up' = up
        BY <3>1 DEF TypeOK
    <3>2. CASE /\ sid # None /\ auths' = auths \union Asking({n}, sid, held')
               /\ up' = [up EXCEPT ![sock] = Sent(sock, Subscriptions({n}))]
      <4>1. sock \in Sockets
        BY <3>2 DEF AloneOK, TypeOK
      <4>2. Sent(sock, Subscriptions({n})) \in Seq(Requests)
        BY <4>1, SubscriptionsOf, Sends
      <4>3. auths' \subseteq Auths
        BY <3>2, AskingTyped DEF TypeOK
      <4> QED
        BY <1>0, <3>2, <4>1, <4>2, <4>3, OneQueue
    <3> QED
        BY <1>7, <3>1, <3>2, SubscribeEffect
  <2>3. calls' \in 0..bound'.calls
    BY ONLY <1>0, <2>1
  <2>4. TypeOK
    OBVIOUS
  <2> QED
    BY ONLY <2>1, <2>2, <2>3, <2>4 DEF TypeOK
<1>8. ASSUME NEW n \in Names, Unsubscribe(n)
      PROVE  TypeOK'
  <2>1. up' \in [Sockets -> Seq(Requests)]
    <3>1. CASE sid = None
        BY <1>0, <1>8, <3>1 DEF Unsubscribe
    <3>2. CASE sid # None
      <4>1. sock \in Sockets
        BY <3>2 DEF AloneOK, TypeOK
      <4>2. <<Request("unsubscribe", n, None)>> \in Seq(Requests)
        BY RequestsTyped
      <4>3. Sent(sock, <<Request("unsubscribe", n, None)>>) \in Seq(Requests)
        BY <4>1, <4>2, Sends
      <4> QED
        BY <1>0, <1>8, <3>2, <4>1, <4>3, OneQueue DEF Unsubscribe
    <3> QED
        BY <3>1, <3>2
  <2>2. held' \in [Names -> 0..MaxCalls] /\ confirmed' \in [Names -> Sockets \union {None}]
    BY <1>8, BoundTyped DEF Unsubscribe, TypeOK
  <2>3. /\ calls < bound.calls /\ calls' = calls + 1
        /\ UNCHANGED <<wanted, made, state, sock, sid, retry, activity, pong, recent, auths, status, silent,
                       down, conn, seats, denied, turned, faults, bound>>
    BY <1>8 DEF Unsubscribe, Called, timers, history
  <2>4. calls' \in 0..bound'.calls
    BY ONLY <1>0, <2>3
  <2>5. TypeOK
    OBVIOUS
  <2> QED
    BY ONLY <2>1, <2>2, <2>3, <2>4, <2>5 DEF TypeOK
<1>9. ASSUME NEW a \in auths, AuthAnswers(a)
      PROVE  TypeOK'
  <2>1. up' \in [Sockets -> Seq(Requests)]
    <3>1. CASE ~Current(a)
        BY <1>0, <1>9, <3>1 DEF AuthAnswers
    <3>2. CASE Current(a)
      <4>1. a.socket \in Sockets /\ a.name \in Names
        BY DEF TypeOK, Auths
      <4>2. sock \in Sockets
        BY <1>0, <3>2, <4>1 DEF Current, AloneOK, TypeOK
      <4>3. <<Request("subscribe", a.name, a.socket)>> \in Seq(Requests)
        BY <4>1, RequestsTyped
      <4>4. Sent(sock, <<Request("subscribe", a.name, a.socket)>>) \in Seq(Requests)
        BY <4>2, <4>3, Sends
      <4> QED
        BY <1>0, <1>9, <3>2, <4>2, <4>4, OneQueue DEF AuthAnswers
    <3> QED
        BY <3>1, <3>2
  <2> QED
    BY <1>9, <2>1 DEF AuthAnswers, page, timers, history, bounds, TypeOK
<1>10. ASSUME NEW a \in auths, AuthFails(a)
      PROVE  TypeOK'
  <2>1. a.socket \in Sockets /\ a.name \in Names
    BY DEF TypeOK, Auths
  <2>2. denied' \in [Sockets -> SUBSET Names]
    BY <1>10, <2>1 DEF AuthFails, TypeOK
  <2> QED
    BY <1>10, <2>2 DEF AuthFails, page, timers, link, bounds, TypeOK
<1>11. ASSUME NEW s \in Sockets, Receive(s)
      PROVE  TypeOK'
  <2>1. /\ down' = [down EXCEPT ![s] = Tail(down[s])] /\ Tail(down[s]) \in Seq(Frames)
        /\ UNCHANGED <<wanted, held, made, sock, retry, status, silent, conn, seats, denied,
                       turned, calls, faults, bound>>
    BY <1>11, ReceiveCases, TakenOff
  <2>2. down' \in [Sockets -> Seq(Frames)]
    BY <1>0, <2>1, OneQueue
  <2>3. /\ activity' \in BOOLEAN /\ pong' \in BOOLEAN /\ recent' \in BOOLEAN /\ state' \in States
        /\ sid' \in Sockets \union {None} /\ confirmed' \in [Names -> Sockets \union {None}]
        /\ auths' \subseteq Auths /\ up' \in [Sockets -> Seq(Requests)]
    <3>1. CASE UNCHANGED <<state, sid, activity, pong, recent, confirmed, auths, up>>
        BY <3>1 DEF TypeOK
    <3>2. CASE activity' = TRUE /\ pong' = FALSE /\ Established(s)
      <4>1. Held \subseteq Names
        BY DEF Held
      <4>2. Sent(s, Subscriptions(Held)) \in Seq(Requests)
        BY <4>1, SubscriptionsOf, Sends
      <4>3. up' \in [Sockets -> Seq(Requests)]
        BY <1>0, <3>2, <4>2, OneQueue DEF Established
      <4>4. auths' \subseteq Auths
        BY <3>2, AskingTyped DEF Established, TypeOK
      <4> QED
        BY <3>2, <4>3, <4>4 DEF Established, States
    <3>3. CASE /\ activity' = TRUE /\ pong' = FALSE /\ recent' \in {TRUE, recent}
               /\ UNCHANGED <<state, sid, confirmed, auths, up>>
        BY <3>3 DEF TypeOK
    <3>4. CASE /\ Head(down[s]).kind = "confirm" /\ Head(down[s]).name \in Names
               /\ activity' = TRUE /\ pong' = FALSE
               /\ confirmed' = IF held[Head(down[s]).name] = 0 THEN confirmed
                               ELSE [confirmed EXCEPT ![Head(down[s]).name] = s]
               /\ UNCHANGED <<state, sid, recent, auths, up>>
        BY <3>4 DEF TypeOK
    <3> QED
        BY <1>11, <3>1, <3>2, <3>3, <3>4, ReceiveCases
  <2> QED
    BY <2>1, <2>2, <2>3 DEF TypeOK
<1>12. ASSUME NEW s \in Sockets, Closed(s)
      PROVE  TypeOK'
  <2>1. /\ down' = [down EXCEPT ![s] = Tail(down[s])] /\ Tail(down[s]) \in Seq(Frames)
        /\ UNCHANGED <<held, made, recent, silent, conn, up, seats, denied, turned, calls, faults, bound>>
    BY <1>12, ClosedCases, TakenOff
  <2>2. down' \in [Sockets -> Seq(Frames)]
    BY <1>0, <2>1, OneQueue
  <2>3. /\ wanted' \in BOOLEAN /\ activity' \in BOOLEAN /\ pong' \in BOOLEAN
        /\ state' \in States /\ sock' \in Sockets \union {None} /\ sid' \in Sockets \union {None}
        /\ confirmed' \in [Names -> Sockets \union {None}] /\ auths' \subseteq Auths
        /\ status' \in [Sockets -> {"none", "connecting", "open", "closing", "closed"}]
    <3>1. CASE /\ status' = [status EXCEPT ![s] = "closed"]
               /\ UNCHANGED <<wanted, confirmed, state, sock, sid, retry, activity, pong, auths>>
        BY <3>1 DEF TypeOK
    <3>2. CASE /\ status' = [status EXCEPT ![s] = "closed"] /\ sock' = None
               /\ sid' = None /\ confirmed' = [n \in Names |-> None] /\ auths' \in {{}, auths}
               /\ activity' = FALSE /\ pong' = FALSE /\ wanted' \in {wanted, TRUE}
               /\ state' \in States
        BY <3>2 DEF TypeOK
    <3>3. CASE /\ sock' \in Sockets
               /\ \E t \in Sockets :
                      status' = [status EXCEPT ![s] = "closed", ![t] = "connecting", ![sock'] = "connecting"]
               /\ sid' = None /\ confirmed' = [n \in Names |-> None] /\ auths' \in {{}, auths}
               /\ activity' = FALSE /\ pong' = FALSE /\ wanted' \in {wanted, TRUE}
               /\ state' \in States
        BY <3>3 DEF TypeOK
    <3> QED
        BY <1>12, <3>1, <3>2, <3>3, ClosedCases
  <2>4. retry' \in [handle : BOOLEAN, due : Nat] /\ (retry'.handle => retry'.due > 0)
    <3>1. retry' \in {retry, RetrySet}
        BY <1>12, ClosedCases
    <3> QED
        BY <3>1, RetryTyped DEF TypeOK
  <2> QED
    BY <2>1, <2>2, <2>3, <2>4 DEF TypeOK
<1>13. ASSUME NEW s \in Sockets, Serve(s)
      PROVE  TypeOK'
  <2>1. /\ up' = [up EXCEPT ![s] = Tail(up[s])] /\ Tail(up[s]) \in Seq(Requests)
        /\ UNCHANGED <<wanted, held, made, confirmed, state, sock, sid, retry, activity, pong, recent,
                       auths, status, silent, conn, turned, calls, faults, bound>>
    BY <1>13, ServeCases, TakenOff
  <2>2. up' \in [Sockets -> Seq(Requests)]
    BY <1>0, <2>1, OneQueue
  <2>3. seats' \in [Sockets -> SUBSET Names] /\ denied' \in [Sockets -> SUBSET Names]
    <3>1. \A n \in Names : /\ [seats EXCEPT ![s] = @ \union {n}] \in [Sockets -> SUBSET Names]
                           /\ [seats EXCEPT ![s] = @ \ {n}] \in [Sockets -> SUBSET Names]
                           /\ [denied EXCEPT ![s] = @ \union {n}] \in [Sockets -> SUBSET Names]
        BY DEF TypeOK
    <3>2. /\ seats' = seats \/ \E n \in Names : \/ seats' = [seats EXCEPT ![s] = @ \union {n}]
                                                \/ seats' = [seats EXCEPT ![s] = @ \ {n}]
          /\ denied' = denied \/ \E n \in Names : denied' = [denied EXCEPT ![s] = @ \union {n}]
        BY <1>13, ServeCases
    <3>3. seats \in [Sockets -> SUBSET Names] /\ denied \in [Sockets -> SUBSET Names]
        BY DEF TypeOK
    <3>4. seats' \in [Sockets -> SUBSET Names]
        BY <3>1, <3>2, <3>3
    <3>5. denied' \in [Sockets -> SUBSET Names]
        BY <3>1, <3>2, <3>3
    <3> QED
        BY <3>4, <3>5
  <2>4. \A x \in Frames : down[s] \o <<x>> \in Seq(Frames)
    BY <1>0
  <2>5. /\ Frame("denied", None) \in Frames /\ Frame("pong", None) \in Frames
        /\ \A n \in Names : Frame("confirm", n) \in Frames
    BY RequestsTyped
  <2>6. down' = down \/ \E x \in Frames : down' = [down EXCEPT ![s] = down[s] \o <<x>>]
    BY <1>13, <2>5, ServeCases
  <2>7. down' \in [Sockets -> Seq(Frames)]
    <3>1. CASE down' = down
        BY <1>0, <3>1
    <3>2. CASE \E x \in Frames : down' = [down EXCEPT ![s] = down[s] \o <<x>>]
      <4>1. PICK x \in Frames : down' = [down EXCEPT ![s] = down[s] \o <<x>>]
        BY <3>2
      <4>2. PICK q \in Seq(Frames) : q = down[s] \o <<x>>
        BY <2>4
      <4> QED
        BY <1>0, <4>1, <4>2, OneQueue
    <3> QED
        BY <2>6, <3>1, <3>2
  <2> QED
    BY <2>1, <2>2, <2>3, <2>7 DEF TypeOK
<1>14. ASSUME NEW s \in Sockets, Accept(s) \/ Refuse(s)
      PROVE  TypeOK'
  <2>1. <<Frame("established", None)>> \in Seq(Frames)
        /\ <<Frame("refused", None), Frame("close", None)>> \in Seq(Frames)
    BY RequestsTyped
  <2>2. \E q \in Seq(Frames) : down' = [down EXCEPT ![s] = q]
    BY <1>14, <2>1 DEF Accept, Refuse
  <2>3. down' \in [Sockets -> Seq(Frames)]
    BY <1>0, <2>2, OneQueue
  <2>4. /\ status' \in [Sockets -> {"none", "connecting", "open", "closing", "closed"}]
        /\ conn' \in [Sockets -> {"none", "open", "gone"}]
    BY <1>14 DEF Accept, Refuse, TypeOK
  <2>5. turned' \subseteq Sockets /\ faults' \in 0..bound.faults /\ UNCHANGED <<calls, bound, denied>>
    BY <1>0, <1>14 DEF Accept, Refuse, Fault, history, bounds, TypeOK
  <2>6. UNCHANGED <<wanted, held, made, confirmed, state, sock, sid, retry, activity, pong, recent,
                    auths, silent, up, seats>>
    BY <1>14 DEF Accept, Refuse, page, timers
  <2> QED
    BY <2>3, <2>4, <2>5, <2>6 DEF TypeOK
<1>15. ASSUME NEW s \in Sockets, ServerCloses(s) \/ Drop(s) \/ Silence(s) \/ CloseCompletes(s)
      PROVE  TypeOK'
  <2>1. \A k \in 0..Len(down[s]), last \in {"close", "fatal"} :
            SubSeq(down[s], 1, k) \o <<Frame(last, None)>> \in Seq(Frames)
    BY <1>0, RequestsTyped
  <2>2. \E q \in Seq(Frames) : down' = [down EXCEPT ![s] = q]
    <3>1. CASE down' = [down EXCEPT ![s] = <<>>]
      <4>1. <<>> \in Seq(Frames)
        OBVIOUS
      <4> QED
        BY <3>1, <4>1
    <3>2. CASE \E k \in 0..Len(down[s]), last \in {"close", "fatal"} :
                   down' = [down EXCEPT ![s] = SubSeq(down[s], 1, k) \o <<Frame(last, None)>>]
        BY <2>1, <3>2
    <3> QED
        BY <1>15, <3>1, <3>2, GoneCases
  <2>3. down' \in [Sockets -> Seq(Frames)]
    BY <1>0, <2>2, OneQueue
  <2>4. up' \in [Sockets -> Seq(Requests)]
    <3>1. <<>> \in Seq(Requests) /\ up' = [up EXCEPT ![s] = <<>>]
        BY <1>15, GoneCases
    <3> QED
        BY <1>0, <3>1, OneQueue
  <2>5. conn' \in [Sockets -> {"none", "open", "gone"}] /\ seats' \in [Sockets -> SUBSET Names]
    BY <1>15, GoneCases DEF TypeOK
  <2>6. faults' \in 0..bound.faults /\ turned' \subseteq Sockets
    <3>1. /\ turned' \in {turned, turned \union {s}}
          /\ faults' = faults \/ (faults < bound.faults /\ faults' = faults + 1)
        BY <1>15, GoneCases
    <3>2. faults \in 0..bound.faults /\ turned \subseteq Sockets
        BY DEF TypeOK
    <3> QED
        BY <1>0, <3>1, <3>2
  <2>7. /\ silent' \in [Sockets -> {"no", "early", "late"}]
        /\ UNCHANGED <<wanted, held, made, confirmed, state, sock, sid, retry, activity, pong, recent,
                       auths, status, denied, calls, bound>>
    BY <1>15, GoneCases
  <2> QED
    BY <2>3, <2>4, <2>5, <2>6, <2>7 DEF TypeOK
<1>16. CASE UNCHANGED vars
    BY <1>16 DEF vars, page, timers, link, history, bounds, TypeOK
<1> HIDE DEF IInv
<1>17. TypeOK
    BY DEF IInv
<1> QED
    BY <1>1, <1>2, <1>3, <1>4, <1>5, <1>6, <1>7, <1>8, <1>9, <1>10, <1>11, <1>12, <1>13, <1>14, <1>15,
       <1>16, <1>17, StepCases

-----------------------------------------------------------------------------
(* Groups of actions that change the same things                           *)

\* connect and the timer of _retry: nothing, or a new socket.
LEMMA Opening ==
    ASSUME TypeOK, Connect \/ RetryFires
    PROVE  /\ UNCHANGED <<held, confirmed, sid, auths, silent, down, conn, up, seats, denied, bound>>
           /\ \/ UNCHANGED <<sock, status>> /\ (retry' = retry \/ (retry.due > 0 /\ retry' = RetryFired))
              \/ /\ \/ sock = None /\ ~retry.handle /\ retry' = retry
                    \/ retry.due > 0 /\ retry' = RetryFired
                 /\ sock' \in Sockets /\ status[sock'] = "none"
                 /\ \E t \in Sockets : /\ status[t] = "none" /\ (~bound.reentrant => t = sock')
                                       /\ status' = [status EXCEPT ![t] = "connecting", ![sock'] = "connecting"]
<1>1. CASE Connect
  <2>1. /\ UNCHANGED <<held, confirmed, sid, auths, silent, down, conn, up, seats, denied, bound>>
        /\ retry' = retry
    BY <1>1 DEF Connect, Called, timers, history
  <2>2. CASE sock # None \/ retry.handle
    BY <1>1, <2>1, <2>2 DEF Connect
  <2>3. CASE ~(sock # None \/ retry.handle)
    <3>1. Open
        BY <1>1, <2>3 DEF Connect
    <3> QED
        BY <2>1, <2>3, <3>1, OpenTyped
  <2> QED
    BY <2>2, <2>3
<1>2. CASE RetryFires
  <2>1. /\ UNCHANGED <<held, confirmed, sid, auths, silent, down, conn, up, seats, denied, bound>>
        /\ retry.due > 0 /\ retry' = RetryFired
    BY <1>2 DEF RetryFires, page, history, bounds
  <2>2. UNCHANGED <<sock, status, state>> \/ Open
    BY <1>2 DEF RetryFires
  <2> QED
    BY <2>1, <2>2, OpenTyped
<1> QED
    BY <1>1, <1>2

\* disconnect and the timer of _ping: the socket there is starts to close.
LEMMA Closing ==
    ASSUME TypeOK, Disconnect \/ PongFires
    PROVE  /\ UNCHANGED <<held, confirmed, sock, sid, silent, down, conn, up, seats, denied, bound>>
           /\ retry' \in {retry, RetryCleared} /\ auths' \in {{}, auths}
           /\ \/ sock = None /\ status' = status
              \/ sock \in Sockets /\ status' = [status EXCEPT ![sock] = "closing"]
<1>1. CASE Disconnect
  <2>1. /\ UNCHANGED <<held, confirmed, sock, sid, silent, down, conn, up, seats, denied, bound>>
        /\ retry' = RetryCleared /\ auths' \in {{}, auths}
    BY <1>1 DEF Disconnect, Called, Cancelled, history
  <2>2. \/ sock = None /\ status' = status
        \/ sock \in Sockets /\ status' = [status EXCEPT ![sock] = "closing"]
    BY <1>1 DEF Disconnect, TypeOK
  <2> QED
    BY <2>1, <2>2
<1>2. CASE PongFires
  <2>1. /\ UNCHANGED <<held, confirmed, sock, sid, silent, down, conn, up, seats, denied, bound>>
        /\ retry' = retry /\ auths' = auths
    BY <1>2 DEF PongFires, page, history
  <2>2. \/ sock = None /\ status' = status
        \/ sock \in Sockets /\ status' = [status EXCEPT ![sock] = "closing"]
    BY <1>2 DEF PongFires, TypeOK
  <2> QED
    BY <2>1, <2>2
<1> QED
    BY <1>1, <1>2

\* What is written goes to the socket of the moment, if it is open.
LEMMA WrittenTo ==
    ASSUME TypeOK, sock \in Sockets, NEW r \in Seq(Requests), up' = [up EXCEPT ![sock] = Sent(sock, r)]
    PROVE  \A s \in Sockets : up'[s] = up[s] \/ (s = sock /\ status[s] = "open" /\ conn[s] = "open")
<1>1. up \in [Sockets -> Seq(Requests)]
    BY DEF TypeOK
<1>2. up'[sock] = Sent(sock, r) /\ \A s \in Sockets : s # sock => up'[s] = up[s]
    BY <1>1
<1> QED
    BY <1>2, Sends

\* The calls and answers that may write a request.
LEMMA Writing ==
    ASSUME TypeOK, MadeOK, AloneOK,
           \/ \E n \in Names : Subscribe(n) \/ Unsubscribe(n)
           \/ \E a \in auths : AuthAnswers(a)
           \/ ActivityFires
    PROVE  /\ UNCHANGED <<sock, sid, retry, status, silent, down, conn, seats, denied, bound>>
           /\ \A s \in Sockets : up'[s] = up[s] \/ (s = sock /\ status[s] = "open" /\ conn[s] = "open")
<1>0. None \notin Sockets /\ (sid # None => sock \in Sockets)
    BY BoundTyped DEF TypeOK, AloneOK
<1>1. ASSUME NEW n \in Names, Subscribe(n)
      PROVE  /\ UNCHANGED <<sock, sid, retry, status, silent, down, conn, seats, denied, bound>>
             /\ \A s \in Sockets : up'[s] = up[s] \/ (s = sock /\ status[s] = "open" /\ conn[s] = "open")
  <2>1. UNCHANGED <<sock, sid, retry, status, silent, down, conn, seats, denied, bound>>
    BY <1>1, SubscribeEffect
  <2>2. CASE up' = up
    BY <2>1, <2>2
  <2>3. CASE sid # None /\ up' = [up EXCEPT ![sock] = Sent(sock, Subscriptions({n}))]
    <3>1. Subscriptions({n}) \in Seq(Requests)
        BY SubscriptionsOf
    <3>2. sock \in Sockets
        BY <1>0, <2>3
    <3>3. \A s \in Sockets : up'[s] = up[s] \/ (s = sock /\ status[s] = "open" /\ conn[s] = "open")
        BY <2>3, <3>1, <3>2, WrittenTo
    <3> QED
        BY <2>1, <3>3
  <2> QED
    BY <1>1, <2>2, <2>3, SubscribeEffect
<1>2. ASSUME NEW n \in Names, Unsubscribe(n)
      PROVE  /\ UNCHANGED <<sock, sid, retry, status, silent, down, conn, seats, denied, bound>>
             /\ \A s \in Sockets : up'[s] = up[s] \/ (s = sock /\ status[s] = "open" /\ conn[s] = "open")
  <2>1. UNCHANGED <<sock, sid, retry, status, silent, down, conn, seats, denied, bound>>
    BY <1>2 DEF Unsubscribe, Called, timers, history
  <2>2. CASE sid = None
    BY <1>2, <2>1, <2>2 DEF Unsubscribe
  <2>3. CASE sid # None
    <3>1. up' = [up EXCEPT ![sock] = Sent(sock, <<Request("unsubscribe", n, None)>>)]
        BY <1>2, <2>3 DEF Unsubscribe
    <3>2. <<Request("unsubscribe", n, None)>> \in Seq(Requests)
        BY RequestsTyped
    <3> QED
        BY <1>0, <2>1, <2>3, <3>1, <3>2, WrittenTo
  <2> QED
    BY <2>2, <2>3
<1>3. ASSUME NEW a \in auths, AuthAnswers(a)
      PROVE  /\ UNCHANGED <<sock, sid, retry, status, silent, down, conn, seats, denied, bound>>
             /\ \A s \in Sockets : up'[s] = up[s] \/ (s = sock /\ status[s] = "open" /\ conn[s] = "open")
  <2>1. UNCHANGED <<sock, sid, retry, status, silent, down, conn, seats, denied, bound>>
    BY <1>3 DEF AuthAnswers, timers, history, bounds
  <2>2. CASE ~Current(a)
    BY <1>3, <2>1, <2>2 DEF AuthAnswers
  <2>3. CASE Current(a)
    <3>1. up' = [up EXCEPT ![sock] = Sent(sock, <<Request("subscribe", a.name, a.socket)>>)]
        BY <1>3, <2>3 DEF AuthAnswers
    <3>2. a.socket \in Sockets /\ a.name \in Names
        BY DEF TypeOK, Auths
    <3>3. <<Request("subscribe", a.name, a.socket)>> \in Seq(Requests)
        BY <3>2, RequestsTyped
    <3>4. sock \in Sockets
        BY <1>0, <2>3, <3>2 DEF Current
    <3> QED
        BY <2>1, <3>1, <3>3, <3>4, WrittenTo
  <2> QED
    BY <2>2, <2>3
<1>4. ASSUME ActivityFires
      PROVE  /\ UNCHANGED <<sock, sid, retry, status, silent, down, conn, seats, denied, bound>>
             /\ \A s \in Sockets : up'[s] = up[s] \/ (s = sock /\ status[s] = "open" /\ conn[s] = "open")
  <2>1. UNCHANGED <<sock, sid, retry, status, silent, down, conn, seats, denied, bound>>
    BY <1>4 DEF ActivityFires, history, bounds
  <2>2. CASE ~(sock # None /\ status[sock] = "open")
    BY <1>4, <2>1, <2>2 DEF ActivityFires
  <2>3. CASE sock # None /\ status[sock] = "open"
    <3>1. up' = [up EXCEPT ![sock] = Sent(sock, <<Request("ping", None, None)>>)]
        BY <1>4, <2>3 DEF ActivityFires
    <3>2. <<Request("ping", None, None)>> \in Seq(Requests) /\ sock \in Sockets
        BY <2>3, RequestsTyped DEF TypeOK
    <3> QED
        BY <2>1, <3>1, <3>2, WrittenTo
  <2> QED
    BY <2>2, <2>3
<1> QED
    BY <1>1, <1>2, <1>3, <1>4

\* The server takes or refuses a socket.
LEMMA Answering ==
    ASSUME TypeOK, NEW s \in Sockets, Accept(s) \/ Refuse(s)
    PROVE  /\ UNCHANGED <<held, confirmed, sock, sid, retry, auths, silent, up, seats, denied, bound>>
           /\ status[s] = "connecting" /\ status' = [status EXCEPT ![s] = "open"]
           /\ \/ conn' = [conn EXCEPT ![s] = "open"] /\ down' = [down EXCEPT ![s] = <<Frame("established", None)>>]
              \/ /\ conn' = [conn EXCEPT ![s] = "gone"]
                 /\ down' = [down EXCEPT ![s] = <<Frame("refused", None), Frame("close", None)>>]
<1>1. CASE Accept(s)
    BY <1>1 DEF Accept, page, timers, history, bounds
<1>2. CASE Refuse(s)
    BY <1>2 DEF Refuse, Fault, page, timers, history, bounds
<1> QED
    BY <1>1, <1>2

\* What a failed authorization and the passing of FATAL_WINDOW leave alone.
LEMMA Telling ==
    ASSUME TypeOK, (\E a \in auths : AuthFails(a)) \/ WindowPasses \/ UNCHANGED vars
    PROVE  UNCHANGED <<held, confirmed, sock, sid, retry, status, silent, down, conn, up, seats, bound>>
<1>1. ASSUME NEW a \in auths, AuthFails(a)
      PROVE  UNCHANGED <<held, confirmed, sock, sid, retry, status, silent, down, conn, up, seats, bound>>
    BY <1>1 DEF AuthFails, page, timers, link, bounds
<1>2. CASE WindowPasses
    BY <1>2 DEF WindowPasses, page, timers, link, bounds
<1>3. CASE UNCHANGED vars
    BY <1>3 DEF vars, page, timers, link, bounds
<1> QED
    BY <1>1, <1>2, <1>3

-----------------------------------------------------------------------------
(* One socket                                                              *)

LEMMA AloneStep ==
    ASSUME IInv, [Next]_vars
    PROVE  AloneOK'
<1> USE DEF IInv
<1>0. /\ None \notin Sockets /\ status \in [Sockets -> {"none", "connecting", "open", "closing", "closed"}]
      /\ sock \in Sockets \union {None} /\ sid \in Sockets \union {None} /\ retry.due \in Nat
    BY BoundTyped, RetryTyped DEF TypeOK
<1>1. ASSUME Connect \/ RetryFires
      PROVE  AloneOK'
  <2>1. sid' = sid /\ bound' = bound
    BY <1>1, Opening
  <2>2. /\ RetryFired.due = retry.due - 1
        /\ retry.due > 0 /\ retry' = RetryFired => retry'.due = retry.due - 1
    BY RetryTyped
  <2>3. CASE UNCHANGED <<sock, status>> /\ (retry' = retry \/ (retry.due > 0 /\ retry' = RetryFired))
    BY <1>0, <2>1, <2>2, <2>3 DEF AloneOK, Alone
  <2>4. CASE /\ \/ sock = None /\ ~retry.handle /\ retry' = retry
                \/ retry.due > 0 /\ retry' = RetryFired
             /\ sock' \in Sockets /\ status[sock'] = "none"
             /\ \E t \in Sockets : /\ status[t] = "none" /\ (~bound.reentrant => t = sock')
                                   /\ status' = [status EXCEPT ![t] = "connecting", ![sock'] = "connecting"]
    <3>1. PICK t \in Sockets : /\ ~bound.reentrant => t = sock'
                               /\ status' = [status EXCEPT ![t] = "connecting", ![sock'] = "connecting"]
        BY <2>4
    <3>2. ~bound.reentrant => \A s \in Sockets : s # sock' => status'[s] = status[s]
        BY <1>0, <2>4, <3>1
    <3>3. ~bound.reentrant => sock = None /\ retry'.due = 0
        BY <1>0, <2>2, <2>4 DEF AloneOK, Alone
    <3>4. ~bound.reentrant => sid = None /\ \A s \in Sockets : status[s] \in {"none", "closed"}
        BY <1>0, <3>3 DEF AloneOK, Alone
    <3> QED
        BY <1>0, <2>1, <2>4, <3>2, <3>3, <3>4 DEF AloneOK, Alone
  <2> QED
    BY <1>1, <2>3, <2>4, Opening
<1>2. ASSUME Disconnect \/ PongFires
      PROVE  AloneOK'
  <2>1. UNCHANGED <<sock, sid, bound>> /\ retry' \in {retry, RetryCleared}
    BY <1>2, Closing
  <2>2. \A s \in Sockets : s # sock => status'[s] = status[s]
    BY <1>0, <1>2, Closing
  <2>3. retry' = retry \/ (retry.handle /\ retry'.due = retry.due - 1) \/ (retry'.due = retry.due /\ ~retry.handle)
    <3>1. CASE retry' = RetryCleared /\ retry.handle
        BY <3>1, RetryTyped
    <3>2. CASE retry' = RetryCleared /\ ~retry.handle
        BY <3>2 DEF RetryCleared
    <3> QED
        BY <2>1, <3>1, <3>2
  <2>4. CASE retry' = retry
    BY <2>1, <2>2, <2>4 DEF AloneOK, Alone
  <2>5. CASE retry.handle /\ retry'.due = retry.due - 1
    BY <1>0, <2>1, <2>2, <2>5 DEF AloneOK, Alone
  <2>6. CASE retry'.due = retry.due /\ ~retry.handle
    BY <1>0, <2>1, <2>2, <2>6 DEF AloneOK, Alone
  <2> QED
    BY <2>3, <2>4, <2>5, <2>6
<1>3. ASSUME UNCHANGED <<sock, sid, retry, status, bound>>
      PROVE  AloneOK'
    BY <1>3 DEF AloneOK, Alone
<1>4. ASSUME NEW s \in Sockets, Receive(s)
      PROVE  AloneOK'
  <2>1. UNCHANGED <<sock, retry, status, bound>>
    BY <1>4, ReceiveCases
  <2>2. sid' = sid \/ (sid' = s /\ sock = s)
    BY <1>4, ReceiveCases DEF Established, Heard
  <2> QED
    BY <1>0, <2>1, <2>2 DEF AloneOK, Alone
<1>5. ASSUME NEW s \in Sockets, Closed(s)
      PROVE  AloneOK'
  <2>0. bound' = bound
    BY <1>5, ClosedCases
  <2>1. CASE /\ sock # s /\ status' = [status EXCEPT ![s] = "closed"] /\ UNCHANGED <<sock, sid, retry>>
    BY <1>0, <2>0, <2>1 DEF AloneOK, Alone
  <2>2. CASE /\ sock = s /\ status' = [status EXCEPT ![s] = "closed"] /\ sock' = None /\ sid' = None
             /\ retry' \in {retry, RetrySet}
    <3>1. ~bound.reentrant => retry.due = 0
        BY <1>0, <2>2 DEF AloneOK, Alone
    <3>2. retry' = retry \/ (retry'.handle /\ retry'.due = retry.due + 1)
        BY <2>2, RetryTyped
    <3> QED
        BY <1>0, <2>0, <2>2, <3>1, <3>2 DEF AloneOK, Alone
  <2>3. CASE bound.reentrant /\ sock' \in Sockets /\ sid' = None
    BY <2>0, <2>3 DEF AloneOK
  <2> QED
    BY <1>5, <2>1, <2>2, <2>3, ClosedCases
<1>6. ASSUME NEW s \in Sockets, Accept(s) \/ Refuse(s)
      PROVE  AloneOK'
  <2>1. UNCHANGED <<sock, sid, retry, bound>> /\ status[s] = "connecting" /\ status' = [status EXCEPT ![s] = "open"]
    BY <1>6, Answering
  <2>2. ~bound.reentrant => s = sock
    BY <2>1 DEF AloneOK, Alone
  <2>3. \A t \in Sockets : t # s => status'[t] = status[t]
    BY <1>0, <2>1
  <2> QED
    BY <2>1, <2>2, <2>3 DEF AloneOK, Alone
<1>7. ASSUME NEW s \in Sockets, Serve(s)
      PROVE  AloneOK'
    BY <1>3, <1>7, ServeCases
<1>8. ASSUME NEW s \in Sockets, ServerCloses(s) \/ Drop(s) \/ Silence(s) \/ CloseCompletes(s)
      PROVE  AloneOK'
    BY <1>3, <1>8, GoneCases
<1>9. ASSUME \/ \E n \in Names : Subscribe(n) \/ Unsubscribe(n)
             \/ \E a \in auths : AuthAnswers(a)
             \/ ActivityFires
      PROVE  AloneOK'
    BY <1>3, <1>9, Writing
<1>10. ASSUME (\E a \in auths : AuthFails(a)) \/ WindowPasses \/ UNCHANGED vars
      PROVE  AloneOK'
    BY <1>3, <1>10, Telling
<1> HIDE DEF IInv
<1>11. TypeOK
    BY DEF IInv
<1> QED
    BY <1>1, <1>2, <1>4, <1>5, <1>6, <1>7, <1>8, <1>9, <1>10, <1>11, StepCases

\* Nothing happens on a socket before the server has taken it.
LEMMA EarlyStep ==
    ASSUME IInv, [Next]_vars, NEW s \in Sockets
    PROVE  EarlyOf(s)'
<1> USE DEF IInv
<1>0. /\ None \notin Sockets /\ status \in [Sockets -> {"none", "connecting", "open", "closing", "closed"}]
      /\ conn \in [Sockets -> {"none", "open", "gone"}] /\ silent \in [Sockets -> {"no", "early", "late"}]
      /\ up \in [Sockets -> Seq(Requests)] /\ seats \in [Sockets -> SUBSET Names]
      /\ sock \in Sockets \union {None} /\ sid \in Sockets \union {None}
    BY BoundTyped DEF TypeOK
<1>1. /\ status[s] \in {"none", "connecting"} =>
            up[s] = <<>> /\ seats[s] = {} /\ conn[s] # "open" /\ silent[s] = "no" /\ sid # s
      /\ conn[s] = "open" => silent[s] = "no"
    BY DEF EarlyOf
<1>2. ASSUME status'[s] \in {"none", "connecting"} => status[s] \in {"none", "connecting"},
             up'[s] = up[s], seats'[s] = seats[s], conn'[s] = conn[s], silent'[s] = silent[s],
             sid' \in {sid, None}
      PROVE  EarlyOf(s)'
    BY <1>0, <1>1, <1>2 DEF EarlyOf
<1>3. ASSUME Connect \/ RetryFires
      PROVE  EarlyOf(s)'
  <2>1. UNCHANGED <<sid, up, seats, conn, silent>>
    BY <1>3, Opening
  <2>2. \/ status' = status
        \/ /\ sock' \in Sockets /\ status[sock'] = "none"
           /\ \E t \in Sockets : /\ status[t] = "none"
                                 /\ status' = [status EXCEPT ![t] = "connecting", ![sock'] = "connecting"]
    BY <1>3, Opening
  <2>3. status'[s] \in {"none", "connecting"} => status[s] \in {"none", "connecting"}
    BY <1>0, <2>2
  <2> QED
    BY <1>2, <2>1, <2>3
<1>4. ASSUME Disconnect \/ PongFires
      PROVE  EarlyOf(s)'
  <2>1. UNCHANGED <<sid, up, seats, conn, silent>>
    BY <1>4, Closing
  <2>2. status' = status \/ (sock \in Sockets /\ status' = [status EXCEPT ![sock] = "closing"])
    BY <1>4, Closing
  <2>3. status'[s] \in {"none", "connecting"} => status[s] \in {"none", "connecting"}
    BY <1>0, <2>2
  <2> QED
    BY <1>2, <2>1, <2>3
<1>5. ASSUME \/ \E n \in Names : Subscribe(n) \/ Unsubscribe(n)
             \/ \E a \in auths : AuthAnswers(a)
             \/ ActivityFires
      PROVE  EarlyOf(s)'
    BY <1>0, <1>1, <1>5, Writing DEF EarlyOf
<1>6. ASSUME (\E a \in auths : AuthFails(a)) \/ WindowPasses \/ UNCHANGED vars
      PROVE  EarlyOf(s)'
    BY <1>2, <1>6, Telling
<1>7. ASSUME NEW t \in Sockets, Receive(t)
      PROVE  EarlyOf(s)'
  <2>1. UNCHANGED <<status, silent, conn, seats>>
    BY <1>7, ReceiveCases
  <2>2. CASE Heard(t) /\ Established(t)
    <3>1. status[t] = "open" /\ sid' = t
        BY <2>2 DEF Heard, Established
    <3>2. s # t => up'[s] = up[s]
        BY <1>0, <2>2 DEF Established
    <3> QED
        BY <1>1, <2>1, <3>1, <3>2 DEF EarlyOf
  <2>3. CASE up' = up /\ sid' = sid
    BY <1>2, <2>1, <2>3
  <2> QED
    BY <1>7, <2>2, <2>3, ReceiveCases
<1>8. ASSUME NEW t \in Sockets, Closed(t)
      PROVE  EarlyOf(s)'
  <2>1. UNCHANGED <<up, seats, conn, silent>> /\ sid' \in {sid, None}
    BY <1>8, ClosedCases
  <2>2. \/ status' = [status EXCEPT ![t] = "closed"]
        \/ /\ sock' \in Sockets /\ status[sock'] = "none"
           /\ \E u \in Sockets :
                  /\ status[u] = "none"
                  /\ status' = [status EXCEPT ![t] = "closed", ![u] = "connecting", ![sock'] = "connecting"]
    BY <1>8, ClosedCases
  <2>3. status'[s] \in {"none", "connecting"} => status[s] \in {"none", "connecting"}
    BY <1>0, <2>2
  <2> QED
    BY <1>2, <2>1, <2>3
<1>9. ASSUME NEW t \in Sockets, Accept(t) \/ Refuse(t)
      PROVE  EarlyOf(s)'
  <2>1. /\ UNCHANGED <<sid, silent, up, seats>>
        /\ status[t] = "connecting" /\ status' = [status EXCEPT ![t] = "open"]
        /\ conn' = [conn EXCEPT ![t] = "open"] \/ conn' = [conn EXCEPT ![t] = "gone"]
    BY <1>9, Answering
  <2>2. CASE s = t
    BY <1>0, <1>1, <2>1, <2>2 DEF EarlyOf
  <2>3. CASE s # t
    <3>1. status'[s] = status[s] /\ conn'[s] = conn[s]
        BY <1>0, <2>1, <2>3
    <3> QED
        BY <1>2, <2>1, <3>1
  <2> QED
    BY <2>2, <2>3
<1>10. ASSUME NEW t \in Sockets, Serve(t)
      PROVE  EarlyOf(s)'
  <2>1. conn[t] = "open" /\ UNCHANGED <<sid, status, silent, conn>>
    BY <1>10, ServeCases
  <2>2. CASE s = t
    BY <1>1, <2>1, <2>2 DEF EarlyOf
  <2>3. CASE s # t
    <3>0. up' = [up EXCEPT ![t] = Tail(up[t])]
        BY <1>10, ServeCases
    <3>1. up'[s] = up[s]
        BY <2>3, <3>0 DEF TypeOK
    <3>2. \/ seats' = seats
          \/ \E n \in Names : seats' = [seats EXCEPT ![t] = @ \union {n}] \/ seats' = [seats EXCEPT ![t] = @ \ {n}]
        BY <1>10, ServeCases
    <3>3. seats'[s] = seats[s]
        BY <1>0, <2>3, <3>2
    <3> QED
        BY <1>2, <2>1, <3>1, <3>3
  <2> QED
    BY <2>2, <2>3
<1>11. ASSUME NEW t \in Sockets, ServerCloses(t) \/ Drop(t) \/ Silence(t) \/ CloseCompletes(t)
      PROVE  EarlyOf(s)'
  <2>1. /\ UNCHANGED <<sid, status>>
        /\ conn' = [conn EXCEPT ![t] = "gone"] /\ up' = [up EXCEPT ![t] = <<>>] /\ seats' = [seats EXCEPT ![t] = {}]
        /\ \A u \in Sockets : u # t => silent'[u] = silent[u]
    BY <1>11, GoneCases
  <2>2. silent' = silent \/ status[t] = "open"
    BY <1>11 DEF ServerCloses, Drop, Silence, CloseCompletes
  <2>3. CASE s = t
    BY <1>0, <1>1, <2>1, <2>2, <2>3 DEF EarlyOf
  <2>4. CASE s # t
    <3>1. conn'[s] = conn[s] /\ up'[s] = up[s] /\ seats'[s] = seats[s] /\ silent'[s] = silent[s]
        BY <1>0, <2>1, <2>4
    <3> QED
        BY <1>2, <2>1, <3>1
  <2> QED
    BY <2>3, <2>4
<1> HIDE DEF IInv
<1>12. TypeOK
    BY DEF IInv
<1> QED
    BY <1>3, <1>4, <1>5, <1>6, <1>7, <1>8, <1>9, <1>10, <1>11, <1>12, StepCases

-----------------------------------------------------------------------------
(* The first frame                                                         *)

\* A frame is handed over: what is left has none with a socket id.
LEMMA FirstTaken ==
    ASSUME NEW s \in Sockets, FirstOf(s), down[s] \in Seq(Frames), down[s] # <<>>,
           down'[s] = Tail(down[s]), Alive(s)' => Alive(s),
           sock' = s /\ status'[s] = "open" =>
               /\ sock = s /\ status[s] = "open"
               /\ sid = s => sid' = s
               /\ down[s][1].kind = "established" => sid' = s
    PROVE  FirstOf(s)'
<1>1. \A i \in DOMAIN Tail(down[s]) : /\ i + 1 # 1 /\ i + 1 \in DOMAIN down[s]
                                      /\ Tail(down[s])[i] = down[s][i + 1]
    BY TakenOff
<1>2. /\ \A i \in DOMAIN down[s] : down[s][i].kind = "established" => i = 1
      /\ sock = s /\ status[s] = "open" /\ sid # s =>
            \A i \in DOMAIN down[s] : down[s][i].kind = "confirm" => down[s][1].kind = "established"
      /\ Alive(s) /\ sid # s => down[s][1].kind = "established"
    BY DEF FirstOf, First
<1>3. \A i \in DOMAIN down'[s] : down'[s][i].kind # "established"
    BY <1>1, <1>2
<1>4. ASSUME sock' = s, status'[s] = "open", sid' # s
      PROVE  ~Alive(s) /\ \A i \in DOMAIN down'[s] : down'[s][i].kind # "confirm"
    BY <1>1, <1>2, <1>4
<1>5. Alive(s)' => sock' = s /\ status'[s] = "open"
    BY DEF Alive
<1> HIDE DEF Alive
<1> QED
    BY ONLY <1>3, <1>4, <1>5, Alive(s)' => Alive(s) DEF FirstOf, First

\* A frame comes after the others.
LEMMA FirstPut ==
    ASSUME NEW s \in Sockets, FirstOf(s), down[s] \in Seq(Frames), NEW x \in Frames,
           x.kind # "established", down'[s] = down[s] \o <<x>>,
           UNCHANGED <<sock, sid, status, conn>>, sock = s /\ status[s] = "open" => Alive(s)
    PROVE  FirstOf(s)'
<1>1. <<x>> \in Seq(Frames) /\ DOMAIN <<x>> = {1} /\ <<x>>[1] = x
    OBVIOUS
<1>2. /\ \A i \in DOMAIN down[s] : down'[s][i] = down[s][i]
      /\ \A j \in DOMAIN down'[s] : j \in DOMAIN down[s] \/ down'[s][j] = x
      /\ Len(down[s]) \in Nat /\ DOMAIN down[s] = 1..Len(down[s]) /\ DOMAIN down'[s] = 1..(Len(down[s]) + 1)
    BY <1>1, PutOn
<1>3. /\ \A i \in DOMAIN down[s] : down[s][i].kind = "established" => i = 1 /\ sid # s
      /\ Alive(s) /\ sid # s => down[s] # <<>> /\ down[s][1].kind = "established"
    BY DEF FirstOf, First
<1>4. down[s] # <<>> => 1 \in DOMAIN down[s] /\ down'[s] # <<>>
    BY <1>2
<1>5. \A j \in DOMAIN down'[s] : down'[s][j].kind = "established" => j = 1 /\ sid # s
    BY <1>2, <1>3
<1>6. Alive(s) /\ sid # s => down'[s] # <<>> /\ down'[s][1].kind = "established"
    BY <1>2, <1>3, <1>4
<1>7. UNCHANGED <<sock, sid, status, conn>> /\ (sock = s /\ status[s] = "open" => Alive(s))
    OBVIOUS
<1>8. Alive(s)' = Alive(s)
    BY <1>7 DEF Alive
<1> QED
    BY ONLY <1>5, <1>6, <1>7, <1>8 DEF FirstOf, First

\* The end of the socket cuts what is on the way.
LEMMA FirstCut ==
    ASSUME NEW s \in Sockets, FirstOf(s), down[s] \in Seq(Frames), NEW x \in Frames,
           x.kind \notin {"established", "confirm"}, NEW k \in 0..Len(down[s]),
           down'[s] = SubSeq(down[s], 1, k) \o <<x>>,
           UNCHANGED <<sock, sid, status>>, ~Alive(s)'
    PROVE  FirstOf(s)'
<1> DEFINE p == SubSeq(down[s], 1, k)
<1>1. Len(down[s]) \in Nat /\ DOMAIN down[s] = 1..Len(down[s]) /\ k <= Len(down[s]) /\ k \in Nat
    OBVIOUS
<1>2. p \in Seq(Frames) /\ Len(p) = k /\ DOMAIN p = 1..k /\ \A i \in 1..k : p[i] = down[s][i]
    BY <1>1
<1>3. <<x>> \in Seq(Frames) /\ DOMAIN <<x>> = {1} /\ <<x>>[1] = x /\ down'[s] = p \o <<x>>
    OBVIOUS
<1> HIDE DEF p
<1>4. /\ \A i \in DOMAIN p : down'[s][i] = p[i]
      /\ \A j \in DOMAIN down'[s] : j \in DOMAIN p \/ down'[s][j] = x
    BY <1>2, <1>3, PutOn
<1>5. \A j \in DOMAIN down'[s] : down'[s][j] = x \/ (/\ j \in DOMAIN down[s]
                                                    /\ down'[s][j] = down[s][j]
                                                    /\ down'[s][1] = down[s][1])
    BY <1>1, <1>2, <1>4
<1>6. /\ \A i \in DOMAIN down[s] : down[s][i].kind = "established" => i = 1 /\ sid # s
      /\ sock = s /\ status[s] = "open" /\ sid # s =>
            \A i \in DOMAIN down[s] : down[s][i].kind = "confirm" => down[s][1].kind = "established"
    BY DEF FirstOf, First
<1>7. \A j \in DOMAIN down'[s] : down'[s][j].kind = "established" => j = 1 /\ sid # s
    BY <1>5, <1>6
<1>8. sock = s /\ status[s] = "open" /\ sid # s =>
          \A j \in DOMAIN down'[s] : down'[s][j].kind = "confirm" => down'[s][1].kind = "established"
    BY <1>5, <1>6
<1>9. UNCHANGED <<sock, sid, status>> /\ ~Alive(s)'
    OBVIOUS
<1> QED
    BY ONLY <1>7, <1>8, <1>9 DEF FirstOf, First

LEMMA FirstStep ==
    ASSUME IInv, [Next]_vars, NEW s \in Sockets
    PROVE  FirstOf(s)'
<1> USE DEF IInv
<1>0. /\ None \notin Sockets /\ status \in [Sockets -> {"none", "connecting", "open", "closing", "closed"}]
      /\ conn \in [Sockets -> {"none", "open", "gone"}]
      /\ down \in [Sockets -> Seq(Frames)] /\ down[s] \in Seq(Frames)
      /\ sock \in Sockets \union {None} /\ sid \in Sockets \union {None}
    BY BoundTyped DEF TypeOK
<1> DEFINE own == sid = s
           used == sock = s /\ status[s] = "open"
<1>1. First(down[s], own, used, Alive(s))
    BY DEF FirstOf
<1>2. own \in BOOLEAN /\ used \in BOOLEAN /\ Alive(s) \in BOOLEAN /\ (Alive(s) => used)
    BY DEF Alive
<1>3. ASSUME First(down'[s], own', used', Alive(s)')
      PROVE  FirstOf(s)'
    BY <1>3 DEF FirstOf
<1>4. ASSUME down'[s] = down[s], own' => own, used' => used /\ (own => own'), Alive(s)' => Alive(s)
      PROVE  FirstOf(s)'
  <2>1. own' \in BOOLEAN /\ used' \in BOOLEAN /\ Alive(s)' \in BOOLEAN /\ (Alive(s)' => used')
    BY DEF Alive
  <2>2. First(down[s], own', used', Alive(s)')
    BY <1>1, <1>2, <1>4, <2>1 DEF First
  <2> QED
    BY <1>3, <1>4, <2>2
<1>5. ASSUME Connect \/ RetryFires
      PROVE  FirstOf(s)'
  <2>1. UNCHANGED <<sid, down, conn>>
    BY <1>5, Opening
  <2>2. \/ UNCHANGED <<sock, status>>
        \/ /\ sock' \in Sockets
           /\ \E t \in Sockets : status' = [status EXCEPT ![t] = "connecting", ![sock'] = "connecting"]
    BY <1>5, Opening
  <2>3. (used' => used) /\ (Alive(s)' => Alive(s))
    BY <1>0, <2>1, <2>2 DEF Alive
  <2> QED
    BY <1>4, <2>1, <2>3
<1>6. ASSUME Disconnect \/ PongFires
      PROVE  FirstOf(s)'
  <2>1. UNCHANGED <<sock, sid, down, conn>>
    BY <1>6, Closing
  <2>2. status' = status \/ (sock \in Sockets /\ status' = [status EXCEPT ![sock] = "closing"])
    BY <1>6, Closing
  <2>3. (used' => used) /\ (Alive(s)' => Alive(s))
    BY <1>0, <2>1, <2>2 DEF Alive
  <2> QED
    BY <1>4, <2>1, <2>3
<1>7. ASSUME UNCHANGED <<sock, sid, status, down, conn>>
      PROVE  FirstOf(s)'
    BY <1>4, <1>7 DEF Alive
<1>8. ASSUME NEW t \in Sockets, Receive(t)
      PROVE  FirstOf(s)'
  <2>1. /\ UNCHANGED <<sock, status, conn>> /\ down[t] # <<>>
        /\ down' = [down EXCEPT ![t] = Tail(down[t])]
    BY <1>8, ReceiveCases
  <2>2. \/ sid' = sid /\ (Heard(t) => Head(down[t]).kind # "established")
        \/ sid' = t /\ Heard(t)
    BY <1>8, ReceiveCases DEF Established
  <2>3. used' = used /\ Alive(s)' = Alive(s)
    BY <2>1 DEF Alive
  <2>4. CASE s = t
    <3>1. down'[s] = Tail(down[s]) /\ Head(down[s]) = down[s][1] /\ down[s] # <<>>
        BY <1>0, <2>1, <2>4, TakenOff
    <3>2. (own => own') /\ (used /\ down[s][1].kind = "established" => own')
        BY <2>2, <2>4, <3>1 DEF Heard
    <3>3. FirstOf(s) /\ down[s] \in Seq(Frames)
        BY <1>0
    <3> QED
        BY ONLY <2>3, <3>1, <3>2, <3>3, FirstTaken, s \in Sockets
  <2>5. CASE s # t
    <3>1. down'[s] = down[s]
        BY <1>0, <2>1, <2>5
    <3>2. (own' => own) /\ (used => (own => own'))
        BY <2>2, <2>5 DEF Heard
    <3> QED
        BY <1>4, <2>3, <3>1, <3>2
  <2> QED
    BY <2>4, <2>5
<1>9. ASSUME NEW t \in Sockets, Closed(t)
      PROVE  FirstOf(s)'
  <2>1. /\ down[t] # <<>> /\ down' = [down EXCEPT ![t] = Tail(down[t])] /\ conn' = conn
        /\ Head(down[t]).kind # "established"
    BY <1>9, ClosedCases
  <2>2. \/ sock # t /\ sock' = sock /\ sid' = sid /\ status' = [status EXCEPT ![t] = "closed"]
        \/ sock = t /\ sock' = None /\ sid' = None /\ status' = [status EXCEPT ![t] = "closed"]
        \/ /\ sock = t /\ sock' \in Sockets /\ sid' = None
           /\ \E u \in Sockets :
                  status' = [status EXCEPT ![t] = "closed", ![u] = "connecting", ![sock'] = "connecting"]
    BY <1>9, ClosedCases
  <2>3. used' => used /\ sock # t /\ s # t /\ sid' = sid /\ status'[s] = status[s]
    BY <1>0, <2>2
  <2>4. Alive(s)' => Alive(s)
    BY <2>1, <2>3 DEF Alive
  <2>5. own' => own
    BY <1>0, <2>2
  <2>6. CASE s # t
    <3>1. down'[s] = down[s]
        BY <1>0, <2>1, <2>6
    <3> QED
        BY <1>4, <2>3, <2>4, <2>5, <3>1
  <2>7. CASE s = t
    <3>1. down'[s] = Tail(down[s]) /\ Head(down[s]) = down[s][1] /\ down[s] # <<>>
        BY <1>0, <2>1, <2>7, TakenOff
    <3>2. FirstOf(s) /\ down[s] \in Seq(Frames)
        BY <1>0
    <3>3. ~(sock' = s /\ status'[s] = "open")
        BY <2>3, <2>7
    <3> QED
        BY ONLY <2>4, <3>1, <3>2, <3>3, FirstTaken, s \in Sockets
  <2> QED
    BY <2>6, <2>7
<1>10. ASSUME NEW t \in Sockets, Accept(t) \/ Refuse(t)
      PROVE  FirstOf(s)'
  <2>1. /\ UNCHANGED <<sock, sid>> /\ status[t] = "connecting" /\ status' = [status EXCEPT ![t] = "open"]
        /\ \/ conn' = [conn EXCEPT ![t] = "open"] /\ down' = [down EXCEPT ![t] = <<Frame("established", None)>>]
           \/ /\ conn' = [conn EXCEPT ![t] = "gone"]
              /\ down' = [down EXCEPT ![t] = <<Frame("refused", None), Frame("close", None)>>]
    BY <1>10, Answering
  <2>2. CASE s # t
    <3>1. down'[s] = down[s] /\ status'[s] = status[s] /\ conn'[s] = conn[s]
        BY <1>0, <2>1, <2>2
    <3> QED
        BY <1>4, <2>1, <3>1 DEF Alive
  <2>3. CASE s = t /\ conn' = [conn EXCEPT ![t] = "open"] /\ down' = [down EXCEPT ![t] = <<Frame("established", None)>>]
    <3>1. sid # s
        BY <2>1, <2>3 DEF EarlyOf
    <3>2. down'[s] = <<Frame("established", None)>>
        BY <1>0, <2>3
    <3>3. <<Frame("established", None)>>[1].kind = "established" /\ DOMAIN <<Frame("established", None)>> = {1}
        BY DEF Frame
    <3> QED
        BY <1>3, <2>1, <3>1, <3>2, <3>3 DEF First
  <2>4. CASE s = t /\ conn' = [conn EXCEPT ![t] = "gone"]
                   /\ down' = [down EXCEPT ![t] = <<Frame("refused", None), Frame("close", None)>>]
    <3>1. conn'[s] = "gone"
        BY <1>0, <2>4
    <3>2. ~Alive(s)'
        BY <3>1 DEF Alive
    <3>3. down'[s] = <<Frame("refused", None), Frame("close", None)>>
        BY <1>0, <2>4
    <3>4. \A i \in DOMAIN <<Frame("refused", None), Frame("close", None)>> :
             <<Frame("refused", None), Frame("close", None)>>[i].kind \notin {"established", "confirm"}
        BY DEF Frame
    <3> QED
        BY <1>3, <3>2, <3>3, <3>4 DEF First
  <2> QED
    BY <2>1, <2>2, <2>3, <2>4
<1>11. ASSUME NEW t \in Sockets, Serve(t)
      PROVE  FirstOf(s)'
  <2>1. UNCHANGED <<sock, sid, status, conn>> /\ conn[t] = "open"
    BY <1>11, ServeCases
  <2>2. \/ down' = down
        \/ \E x \in Frames : x.kind # "established" /\ down' = [down EXCEPT ![t] = down[t] \o <<x>>]
    <3>1. /\ \A n \in Names : Frame("confirm", n) \in Frames /\ Frame("confirm", n).kind # "established"
          /\ Frame("denied", None) \in Frames /\ Frame("denied", None).kind # "established"
          /\ Frame("pong", None) \in Frames /\ Frame("pong", None).kind # "established"
        BY RequestsTyped
    <3>2. \/ down' = down
          \/ \E n \in Names : down' = [down EXCEPT ![t] = down[t] \o <<Frame("confirm", n)>>]
          \/ down' = [down EXCEPT ![t] = down[t] \o <<Frame("denied", None)>>]
          \/ down' = [down EXCEPT ![t] = down[t] \o <<Frame("pong", None)>>]
        BY <1>11, ServeCases
    <3> QED
        BY <3>1, <3>2
  <2>3. used' = used /\ Alive(s)' = Alive(s) /\ own' = own
    BY <2>1 DEF Alive
  <2>4. CASE down' = down
    BY <1>7, <2>1, <2>4
  <2>5. ASSUME NEW x \in Frames, x.kind # "established", down' = [down EXCEPT ![t] = down[t] \o <<x>>]
        PROVE  FirstOf(s)'
    <3>1. CASE s # t
      <4>1. down'[s] = down[s]
        BY <1>0, <2>5, <3>1
      <4> QED
        BY <1>4, <2>3, <4>1
    <3>2. CASE s = t
      <4>1. down'[s] = down[s] \o <<x>>
        BY <1>0, <2>5, <3>2
      <4>2. used => Alive(s)
        BY <2>1, <3>2 DEF Alive
      <4>3. FirstOf(s) /\ down[s] \in Seq(Frames) /\ UNCHANGED <<sock, sid, status, conn>>
        BY <1>0, <2>1
      <4> QED
        BY ONLY <2>5, <4>1, <4>2, <4>3, FirstPut, s \in Sockets, x \in Frames
    <3> QED
        BY <3>1, <3>2
  <2> QED
    BY <2>2, <2>4, <2>5
<1>12. ASSUME NEW t \in Sockets, ServerCloses(t) \/ Drop(t) \/ Silence(t) \/ CloseCompletes(t)
      PROVE  FirstOf(s)'
  <2>1. UNCHANGED <<sock, sid, status>> /\ conn' = [conn EXCEPT ![t] = "gone"]
    BY <1>12, GoneCases
  <2>2. \/ down' = [down EXCEPT ![t] = <<>>]
        \/ \E k \in 0..Len(down[t]), last \in {"close", "fatal"} :
              down' = [down EXCEPT ![t] = SubSeq(down[t], 1, k) \o <<Frame(last, None)>>]
    BY <1>12, GoneCases
  <2>3. used' = used /\ own' = own
    BY <2>1
  <2>4. CASE s # t
    <3>1. down'[s] = down[s] /\ conn'[s] = conn[s]
        BY <1>0, <2>1, <2>2, <2>4
    <3> QED
        BY <1>4, <2>1, <3>1 DEF Alive
  <2>5. CASE s = t
    <3>1. conn'[s] = "gone"
        BY <1>0, <2>1, <2>5
    <3>2. ~Alive(s)'
        BY <3>1 DEF Alive
    <3>3. CASE down' = [down EXCEPT ![t] = <<>>]
      <4>1. down'[s] = <<>>
        BY <1>0, <2>5, <3>3
      <4> QED
        BY <1>3, <3>2, <4>1 DEF First
    <3>4. ASSUME NEW k \in 0..Len(down[t]), NEW last \in {"close", "fatal"},
                 down' = [down EXCEPT ![t] = SubSeq(down[t], 1, k) \o <<Frame(last, None)>>]
          PROVE  FirstOf(s)'
      <4>1. down'[s] = SubSeq(down[s], 1, k) \o <<Frame(last, None)>>
        BY <1>0, <2>5, <3>4
      <4>2. Frame(last, None) \in Frames /\ Frame(last, None).kind \notin {"established", "confirm"}
        BY RequestsTyped
      <4>3. /\ FirstOf(s) /\ down[s] \in Seq(Frames) /\ UNCHANGED <<sock, sid, status>>
            /\ k \in 0..Len(down[s])
        BY <1>0, <2>1, <2>5
      <4>4. PICK x \in Frames : x = Frame(last, None)
        BY <4>2
      <4> QED
        BY ONLY <3>2, <4>1, <4>2, <4>3, <4>4, FirstCut, s \in Sockets
    <3> QED
        BY <2>2, <3>3, <3>4
  <2> QED
    BY <2>4, <2>5
<1>13. ASSUME \/ \E n \in Names : Subscribe(n) \/ Unsubscribe(n)
              \/ \E a \in auths : AuthAnswers(a)
              \/ ActivityFires
      PROVE  FirstOf(s)'
    BY <1>7, <1>13, Writing
<1>14. ASSUME (\E a \in auths : AuthFails(a)) \/ WindowPasses \/ UNCHANGED vars
      PROVE  FirstOf(s)'
    BY <1>7, <1>14, Telling
<1> HIDE DEF IInv, own, used
<1>15. TypeOK
    BY DEF IInv
<1> QED
    BY <1>5, <1>6, <1>8, <1>9, <1>10, <1>11, <1>12, <1>13, <1>14, <1>15, StepCases

-----------------------------------------------------------------------------
(* The page and the server                                                 *)

\* Requests about other channels change nothing for this one.
LEMMA AgreeKept ==
    ASSUME TypeOK, NEW s \in Sockets, NEW n \in Names, AgreesOn(s, n),
           NEW r \in Seq(Requests), Quiet(r, n), up'[s] = up[s] \/ up'[s] = up[s] \o r,
           UNCHANGED <<sid, seats>>, down'[s] = down[s], held'[n] = held[n], confirmed'[n] = confirmed[n],
           denied[s] \subseteq denied'[s],
           sid = s /\ n \notin denied'[s] =>
               \A a \in auths : a.name = n /\ a.socket = s /\ a.obj = held[n] => a \in auths'
    PROVE  AgreesOn(s, n)'
<1>1. up[s] \in Seq(Requests)
    BY DEF TypeOK
<1>2. /\ Quiet(up[s], n) => Quiet(up'[s], n)
      /\ \A k : Final(up[s], n, k) => Final(up'[s], n, k)
      /\ \A k : Has(up[s], n, k) => Has(up'[s], n, k)
    BY <1>1, PutQuiet, PutHas
<1> QED
    BY <1>2 DEF AgreesOn

\* The server took the first request.
LEMMA AgreeServed ==
    ASSUME TypeOK, NEW s \in Sockets, NEW n \in Names, AgreesOn(s, n), Serve(s)
    PROVE  AgreesOn(s, n)'
<1>0. /\ up[s] \in Seq(Requests) /\ up[s] # <<>> /\ up'[s] = Tail(up[s]) /\ down[s] \in Seq(Frames)
      /\ UNCHANGED <<sid, held, confirmed, auths>>
      /\ seats \in [Sockets -> SUBSET Names] /\ denied \in [Sockets -> SUBSET Names]
      /\ down \in [Sockets -> Seq(Frames)]
  <2>1. /\ up[s] # <<>> /\ up' = [up EXCEPT ![s] = Tail(up[s])]
        /\ UNCHANGED <<sid, held, confirmed, auths>>
    BY ServeCases
  <2>2. /\ up \in [Sockets -> Seq(Requests)] /\ down \in [Sockets -> Seq(Frames)]
        /\ seats \in [Sockets -> SUBSET Names] /\ denied \in [Sockets -> SUBSET Names]
    BY DEF TypeOK
  <2> QED
    BY <2>1, <2>2
<1> DEFINE f == Head(up[s])
<1>1. Quiet(up[s], n) => Quiet(up'[s], n) /\ ~(f.kind # "ping" /\ f.name = n)
    BY <1>0, TailQuiet
<1>2. \A k : Final(up[s], n, k) => Final(up'[s], n, k) \/ (f.kind = k /\ f.name = n /\ Quiet(up'[s], n))
    BY <1>0, TailFinal
<1>3. \A k : Has(up[s], n, k) => Has(up'[s], n, k) \/ (f.kind = k /\ f.name = n)
    BY <1>0, TailHas
<1>4. \A x \in Frames : /\ Has(down[s], n, "confirm") => Has(down[s] \o <<x>>, n, "confirm")
                        /\ x.kind = "confirm" /\ x.name = n => Has(down[s] \o <<x>>, n, "confirm")
  <2>1. ASSUME NEW x \in Frames
        PROVE  /\ Has(down[s], n, "confirm") => Has(down[s] \o <<x>>, n, "confirm")
               /\ x.kind = "confirm" /\ x.name = n => Has(down[s] \o <<x>>, n, "confirm")
    BY <1>0, PutHas, SingleRequest
  <2> QED
    BY <2>1
<1> HIDE DEF f
<1>5. CASE /\ f.kind = "subscribe" /\ f.name \in Names
           /\ seats' = [seats EXCEPT ![s] = @ \union {f.name}]
           /\ down' = [down EXCEPT ![s] = down[s] \o <<Frame("confirm", f.name)>>]
           /\ denied' = denied
  <2>1. seats'[s] = seats[s] \union {f.name} /\ down'[s] = down[s] \o <<Frame("confirm", f.name)>>
    BY <1>0, <1>5
  <2>2. /\ Has(down[s], n, "confirm") => Has(down'[s], n, "confirm")
        /\ f.name = n => Has(down'[s], n, "confirm")
    BY <1>4, <1>5, <2>1, RequestsTyped
  <2> QED
    BY <1>0, <1>1, <1>2, <1>3, <1>5, <2>1, <2>2 DEF AgreesOn
<1>6. CASE /\ f.kind = "subscribe" /\ f.name \in Names
           /\ denied' = [denied EXCEPT ![s] = @ \union {f.name}]
           /\ down' = [down EXCEPT ![s] = down[s] \o <<Frame("denied", None)>>]
           /\ seats' = seats
  <2>1. denied'[s] = denied[s] \union {f.name} /\ down'[s] = down[s] \o <<Frame("denied", None)>>
    BY <1>0, <1>6
  <2>2. Has(down[s], n, "confirm") => Has(down'[s], n, "confirm")
    BY <1>4, <2>1, RequestsTyped
  <2> QED
    BY <1>0, <1>1, <1>2, <1>3, <1>6, <2>1, <2>2 DEF AgreesOn
<1>7. CASE /\ f.kind = "unsubscribe" /\ f.name \in Names
           /\ seats' = [seats EXCEPT ![s] = @ \ {f.name}]
           /\ down' = down /\ denied' = denied
  <2>1. seats'[s] = seats[s] \ {f.name}
    BY <1>0, <1>7
  <2> QED
    BY <1>0, <1>1, <1>2, <1>3, <1>7, <2>1 DEF AgreesOn
<1>8. CASE /\ f.kind = "ping"
           /\ down' = [down EXCEPT ![s] = down[s] \o <<Frame("pong", None)>>]
           /\ seats' = seats /\ denied' = denied
  <2>1. down'[s] = down[s] \o <<Frame("pong", None)>>
    BY <1>0, <1>8
  <2>2. Has(down[s], n, "confirm") => Has(down'[s], n, "confirm")
    BY <1>4, <2>1, RequestsTyped
  <2> QED
    BY <1>0, <1>1, <1>2, <1>3, <1>8, <2>2 DEF AgreesOn
<1> QED
    BY <1>5, <1>6, <1>7, <1>8, ServeCases DEF f

\* The page heard a frame of the socket it uses.
LEMMA AgreeHeard ==
    ASSUME IInv, NEW s \in Sockets, NEW n \in Names, Alive(s), AgreesOn(s, n), Receive(s)
    PROVE  AgreesOn(s, n)'
<1> USE DEF IInv
<1>0. /\ down[s] \in Seq(Frames) /\ down[s] # <<>> /\ down'[s] = Tail(down[s])
      /\ Head(down[s]) = down[s][1] /\ 1 \in DOMAIN down[s]
      /\ UNCHANGED <<held, sock, status, conn, seats, denied>> /\ Heard(s)
      /\ None \notin Sockets /\ up[s] \in Seq(Requests)
      /\ up \in [Sockets -> Seq(Requests)] /\ confirmed \in [Names -> Sockets \union {None}]
      /\ held \in [Names -> 0..MaxCalls] /\ MaxCalls \in Nat
  <2>1. /\ down[s] \in Seq(Frames) /\ down[s] # <<>> /\ down' = [down EXCEPT ![s] = Tail(down[s])]
        /\ UNCHANGED <<held, sock, status, conn, seats, denied>>
    BY ReceiveCases
  <2>2. Head(down[s]) = down[s][1] /\ 1 \in DOMAIN down[s]
    BY <2>1, TakenOff
  <2>3. /\ down \in [Sockets -> Seq(Frames)] /\ None \notin Sockets /\ up[s] \in Seq(Requests)
        /\ up \in [Sockets -> Seq(Requests)] /\ confirmed \in [Names -> Sockets \union {None}]
        /\ held \in [Names -> 0..MaxCalls] /\ MaxCalls \in Nat
    BY BoundTyped DEF TypeOK
  <2>4. Heard(s)
    BY DEF Heard, Alive
  <2> QED
    BY <2>1, <2>2, <2>3, <2>4
<1>1. Has(down[s], n, "confirm") => Has(down'[s], n, "confirm") \/ (Head(down[s]).kind = "confirm" /\ Head(down[s]).name = n)
    BY <1>0, TailHas
<1>2. sid # s => down[s][1].kind = "established"
    BY DEF FirstOf, First
<1>3. Head(down[s]).kind = "established" => sid # s
    BY <1>0 DEF FirstOf, First
<1>4. silent[s] = "no" /\ status[s] = "open" /\ conn[s] = "open"
    BY DEF EarlyOf, Alive
<1>5. CASE Head(down[s]).kind = "established" /\ Established(s)
  <2>1. Held \subseteq Names
    BY DEF Held
  <2>2. up'[s] = up[s] \o Subscriptions(Held)
    BY <1>0, <1>4, <1>5, <2>1, SubscriptionsOf, Sends DEF Established
  <2>3. /\ sid' = s /\ sid' # None /\ confirmed'[n] = None
        /\ auths' = auths \union Asking(Held, s, held)
    BY <1>0, <1>5 DEF Established
  <2>4. sid # s
    BY <1>3, <1>5
  <2>5. Subscriptions(Held) \in Seq(Requests)
    BY <2>1, SubscriptionsOf
  <2>6. CASE held[n] = 0
    <3>1. Quiet(Subscriptions(Held), n)
        BY <2>1, <2>6, SubscriptionsOf DEF Held
    <3>2. /\ Quiet(up[s], n) => Quiet(up'[s], n)
          /\ \A k : Final(up[s], n, k) => Final(up'[s], n, k)
          /\ \A k : Has(up[s], n, k) => Has(up'[s], n, k)
        BY <1>0, <2>2, <2>5, <3>1, PutQuiet, PutHas
    <3> QED
        BY <1>0, <1>1, <1>5, <2>3, <2>4, <2>6, <3>2 DEF AgreesOn
  <2>7. CASE held[n] # 0
    <3>1. n \in Held /\ held[n] \in 1..MaxCalls
        BY <1>0, <2>7 DEF Held
    <3>2. \/ \E a \in auths' : a.name = n /\ a.socket = s /\ a.obj = held[n]
          \/ Final(up'[s], n, "subscribe")
      <4>1. CASE n \in Guarded
        <5>1. \E a \in auths \union Asking(Held, s, held) : a.name = n /\ a.socket = s /\ a.obj = held[n]
            <6>1. /\ MaxCalls \in Nat /\ s \in Sockets /\ Held \in SUBSET Names
                  /\ n \in Held \intersect Guarded /\ held[n] \in 1..MaxCalls
                BY <1>0, <2>1, <3>1, <4>1
            <6> QED
                BY ONLY <6>1, AskingCovers
        <5> QED
            BY <2>3, <5>1
      <4>2. CASE n \notin Guarded
        BY <1>0, <2>1, <2>2, <2>5, <3>1, <4>2, SubscriptionsOf, PutFinal
      <4> QED
        BY <4>1, <4>2
    <3>3. \A k : Has(up[s], n, k) => Has(up'[s], n, k)
        BY <1>0, <2>2, <2>5, PutHas
    <3> QED
        BY <1>0, <1>1, <1>5, <2>3, <2>4, <2>7, <3>2, <3>3 DEF AgreesOn
  <2> QED
    BY <2>6, <2>7
<1>6. CASE /\ Head(down[s]).kind \notin {"established", "confirm"}
           /\ UNCHANGED <<sid, confirmed, auths, up>>
    BY <1>0, <1>1, <1>6 DEF AgreesOn
<1>7. CASE /\ Head(down[s]).kind = "confirm" /\ Head(down[s]).name \in Names
           /\ confirmed' = IF held[Head(down[s]).name] = 0 THEN confirmed
                           ELSE [confirmed EXCEPT ![Head(down[s]).name] = s]
           /\ UNCHANGED <<sid, auths, up>>
  <2>1. sid = s
    BY <1>0, <1>2, <1>7
  <2>2. confirmed[n] = s => confirmed'[n] = s
    BY <1>0, <1>7
  <2>3. Head(down[s]).name = n /\ held[n] # 0 => confirmed'[n] = s
    BY <1>0, <1>7
  <2>4. Final(up[s], n, "unsubscribe") => Has(up[s], n, "unsubscribe")
    BY DEF Final, Has
  <2> QED
    BY <1>0, <1>1, <1>7, <2>1, <2>2, <2>3, <2>4 DEF AgreesOn
<1> QED
    BY <1>0, <1>5, <1>6, <1>7, ReceiveCases

\* What the page writes on a socket that is alive arrives.
LEMMA Written ==
    ASSUME IInv, NEW s \in Sockets, Alive(s), NEW r \in Seq(Requests), up' = [up EXCEPT ![sock] = Sent(sock, r)]
    PROVE  up'[s] = up[s] \o r
<1>1. sock = s /\ status[s] = "open" /\ conn[s] = "open" /\ silent[s] = "no"
    BY DEF IInv, EarlyOf, Alive
<1>2. TypeOK /\ up \in [Sockets -> Seq(Requests)]
    BY DEF IInv, TypeOK
<1>3. Sent(s, r) = up[s] \o r
    BY <1>1, <1>2, Sends
<1> QED
    BY <1>1, <1>2, <1>3

\* subscribe and unsubscribe.
LEMMA AgreeCalled ==
    ASSUME IInv, NEW s \in Sockets, NEW n \in Names, Alive(s), AgreesOn(s, n),
           NEW m \in Names, Subscribe(m) \/ Unsubscribe(m)
    PROVE  AgreesOn(s, n)'
<1> USE DEF IInv
<1>0. /\ None \notin Sockets /\ up[s] \in Seq(Requests) /\ held \in [Names -> 0..MaxCalls] /\ MaxCalls \in Nat
      /\ confirmed \in [Names -> Sockets \union {None}] /\ sid \in Sockets \union {None}
    BY BoundTyped DEF TypeOK
<1>1. CASE Subscribe(m)
  <2>1. /\ held'[m] \in 1..MaxCalls /\ \A c \in Names : c # m => held'[c] = held[c]
        /\ UNCHANGED <<confirmed, sid, seats, down, denied>>
    BY <1>1, SubscribeEffect
  <2>2. Subscriptions({m}) \in Seq(Requests) /\ (n # m => Quiet(Subscriptions({m}), n))
    BY SubscriptionsOf
  <2>3. CASE sid = None /\ auths' = auths /\ up' = up
    <3>1. CASE n = m
        BY <1>0, <2>1, <2>3, <3>1 DEF AgreesOn
    <3>2. CASE n # m
        BY <2>1, <2>2, <2>3, <3>2, AgreeKept
    <3> QED
        BY <3>1, <3>2
  <2>4. CASE /\ sid # None /\ auths' = auths \union Asking({m}, sid, held')
             /\ up' = [up EXCEPT ![sock] = Sent(sock, Subscriptions({m}))]
    <3>1. up'[s] = up[s] \o Subscriptions({m})
        BY <2>2, <2>4, Written
    <3>2. CASE n # m
        BY <2>1, <2>2, <2>4, <3>1, <3>2, AgreeKept
    <3>3. CASE n = m
      <4>1. held'[n] # 0 /\ {m} \in SUBSET Names
        BY <2>1, <3>3
      <4>2. sid = s => \/ \E a \in auths' : a.name = n /\ a.socket = s /\ a.obj = held'[n]
                       \/ Final(up'[s], n, "subscribe")
        <5>1. CASE n \in Guarded /\ sid = s
          <6>1. PICK h, S : h = held' /\ S = {m}
            OBVIOUS
          <6>2. S \in SUBSET Names /\ m \in S \intersect Guarded /\ h[m] \in 1..MaxCalls
            BY <2>1, <3>3, <5>1, <6>1
          <6>3. \E a \in auths \union Asking(S, s, h) : a.name = m /\ a.socket = s /\ a.obj = h[m]
            <7>1. MaxCalls \in Nat /\ s \in Sockets
                BY <1>0
            <7> QED
                BY ONLY <6>2, <7>1, AskingCovers
          <6> QED
            BY <2>4, <3>3, <5>1, <6>1, <6>3
        <5>2. CASE n \notin Guarded
          <6>1. Final(Subscriptions({m}), n, "subscribe")
            BY <3>3, <5>2, SubscriptionsOf
          <6> QED
            BY <1>0, <2>2, <3>1, <6>1, PutFinal
        <5> QED
            BY <5>1, <5>2
      <4>3. \A k : Has(up[s], n, k) => Has(up'[s], n, k)
        BY <1>0, <2>2, <3>1, PutHas
      <4> QED
        BY <2>1, <2>4, <4>1, <4>2, <4>3 DEF AgreesOn
    <3> QED
        BY <3>2, <3>3
  <2> QED
    BY <1>1, <2>3, <2>4, SubscribeEffect
<1>2. CASE Unsubscribe(m)
  <2>1. /\ held' = [held EXCEPT ![m] = 0] /\ confirmed' = [confirmed EXCEPT ![m] = None]
        /\ UNCHANGED <<sid, auths, seats, down, denied>>
    BY <1>2 DEF Unsubscribe, history
  <2>2. /\ held'[m] = 0
        /\ n # m => held'[n] = held[n] /\ confirmed'[n] = confirmed[n]
    BY <1>0, <2>1
  <2> DEFINE x == Request("unsubscribe", m, None)
  <2>3. x \in Requests /\ x.kind = "unsubscribe" /\ x.name = m
    BY RequestsTyped
  <2>4. CASE sid = None
    <3>1. up' = up
        BY <1>2, <2>4 DEF Unsubscribe
    <3>2. Quiet(up[s], n) /\ n \notin seats[s]
        BY <2>4 DEF AgreesOn
    <3> QED
        BY <1>0, <2>1, <2>4, <3>1, <3>2 DEF AgreesOn
  <2>5. CASE sid # None
    <3>1. up' = [up EXCEPT ![sock] = Sent(sock, <<x>>)]
        BY <1>2, <2>5 DEF Unsubscribe
    <3> HIDE DEF x
    <3>2. /\ <<x>> \in Seq(Requests) /\ (n # m => Quiet(<<x>>, n))
          /\ Final(<<x>>, m, "unsubscribe") /\ Has(<<x>>, m, "unsubscribe")
        BY <2>3, SingleRequest
    <3>3. up'[s] = up[s] \o <<x>>
        BY <3>1, <3>2, Written
    <3>4. CASE n # m
        BY <2>1, <2>2, <3>2, <3>3, <3>4, AgreeKept
    <3>5. CASE n = m
      <4>1. Final(up'[s], n, "unsubscribe") /\ Has(up'[s], n, "unsubscribe")
        <5>1. Final(up'[s], n, "unsubscribe")
            <6>1. Final(up[s] \o <<x>>, m, "unsubscribe")
                BY <1>0, <3>2, PutFinal
            <6> QED
                BY <3>3, <3>5, <6>1
        <5>2. Has(up'[s], n, "unsubscribe")
            <6>1. Has(up[s] \o <<x>>, m, "unsubscribe")
                BY <1>0, <3>2, PutHas
            <6> QED
                BY <3>3, <3>5, <6>1
        <5> QED
            BY <5>1, <5>2
      <4> QED
        BY <2>1, <2>2, <2>5, <3>5, <4>1 DEF AgreesOn
    <3> QED
        BY <3>4, <3>5
  <2> QED
    BY <2>4, <2>5
<1> QED
    BY <1>1, <1>2

\* An answer of the endpoint, late or not, and its refusal.
LEMMA AgreeAuthorized ==
    ASSUME IInv, NEW s \in Sockets, NEW n \in Names, Alive(s), AgreesOn(s, n),
           NEW a \in auths, AuthAnswers(a) \/ AuthFails(a)
    PROVE  AgreesOn(s, n)'
<1> USE DEF IInv
<1>0. /\ None \notin Sockets /\ up[s] \in Seq(Requests) /\ denied \in [Sockets -> SUBSET Names]
      /\ a.socket \in Sockets /\ a.name \in Names /\ a.obj \in 1..MaxCalls /\ MaxCalls \in Nat
    BY BoundTyped DEF TypeOK, Auths
<1>1. <<>> \in Seq(Requests) /\ Quiet(<<>>, n)
    BY DEF Quiet
<1>2. auths' = auths \ {a} /\ UNCHANGED <<held, confirmed, sid, seats, down>>
    BY DEF AuthAnswers, AuthFails, page, link
<1>3. CASE AuthAnswers(a) /\ ~Current(a)
  <2>1. up' = up /\ denied' = denied
    BY <1>3 DEF AuthAnswers, history
  <2>2. sid = s => ~(a.name = n /\ a.socket = s /\ a.obj = held[n])
    BY <1>3 DEF Current
  <2>3. sid = s => \A c \in auths : c.name = n /\ c.socket = s /\ c.obj = held[n] => c \in auths'
    BY <1>2, <2>2
  <2> QED
    BY <1>1, <1>2, <2>1, <2>3, AgreeKept
<1>4. CASE AuthAnswers(a) /\ Current(a)
  <2> DEFINE x == Request("subscribe", a.name, a.socket)
  <2>1. x \in Requests /\ x.kind = "subscribe" /\ x.name = a.name
    BY <1>0, RequestsTyped
  <2>2. up' = [up EXCEPT ![sock] = Sent(sock, <<x>>)] /\ denied' = denied
    BY <1>4 DEF AuthAnswers, history
  <2> HIDE DEF x
  <2>3. /\ <<x>> \in Seq(Requests) /\ (n # a.name => Quiet(<<x>>, n))
        /\ Final(<<x>>, a.name, "subscribe")
    BY <2>1, SingleRequest
  <2>4. up'[s] = up[s] \o <<x>>
    BY <2>2, <2>3, Written
  <2>5. sid # None /\ held[a.name] # 0
    BY <1>0, <1>4 DEF Current
  <2>6. CASE n # a.name
    <3>1. \A c \in auths : c.name = n => c \in auths'
        BY <1>2, <2>6
    <3> QED
        BY <1>2, <2>2, <2>3, <2>4, <2>6, <3>1, AgreeKept
  <2>7. CASE n = a.name
    <3>1. Final(up'[s], n, "subscribe")
        BY <1>0, <2>3, <2>4, <2>7, PutFinal
    <3>2. \A k : Has(up[s], n, k) => Has(up'[s], n, k)
        BY <1>0, <2>3, <2>4, PutHas
    <3> QED
        BY <1>2, <2>2, <2>5, <2>7, <3>1, <3>2 DEF AgreesOn
  <2> QED
    BY <2>6, <2>7
<1>5. CASE AuthFails(a)
  <2>1. up' = up /\ denied' = [denied EXCEPT ![a.socket] = @ \union {a.name}]
    BY <1>5 DEF AuthFails, link
  <2>2. denied[s] \subseteq denied'[s] /\ (a.socket = s => a.name \in denied'[s])
    BY <1>0, <2>1
  <2>3. n \notin denied'[s] => \A c \in auths : c.name = n /\ c.socket = s => c \in auths'
    BY <1>2, <2>2
  <2> QED
    BY <1>1, <1>2, <2>1, <2>2, <2>3, AgreeKept
<1> QED
    BY <1>3, <1>4, <1>5

LEMMA AgreeStep ==
    ASSUME IInv, [Next]_vars, NEW s \in Sockets
    PROVE  AgreeOf(s)'
<1> SUFFICES ASSUME Alive(s)', NEW n \in Names
             PROVE  AgreesOn(s, n)'
    BY DEF AgreeOf
<1> USE DEF IInv
<1>0. /\ None \notin Sockets /\ status \in [Sockets -> {"none", "connecting", "open", "closing", "closed"}]
      /\ conn \in [Sockets -> {"none", "open", "gone"}]
      /\ down \in [Sockets -> Seq(Frames)] /\ up \in [Sockets -> Seq(Requests)] /\ up[s] \in Seq(Requests)
      /\ seats \in [Sockets -> SUBSET Names] /\ denied \in [Sockets -> SUBSET Names]
      /\ sock \in Sockets \union {None} /\ sid \in Sockets \union {None}
    BY BoundTyped DEF TypeOK
<1>1. sock' = s /\ status'[s] = "open" /\ conn'[s] = "open"
    BY DEF Alive
<1>2. Alive(s) => AgreesOn(s, n)
    BY DEF AgreeOf
<1>3. <<>> \in Seq(Requests) /\ Quiet(<<>>, n)
    BY DEF Quiet
<1>4. ASSUME Alive(s), UNCHANGED <<held, confirmed, sid, auths>>, up'[s] = up[s], down'[s] = down[s],
             seats'[s] = seats[s], denied'[s] = denied[s]
      PROVE  AgreesOn(s, n)'
    BY <1>2, <1>4 DEF AgreesOn
<1>5. ASSUME Connect \/ RetryFires
      PROVE  AgreesOn(s, n)'
  <2>1. UNCHANGED <<held, confirmed, sid, auths, down, conn, up, seats, denied>>
    BY <1>5, Opening
  <2>2. \/ UNCHANGED <<sock, status>>
        \/ /\ sock' \in Sockets
           /\ \E t \in Sockets : status' = [status EXCEPT ![t] = "connecting", ![sock'] = "connecting"]
    BY <1>5, Opening
  <2>3. Alive(s)
    BY <1>0, <1>1, <2>1, <2>2 DEF Alive
  <2> QED
    BY <1>4, <2>1, <2>3
<1>6. ASSUME Disconnect \/ PongFires
      PROVE  AgreesOn(s, n)'
  <2>1. sock' = sock /\ sock \in Sockets /\ status' = [status EXCEPT ![sock] = "closing"]
    BY <1>0, <1>1, <1>6, Closing
  <2> QED
    BY <1>0, <1>1, <2>1
<1>7. ASSUME NEW t \in Sockets, Receive(t)
      PROVE  AgreesOn(s, n)'
  <2>1. UNCHANGED <<held, sock, status, conn, seats, denied>> /\ down' = [down EXCEPT ![t] = Tail(down[t])]
    BY <1>7, ReceiveCases
  <2>2. Alive(s)
    BY <1>1, <2>1 DEF Alive
  <2>3. CASE s = t
    BY <1>2, <1>7, <2>2, <2>3, AgreeHeard
  <2>4. CASE s # t
    <3>1. ~Heard(t)
        BY <1>1, <2>1, <2>4 DEF Heard
    <3>2. UNCHANGED <<sid, confirmed, auths, up>>
        BY <1>7, <3>1, ReceiveCases
    <3>3. down'[s] = down[s]
        BY <1>0, <2>1, <2>4
    <3> QED
        BY <1>4, <2>1, <2>2, <3>2, <3>3
  <2> QED
    BY <2>3, <2>4
<1>8. ASSUME NEW t \in Sockets, Closed(t)
      PROVE  AgreesOn(s, n)'
  <2>1. /\ UNCHANGED <<held, conn, up, seats, denied>> /\ down' = [down EXCEPT ![t] = Tail(down[t])]
        /\ \/ /\ sock # t /\ status' = [status EXCEPT ![t] = "closed"]
              /\ UNCHANGED <<confirmed, sock, sid, auths>>
           \/ sock' = None
           \/ sock' \in Sockets /\ status'[sock'] = "connecting"
    <3>1. \A u \in Sockets : sock' \in Sockets =>
              [status EXCEPT ![t] = "closed", ![u] = "connecting", ![sock'] = "connecting"][sock'] = "connecting"
        BY <1>0
    <3>2. UNCHANGED <<held, conn, up, seats, denied>> /\ down' = [down EXCEPT ![t] = Tail(down[t])]
        BY <1>8, ClosedCases
    <3>3. \/ /\ sock # t /\ status' = [status EXCEPT ![t] = "closed"]
             /\ UNCHANGED <<confirmed, sock, sid, auths>>
          \/ sock' = None
          \/ /\ sock' \in Sockets
             /\ \E u \in Sockets :
                    status' = [status EXCEPT ![t] = "closed", ![u] = "connecting", ![sock'] = "connecting"]
        BY <1>8, ClosedCases
    <3> QED
        BY <3>1, <3>2, <3>3
  <2>2. ~(sock' \in Sockets /\ status'[sock'] = "connecting")
    BY <1>0, <1>1
  <2>3. /\ sock # t /\ status' = [status EXCEPT ![t] = "closed"]
        /\ UNCHANGED <<confirmed, sock, sid, auths>>
    BY <1>0, <1>1, <2>1, <2>2
  <2>4. s # t /\ sock = s
    BY <1>1, <2>3
  <2>5. down'[s] = down[s] /\ Alive(s)
    BY <1>0, <1>1, <2>1, <2>3, <2>4 DEF Alive
  <2> QED
    BY <1>4, <2>1, <2>3, <2>5
<1>9. ASSUME NEW t \in Sockets, Accept(t) \/ Refuse(t)
      PROVE  AgreesOn(s, n)'
  <2>1. /\ UNCHANGED <<held, confirmed, sock, sid, auths, up, seats, denied>>
        /\ status[t] = "connecting" /\ status' = [status EXCEPT ![t] = "open"]
        /\ \/ conn' = [conn EXCEPT ![t] = "open"] /\ down' = [down EXCEPT ![t] = <<Frame("established", None)>>]
           \/ /\ conn' = [conn EXCEPT ![t] = "gone"]
              /\ down' = [down EXCEPT ![t] = <<Frame("refused", None), Frame("close", None)>>]
    BY <1>9, Answering
  <2>2. CASE s # t
    <3>1. down'[s] = down[s] /\ status'[s] = status[s] /\ conn'[s] = conn[s]
        BY <1>0, <2>1, <2>2
    <3>2. Alive(s)
        BY <1>1, <2>1, <3>1 DEF Alive
    <3> QED
        BY <1>4, <2>1, <3>1, <3>2
  <2>3. CASE s = t
    <3>1. up[s] = <<>> /\ seats[s] = {} /\ sid # s
        BY <2>1, <2>3 DEF EarlyOf
    <3>2. up'[s] = <<>> /\ seats'[s] = {} /\ sid' # s
        BY <2>1, <3>1
    <3> QED
        BY <1>3, <3>2 DEF AgreesOn
  <2> QED
    BY <2>2, <2>3
<1>10. ASSUME NEW t \in Sockets, Serve(t)
      PROVE  AgreesOn(s, n)'
  <2>1. UNCHANGED <<held, confirmed, sock, sid, auths, status, conn>> /\ up' = [up EXCEPT ![t] = Tail(up[t])]
    BY <1>10, ServeCases
  <2>2. Alive(s)
    BY <1>1, <2>1 DEF Alive
  <2>3. CASE s = t
    BY <1>2, <1>10, <2>2, <2>3, AgreeServed
  <2>4. CASE s # t
    <3>1. up'[s] = up[s]
        BY <1>0, <2>1, <2>4
    <3>2. /\ seats' = seats \/ \E m \in Names : \/ seats' = [seats EXCEPT ![t] = @ \union {m}]
                                                \/ seats' = [seats EXCEPT ![t] = @ \ {m}]
          /\ denied' = denied \/ \E m \in Names : denied' = [denied EXCEPT ![t] = @ \union {m}]
          /\ down' = down \/ \E x : down' = [down EXCEPT ![t] = x]
        BY <1>10, ServeCases
    <3>3. seats'[s] = seats[s]
        BY <1>0, <2>4, <3>2
    <3>4. denied'[s] = denied[s]
        BY <1>0, <2>4, <3>2
    <3>5. down'[s] = down[s]
        BY <1>0, <2>4, <3>2
    <3> QED
        BY <1>4, <2>1, <2>2, <3>1, <3>3, <3>4, <3>5
  <2> QED
    BY <2>3, <2>4
<1>11. ASSUME NEW t \in Sockets, ServerCloses(t) \/ Drop(t) \/ Silence(t) \/ CloseCompletes(t)
      PROVE  AgreesOn(s, n)'
  <2>1. /\ UNCHANGED <<held, confirmed, sock, sid, auths, status, denied>>
        /\ conn' = [conn EXCEPT ![t] = "gone"] /\ up' = [up EXCEPT ![t] = <<>>] /\ seats' = [seats EXCEPT ![t] = {}]
        /\ \E x : down' = [down EXCEPT ![t] = x]
    BY <1>11, GoneCases
  <2>2. s # t
    BY <1>0, <1>1, <2>1
  <2>3. conn'[s] = conn[s] /\ up'[s] = up[s] /\ seats'[s] = seats[s] /\ down'[s] = down[s]
    BY <1>0, <2>1, <2>2
  <2>4. Alive(s)
    BY <1>1, <2>1, <2>3 DEF Alive
  <2> QED
    BY <1>4, <2>1, <2>3, <2>4
<1>12. ASSUME NEW m \in Names, Subscribe(m) \/ Unsubscribe(m)
      PROVE  AgreesOn(s, n)'
  <2>1. UNCHANGED <<sock, status, conn>>
    BY <1>12, Writing
  <2>2. Alive(s)
    BY <1>1, <2>1 DEF Alive
  <2> QED
    BY <1>2, <1>12, <2>2, AgreeCalled
<1>13. ASSUME NEW a \in auths, AuthAnswers(a) \/ AuthFails(a)
      PROVE  AgreesOn(s, n)'
  <2>1. UNCHANGED <<sock, status, conn>>
    BY <1>13 DEF AuthAnswers, AuthFails, link
  <2>2. Alive(s)
    BY <1>1, <2>1 DEF Alive
  <2> QED
    BY <1>2, <1>13, <2>2, AgreeAuthorized
<1>14. ASSUME ActivityFires
      PROVE  AgreesOn(s, n)'
  <2>1. UNCHANGED <<held, confirmed, sock, sid, auths, status, down, conn, seats, denied>>
    BY <1>14 DEF ActivityFires, page, history
  <2>2. Alive(s)
    BY <1>1, <2>1 DEF Alive
  <2> DEFINE x == Request("ping", None, None)
  <2>3. x \in Requests /\ x.kind = "ping"
    BY RequestsTyped
  <2>4. up' = [up EXCEPT ![sock] = Sent(sock, <<x>>)]
    BY <1>0, <1>1, <1>14, <2>1 DEF ActivityFires
  <2> HIDE DEF x
  <2>5. <<x>> \in Seq(Requests) /\ Quiet(<<x>>, n)
    BY <2>3, SingleRequest
  <2>6. up'[s] = up[s] \o <<x>>
    BY <2>2, <2>4, <2>5, Written
  <2> QED
    BY <1>2, <2>1, <2>2, <2>5, <2>6, AgreeKept
<1>15. ASSUME WindowPasses \/ UNCHANGED vars
      PROVE  AgreesOn(s, n)'
  <2>1. UNCHANGED <<held, confirmed, sock, sid, auths, status, down, conn, up, seats, denied>>
    BY <1>15 DEF WindowPasses, vars, page, link, history
  <2>2. Alive(s)
    BY <1>1, <2>1 DEF Alive
  <2> QED
    BY <1>4, <2>1, <2>2
<1> HIDE DEF IInv
<1>16. TypeOK
    BY DEF IInv
<1> QED
    BY <1>5, <1>6, <1>7, <1>8, <1>9, <1>10, <1>11, <1>12, <1>13, <1>14, <1>15, <1>16, StepCases

-----------------------------------------------------------------------------
(* What a socket said, and what it may be asked                            *)

LEMMA OutlivesStep ==
    ASSUME IInv, [Next]_vars
    PROVE  NothingOutlives'
<1> USE DEF IInv
<1>0. /\ None \notin Sockets /\ confirmed \in [Names -> Sockets \union {None}]
      /\ held \in [Names -> 0..MaxCalls] /\ MaxCalls \in Nat
    BY BoundTyped DEF TypeOK
<1>1. ASSUME UNCHANGED <<held, confirmed, sid>>
      PROVE  NothingOutlives'
    BY <1>1 DEF NothingOutlives
<1>2. ASSUME Connect \/ RetryFires \/ Disconnect \/ PongFires \/ ActivityFires \/ WindowPasses \/ UNCHANGED vars
      PROVE  UNCHANGED <<held, confirmed, sid>>
    BY <1>2 DEF Connect, RetryFires, Disconnect, PongFires, ActivityFires, WindowPasses, vars, page
<1>3. ASSUME NEW a \in auths, AuthAnswers(a) \/ AuthFails(a)
      PROVE  UNCHANGED <<held, confirmed, sid>>
    BY <1>3 DEF AuthAnswers, AuthFails, page
<1>4. ASSUME NEW s \in Sockets, Accept(s) \/ Refuse(s)
      PROVE  UNCHANGED <<held, confirmed, sid>>
    BY <1>4, Answering
<1>5. ASSUME NEW s \in Sockets, ServerCloses(s) \/ Drop(s) \/ Silence(s) \/ CloseCompletes(s)
      PROVE  UNCHANGED <<held, confirmed, sid>>
    BY <1>5, GoneCases
<1>6. ASSUME NEW s \in Sockets, Serve(s)
      PROVE  UNCHANGED <<held, confirmed, sid>>
    BY <1>6, ServeCases
<1>7. ASSUME NEW n \in Names, Subscribe(n)
      PROVE  NothingOutlives'
  <2>1. /\ held'[n] \in 1..MaxCalls /\ \A m \in Names : m # n => held'[m] = held[m]
        /\ UNCHANGED <<confirmed, sid>>
    BY <1>7, SubscribeEffect
  <2> QED
    BY <1>0, <2>1 DEF NothingOutlives
<1>8. ASSUME NEW n \in Names, Unsubscribe(n)
      PROVE  NothingOutlives'
    BY <1>0, <1>8 DEF Unsubscribe, NothingOutlives
<1>9. ASSUME NEW s \in Sockets, Closed(s)
      PROVE  NothingOutlives'
  <2>1. /\ held' = held
        /\ UNCHANGED <<confirmed, sid>> \/ confirmed' = [n \in Names |-> None]
    BY <1>9, ClosedCases
  <2> QED
    BY <2>1 DEF NothingOutlives
<1>10. ASSUME NEW s \in Sockets, Receive(s)
      PROVE  NothingOutlives'
  <2>1. held' = held /\ down[s] \in Seq(Frames) /\ down[s] # <<>>
    BY <1>10, ReceiveCases
  <2>2. CASE UNCHANGED <<sid, confirmed>>
    BY <1>1, <2>1, <2>2
  <2>3. CASE Established(s)
    <3>1. \A n \in Names : confirmed'[n] = None
        BY <2>3 DEF Established
    <3> QED
        BY <3>1 DEF NothingOutlives
  <2>4. CASE /\ Heard(s) /\ Head(down[s]).kind = "confirm" /\ Head(down[s]).name \in Names
             /\ confirmed' = IF held[Head(down[s]).name] = 0 THEN confirmed
                             ELSE [confirmed EXCEPT ![Head(down[s]).name] = s]
             /\ sid' = sid
    <3>1. Head(down[s]) = down[s][1] /\ 1 \in DOMAIN down[s]
        BY <2>1, TakenOff
    <3>2. sid = s
        BY <2>4, <3>1 DEF FirstOf, First, Heard
    <3> QED
        BY <1>0, <2>1, <2>4, <3>2 DEF NothingOutlives
  <2> QED
    BY <1>10, <2>2, <2>3, <2>4, ReceiveCases
<1> HIDE DEF IInv
<1>11. TypeOK
    BY DEF IInv
<1> QED
    BY <1>1, <1>2, <1>3, <1>4, <1>5, <1>6, <1>7, <1>8, <1>9, <1>10, <1>11, StepCases

\* Every signature in the queue is for socket s.
Signed(q, s) == \A i \in DOMAIN q : q[i].kind = "subscribe" => q[i].auth \in {s, None}

LEMMA SignedQueue ==
    ASSUME NEW T, NEW q \in Seq(T), NEW s, Signed(q, s)
    PROVE  /\ q # <<>> => Signed(Tail(q), s)
           /\ \A r \in Seq(T) : Signed(r, s) => Signed(q \o r, s)
<1>1. q # <<>> => Signed(Tail(q), s)
    BY TakenOff DEF Signed
<1>2. ASSUME NEW r \in Seq(T), Signed(r, s)
      PROVE  Signed(q \o r, s)
  <2>1. \A j \in DOMAIN (q \o r) : \/ j \in DOMAIN q /\ (q \o r)[j] = q[j]
                                   \/ j - Len(q) \in DOMAIN r /\ (q \o r)[j] = r[j - Len(q)]
    BY PutOn
  <2> QED
    BY <1>2, <2>1 DEF Signed
<1> QED
    BY <1>1, <1>2

\* What is written on the socket of the moment is for it.
LEMMA SignedWritten ==
    ASSUME TypeOK, SignedForItsSocket, ~bound.reentrant, sock \in Sockets, NEW r \in Seq(Requests), Signed(r, sock),
           up' = [up EXCEPT ![sock] = Sent(sock, r)], NEW s \in Sockets
    PROVE  Signed(up'[s], s)
<1>1. up \in [Sockets -> Seq(Requests)] /\ up[s] \in Seq(Requests) /\ Signed(up[s], s)
    BY DEF TypeOK, SignedForItsSocket, Signed
<1>2. CASE s # sock
    BY <1>1, <1>2
<1>3. CASE s = sock
  <2>1. up'[s] = Sent(s, r)
    BY <1>1, <1>3
  <2>2. Sent(s, r) = up[s] \/ Sent(s, r) = up[s] \o r
    BY Sends
  <2>3. Signed(up[s] \o r, s)
    BY <1>1, <1>3, SignedQueue
  <2> QED
    BY <1>1, <2>1, <2>2, <2>3
<1> QED
    BY <1>2, <1>3

LEMMA SignedStep ==
    ASSUME IInv, [Next]_vars
    PROVE  SignedForItsSocket'
<1> USE DEF IInv
<1>0. /\ None \notin Sockets /\ up \in [Sockets -> Seq(Requests)] /\ sock \in Sockets \union {None}
    BY BoundTyped DEF TypeOK
<1>1. ASSUME bound' = bound, ASSUME ~bound.reentrant, NEW s \in Sockets PROVE Signed(up'[s], s)
      PROVE  SignedForItsSocket'
    BY <1>1 DEF SignedForItsSocket, Signed
<1>2. \A s \in Sockets : ~bound.reentrant => Signed(up[s], s)
    BY DEF SignedForItsSocket, Signed
<1>3. ASSUME up' = up, bound' = bound
      PROVE  SignedForItsSocket'
    BY <1>1, <1>2, <1>3
<1>4. ASSUME sock \in Sockets, NEW r \in Seq(Requests), Signed(r, sock) \/ bound.reentrant,
             up' = [up EXCEPT ![sock] = Sent(sock, r)], bound' = bound
      PROVE  SignedForItsSocket'
  <2>1. ASSUME ~bound.reentrant, NEW s \in Sockets
        PROVE  Signed(up'[s], s)
    BY <1>4, <2>1, SignedWritten
  <2> QED
    BY <1>1, <1>4, <2>1
<1>5. ASSUME Connect \/ RetryFires
      PROVE  SignedForItsSocket'
    BY <1>3, <1>5, Opening
<1>6. ASSUME Disconnect \/ PongFires
      PROVE  SignedForItsSocket'
    BY <1>3, <1>6, Closing
<1>7. ASSUME (\E a \in auths : AuthFails(a)) \/ WindowPasses \/ UNCHANGED vars
      PROVE  SignedForItsSocket'
    BY <1>3, <1>7, Telling
<1>8. ASSUME ActivityFires
      PROVE  SignedForItsSocket'
  <2>1. bound' = bound
    BY <1>8 DEF ActivityFires, bounds
  <2>2. CASE ~(sock # None /\ status[sock] = "open")
    BY <1>3, <1>8, <2>1, <2>2 DEF ActivityFires
  <2>3. CASE sock # None /\ status[sock] = "open"
    <3>1. up' = [up EXCEPT ![sock] = Sent(sock, <<Request("ping", None, None)>>)]
        BY <1>8, <2>3 DEF ActivityFires
    <3>2. <<Request("ping", None, None)>> \in Seq(Requests) /\ Signed(<<Request("ping", None, None)>>, sock)
        BY RequestsTyped DEF Signed
    <3> QED
        BY <1>0, <1>4, <2>1, <2>3, <3>1, <3>2
  <2> QED
    BY <2>2, <2>3
<1>9. ASSUME NEW n \in Names, Subscribe(n)
      PROVE  SignedForItsSocket'
  <2>1. bound' = bound
    BY <1>9, SubscribeEffect
  <2>2. CASE up' = up
    BY <1>3, <2>1, <2>2
  <2>3. CASE sid # None /\ up' = [up EXCEPT ![sock] = Sent(sock, Subscriptions({n}))]
    <3>1. sock \in Sockets
        BY <1>0, <2>3 DEF AloneOK
    <3>2. Subscriptions({n}) \in Seq(Requests) /\ Signed(Subscriptions({n}), sock)
        BY SubscriptionsOf DEF Signed
    <3> QED
        BY <1>4, <2>1, <2>3, <3>1, <3>2
  <2> QED
    BY <1>9, <2>2, <2>3, SubscribeEffect
<1>10. ASSUME NEW n \in Names, Unsubscribe(n)
      PROVE  SignedForItsSocket'
  <2>1. bound' = bound
    BY <1>10 DEF Unsubscribe, Called
  <2>2. CASE sid = None
    BY <1>3, <1>10, <2>1, <2>2 DEF Unsubscribe
  <2>3. CASE sid # None
    <3>1. sock \in Sockets /\ up' = [up EXCEPT ![sock] = Sent(sock, <<Request("unsubscribe", n, None)>>)]
        BY <1>0, <1>10, <2>3 DEF AloneOK, Unsubscribe
    <3>2. <<Request("unsubscribe", n, None)>> \in Seq(Requests)
          /\ Signed(<<Request("unsubscribe", n, None)>>, sock)
        BY RequestsTyped DEF Signed
    <3> QED
        BY <1>4, <2>1, <3>1, <3>2
  <2> QED
    BY <2>2, <2>3
<1>11. ASSUME NEW a \in auths, AuthAnswers(a)
      PROVE  SignedForItsSocket'
  <2>1. bound' = bound
    BY <1>11 DEF AuthAnswers, bounds
  <2>2. CASE ~Current(a)
    BY <1>3, <1>11, <2>1, <2>2 DEF AuthAnswers
  <2>3. CASE Current(a)
    <3>1. a.socket \in Sockets /\ a.name \in Names
        BY DEF TypeOK, Auths
    <3>2. sid = a.socket /\ sock \in Sockets /\ (~bound.reentrant => sock = a.socket)
        BY <1>0, <2>3, <3>1 DEF AloneOK, Current
    <3>3. up' = [up EXCEPT ![sock] = Sent(sock, <<Request("subscribe", a.name, a.socket)>>)]
        BY <1>11, <2>3 DEF AuthAnswers
    <3>4. <<Request("subscribe", a.name, a.socket)>> \in Seq(Requests)
        BY <3>1, RequestsTyped
    <3>5. Signed(<<Request("subscribe", a.name, a.socket)>>, a.socket)
        BY RequestsTyped DEF Signed
    <3> QED
        BY <1>4, <2>1, <3>2, <3>3, <3>4, <3>5
  <2> QED
    BY <2>2, <2>3
<1>12. ASSUME NEW t \in Sockets, Receive(t)
      PROVE  SignedForItsSocket'
  <2>1. bound' = bound
    BY <1>12, ReceiveCases
  <2>2. CASE up' = up
    BY <1>3, <2>1, <2>2
  <2>3. CASE Heard(t) /\ Established(t)
    <3>1. sock \in Sockets /\ up' = [up EXCEPT ![sock] = Sent(sock, Subscriptions(Held))]
        BY <2>3 DEF Heard, Established
    <3>2. Held \subseteq Names
        BY DEF Held
    <3>3. Subscriptions(Held) \in Seq(Requests) /\ Signed(Subscriptions(Held), sock)
        BY <3>2, SubscriptionsOf DEF Signed
    <3> QED
        BY <1>4, <2>1, <3>1, <3>3
  <2> QED
    BY <1>12, <2>2, <2>3, ReceiveCases
<1>13. ASSUME NEW t \in Sockets, Closed(t)
      PROVE  SignedForItsSocket'
    BY <1>3, <1>13, ClosedCases
<1>14. ASSUME NEW t \in Sockets, Accept(t) \/ Refuse(t)
      PROVE  SignedForItsSocket'
    BY <1>3, <1>14, Answering
<1>15. ASSUME NEW t \in Sockets, Serve(t)
      PROVE  SignedForItsSocket'
  <2>1. bound' = bound /\ up[t] \in Seq(Requests) /\ up[t] # <<>> /\ up' = [up EXCEPT ![t] = Tail(up[t])]
    BY <1>15, ServeCases
  <2>2. ~bound.reentrant => Signed(Tail(up[t]), t)
    BY <1>2, <2>1, SignedQueue
  <2>3. ASSUME ~bound.reentrant, NEW s \in Sockets
        PROVE  Signed(up'[s], s)
    BY <1>0, <1>2, <2>1, <2>2, <2>3
  <2> QED
    BY <1>1, <2>1, <2>3
<1>16. ASSUME NEW t \in Sockets, ServerCloses(t) \/ Drop(t) \/ Silence(t) \/ CloseCompletes(t)
      PROVE  SignedForItsSocket'
  <2>1. bound' = bound /\ up' = [up EXCEPT ![t] = <<>>]
    BY <1>16, GoneCases
  <2>2. Signed(<<>>, t)
    BY DEF Signed
  <2>3. ASSUME ~bound.reentrant, NEW s \in Sockets
        PROVE  Signed(up'[s], s)
    BY <1>0, <1>2, <2>1, <2>2, <2>3
  <2> QED
    BY <1>1, <2>1, <2>3
<1> HIDE DEF IInv
<1>17. TypeOK
    BY DEF IInv
<1> QED
    BY <1>5, <1>6, <1>7, <1>8, <1>9, <1>10, <1>11, <1>12, <1>13, <1>14, <1>15, <1>16, <1>17, StepCases

-----------------------------------------------------------------------------
(* The theorems                                                            *)

LEMMA InitIInv == Init => IInv
<1> SUFFICES ASSUME Init PROVE IInv
    OBVIOUS
<1>1. MaxCalls \in Nat /\ bound \in BoundType /\ None \notin Sockets
    BY ClientAssumption DEF Init, Sockets
<1>2. bound.calls \in Nat /\ bound.faults \in Nat
    BY <1>1 DEF BoundType
<1>3. TypeOK
  <2>1. \A T : <<>> \in Seq(T)
    OBVIOUS
  <2>2. down \in [Sockets -> Seq(Frames)] /\ up \in [Sockets -> Seq(Requests)]
    BY <2>1 DEF Init
  <2>3. calls \in 0..bound.calls /\ faults \in 0..bound.faults
    BY <1>2 DEF Init
  <2>4. /\ held \in [Names -> 0..MaxCalls] /\ made \in [Names -> 0..MaxCalls]
        /\ confirmed \in [Names -> Sockets \union {None}]
    BY <1>1 DEF Init
  <2>5. /\ status \in [Sockets -> {"none", "connecting", "open", "closing", "closed"}]
        /\ silent \in [Sockets -> {"no", "early", "late"}] /\ conn \in [Sockets -> {"none", "open", "gone"}]
        /\ seats \in [Sockets -> SUBSET Names] /\ denied \in [Sockets -> SUBSET Names]
    BY DEF Init
  <2>6. /\ {wanted, activity, pong, recent} \subseteq BOOLEAN /\ state \in States
        /\ retry \in [handle : BOOLEAN, due : Nat] /\ (retry.handle => retry.due > 0)
        /\ sock \in Sockets \union {None} /\ sid \in Sockets \union {None}
        /\ auths \subseteq Auths /\ turned \subseteq Sockets /\ bound \in Bounds
    BY DEF Init, States
  <2> QED
    BY <2>2, <2>3, <2>4, <2>5, <2>6 DEF TypeOK
<1>4. MadeOK /\ AloneOK /\ NothingOutlives /\ SignedForItsSocket
    BY DEF Init, MadeOK, AloneOK, Alone, NothingOutlives, SignedForItsSocket
<1>5. ASSUME NEW s \in Sockets
      PROVE  EarlyOf(s) /\ FirstOf(s) /\ AgreeOf(s)
    BY <1>1, <1>5 DEF Init, EarlyOf, FirstOf, First, AgreeOf, Alive
<1> QED
    BY <1>3, <1>4, <1>5 DEF IInv

\* Every step keeps the invariant.
LEMMA NextIInv == IInv /\ [Next]_vars => IInv'
<1> SUFFICES ASSUME IInv, [Next]_vars PROVE IInv'
    OBVIOUS
<1>1. TypeOK' /\ MadeOK' /\ AloneOK' /\ NothingOutlives' /\ SignedForItsSocket'
    BY TypeStep, MadeStep, AloneStep, OutlivesStep, SignedStep
<1>2. ASSUME NEW s \in Sockets
      PROVE  EarlyOf(s)' /\ FirstOf(s)' /\ AgreeOf(s)'
    BY <1>2, EarlyStep, FirstStep, AgreeStep
<1> QED
    BY <1>1, <1>2 DEF IInv

LEMMA Invariant == Spec => []IInv
<1>1. Init => IInv
    BY InitIInv
<1>2. IInv /\ [Next]_vars => IInv'
    BY NextIInv
<1> QED
    BY <1>1, <1>2, PTL DEF Spec

\* The client is one connection, however the tasks of the browser interleave and
\* whatever the network does: one socket (joaju.js connect, _open, _retry), whose words
\* do not outlive it (_closed), and no subscription carries a signature that was asked
\* for another (_authorize).
THEOREM ConnectionIsOne == Spec => []OneConnection
<1>1. IInv => OneConnection
    BY DEF IInv, OneConnection, AloneOK, OneSocket
<1> QED
    BY <1>1, Invariant, PTL

\* Once nothing is on its way, the page and the server agree on every channel, however
\* subscribe, unsubscribe, the frames and the answers of the endpoint interleaved.
THEOREM PageAndServerAgree == Spec => []PageAgrees
<1>1. ASSUME IInv, AtRest
      PROVE  /\ seats[sid] \subseteq Held
             /\ Held \ seats[sid] \subseteq denied[sid]
             /\ \A n \in seats[sid] : confirmed[n] = sid
  <2>1. sid \in Sockets /\ Alive(sid)
    BY <1>1 DEF IInv, TypeOK, AtRest, Alive
  <2>2. \A n \in Names : AgreesOn(sid, n)
    BY <1>1, <2>1 DEF IInv, AgreeOf
  <2>3. \A n \in Names : \A k : ~Final(<<>>, n, k) /\ ~Has(<<>>, n, k)
    BY DEF Final, Has
  <2>4. up[sid] = <<>> /\ down[sid] = <<>> /\ \A a \in auths : a.socket # sid
    BY <1>1 DEF AtRest
  <2>5. seats[sid] \subseteq Names /\ Held \subseteq Names
    BY <1>1, <2>1 DEF IInv, TypeOK, Held
  <2>6. \A n \in Names : held[n] = 0 => n \notin seats[sid]
    BY <2>2, <2>3, <2>4 DEF AgreesOn
  <2>7. \A n \in Names : held[n] # 0 /\ n \notin denied[sid] => n \in seats[sid]
    BY <2>2, <2>3, <2>4 DEF AgreesOn
  <2>8. \A n \in Names : n \in seats[sid] => confirmed[n] = sid
    BY <2>2, <2>3, <2>4 DEF AgreesOn
  <2> QED
    BY <2>5, <2>6, <2>7, <2>8 DEF Held
<1>2. IInv => PageAgrees
    BY <1>1 DEF PageAgrees
<1> QED
    BY <1>2, Invariant, PTL

=============================================================================
