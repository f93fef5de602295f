------------------------------- MODULE Fanout -------------------------------
(***************************************************************************)
(* What a fleet promises a publisher. An event is handed to an instance at *)
(* most once; it then reaches every socket that instance holds on the      *)
(* event's channel, save the one the publisher excluded, and nobody else.  *)
(* An event may never be handed to an instance: the bus is allowed to lose *)
(* it. Topics, listeners, retries and the copies the bus hands back to the *)
(* instance that sent them are invisible here.                             *)
(***************************************************************************)
CONSTANTS Instances, Names, Sockets, Home, Events, None

VARIABLES on, published, handed, got

Init ==
    /\ on = [s \in Sockets |-> {}]
    /\ published = [e \in Events |-> None]
    /\ handed = [e \in Events |-> {}]
    /\ got = [s \in Sockets |-> {}]

Enter(s, n) ==
    /\ on' = [on EXCEPT ![s] = @ \union {n}]
    /\ UNCHANGED <<published, handed, got>>

Exit(s, n) ==
    /\ on' = [on EXCEPT ![s] = @ \ {n}]
    /\ UNCHANGED <<published, handed, got>>

\* Who gets an event when it is handed to an instance.
Recipients(what, i) ==
    {s \in Sockets : Home[s] = i /\ what.channel \in on[s] /\ s # what.socket}

Hand(e, what, i) ==
    /\ i \notin handed[e]
    /\ handed' = [handed EXCEPT ![e] = @ \union {i}]
    /\ got' = [s \in Sockets |-> IF s \in Recipients(what, i) THEN got[s] \union {e} ELSE got[s]]

\* The instance the event enters the fleet at hands it to its own sockets.
Publish(e, i) ==
    /\ published[e] = None
    /\ \E n \in Names, x \in Sockets \union {None} :
        /\ published' = [published EXCEPT ![e] = [channel |-> n, socket |-> x]]
        /\ Hand(e, [channel |-> n, socket |-> x], i)
    /\ UNCHANGED on

Relayed(e, i) ==
    /\ published[e] # None
    /\ Hand(e, published[e], i)
    /\ UNCHANGED <<on, published>>

Next ==
    \/ \E s \in Sockets, n \in Names : Enter(s, n) \/ Exit(s, n)
    \/ \E e \in Events, i \in Instances : Publish(e, i) \/ Relayed(e, i)

Spec == Init /\ [][Next]_<<on, published, handed, got>>

=============================================================================
