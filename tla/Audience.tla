------------------------------ MODULE Audience ------------------------------
(***************************************************************************)
(* What a process promises a publisher: for every channel name, the set of *)
(* sockets a publish on that name reaches. It changes one socket at a      *)
(* time, and only while that socket has an operation of its own under way: *)
(* a subscription, an unsubscription or its end. That channels are values  *)
(* made on the first subscription and dropped after the last, that a       *)
(* broker finds them and that goroutines race to do so, is invisible here. *)
(***************************************************************************)
CONSTANTS Sockets, Names

VARIABLES audience, busy

Init ==
    /\ audience = [n \in Names |-> {}]
    /\ busy = {}

Begin(s) ==
    /\ s \notin busy
    /\ busy' = busy \union {s}
    /\ UNCHANGED audience

End(s) ==
    /\ s \in busy
    /\ busy' = busy \ {s}
    /\ UNCHANGED audience

Enter(s, n) ==
    /\ s \in busy
    /\ s \notin audience[n]
    /\ audience' = [audience EXCEPT ![n] = @ \union {s}]
    /\ UNCHANGED busy

Exit(s, n) ==
    /\ s \in busy
    /\ s \in audience[n]
    /\ audience' = [audience EXCEPT ![n] = @ \ {s}]
    /\ UNCHANGED busy

Next == \E s \in Sockets :
    \/ Begin(s)
    \/ End(s)
    \/ \E n \in Names : Enter(s, n) \/ Exit(s, n)

Spec == Init /\ [][Next]_<<audience, busy>>

=============================================================================
