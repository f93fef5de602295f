------------------------------ MODULE MCServer ------------------------------
(* Server for TLC.                                                          *)
EXTENDS Server, TLC

SocketSymmetry == Permutations(Sockets)

OneTenant == [s \in Sockets |-> CHOOSE t \in Tenants : TRUE]

OneSubject == [s \in Sockets |-> CHOOSE u \in Subjects : TRUE]
=============================================================================
