------------------------------ MODULE MCPusher ------------------------------
(* Instances of Pusher for TLC.                                            *)
EXTENDS Pusher, TLC

\* Socket ids and channel values are only compared for equality.
Symmetry == Permutations(Sockets) \union Permutations(Objects)

=============================================================================
