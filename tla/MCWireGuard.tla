---------------------------- MODULE MCWireGuard ----------------------------
(* WireGuard on a small instance: the clients are interchangeable.         *)
EXTENDS WireGuard, TLC

\* A request may bring an address with the index of one subnet in another one.
OneBrought == {[index |-> 0, subnet |-> 1]}

ClientSymmetry == Permutations(Peers)
=============================================================================
