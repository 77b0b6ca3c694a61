-------------------------- MODULE MCHelperFirewall --------------------------
(* Finite instances of HelperFirewall for TLC. *)
EXTENDS HelperFirewall, TLC

CallSymmetry == Permutations(Calls)
CallClientSymmetry == Permutations(Calls) \cup Permutations(Clients)
=============================================================================
