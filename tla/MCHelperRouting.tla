-------------------------- MODULE MCHelperRouting --------------------------
(* Finite instances of HelperRouting: wlan is strict at boot, eth is off   *)
(* or already loose.                                                       *)
EXTENDS HelperRouting, TLC

CONSTANTS wlan, eth, a, b

MCIfaces == {wlan, eth}
MCCidrs == {a, b}
MCOneCidr == {a}
MCBoot == (wlan :> Strict) @@ (eth :> 0)
CidrTaskSymmetry == Permutations(Cidrs) \cup Permutations(Tasks)
=============================================================================
