----------------------------- MODULE MCBypassSync -----------------------------
EXTENDS BypassSync, TLC

CONSTANTS c1, c2, l1, l2, b1, b2

BypassSymmetry == Permutations(Cidrs) \cup Permutations(Links) \cup Permutations(Pushes)
=============================================================================
