------------------------------- MODULE MCSync -------------------------------
(* Small instances of linked windows for TLC.                                *)
EXTENDS SyncProps, TLC

CONSTANTS w1, w2, w3

ThreeWindows == {w1, w2, w3}
TwoWindows == {w1, w2}
Symmetry == Permutations(ThreeWindows)
=============================================================================
