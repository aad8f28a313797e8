---------------------------- MODULE MCResidency -----------------------------
(* A small montage for TLC: the display over the executor.                   *)
EXTENDS CommitProps, ResidencyProps, TLC

CONSTANTS a, b

TwoPlanes == {a, b}
Symmetry == Permutations(TwoPlanes)

(* One native cell, and a coarse one reduced from it.                        *)
TwoCells == {1, 2}
CoarseOfOne == 1 :> {} @@ 2 :> {1}
OneRung == {{1}, {2}}

(* One tile, or both: with a plane each, or showing the same.                *)
Some == {picture \in Pictures : DOMAIN picture = Tiles =>
           picture[1].plane # picture[2].plane \/ picture[1] = picture[2]}
=============================================================================
