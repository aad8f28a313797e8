------------------------------- MODULE MCPool -------------------------------
(* Small instances of the compute pool for TLC: threads are interchangeable. *)
EXTENDS PoolProps, TLC

CONSTANTS t1, t2

OneThread == {t1}
TwoThreads == {t1, t2}
Symmetry == Permutations(TwoThreads)
=============================================================================
