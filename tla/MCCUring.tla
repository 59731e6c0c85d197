------------------------------ MODULE MCCUring ------------------------------
(* Instances of CUring for TLC. *)
EXTENDS CUringProps, TLC

\* Sound for invariants and action properties: the instances tell these
\* connections apart by nothing.
ConnSymmetry == Permutations(Conns \ (Abortive \cup Slow))
=============================================================================
