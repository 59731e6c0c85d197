------------------------------ MODULE MCSelect ------------------------------
(* Instances of SelectServer for TLC. *)
EXTENDS SelectProps, TLC

\* Sound for invariants and action properties: the instances tell these
\* connections apart by nothing.
ConnSymmetry == Permutations(Conns \ (Abortive \cup Slow))
=============================================================================
