----------------------------- MODULE MCProactor -----------------------------
(* Instances of Proactor for TLC. *)
EXTENDS ProactorProps, TLC

\* Sound for invariants and action properties: the instances tell these
\* connections apart by nothing.
ConnSymmetry == Permutations(Conns \ (Abortive \cup Slow))
=============================================================================
