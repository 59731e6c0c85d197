----------------------------- MODULE MCReactor -----------------------------
(* Instances of Reactor for TLC. *)
EXTENDS ReactorProps, TLC

\* Sound for invariants and action properties: the instances tell these
\* connections apart by nothing.
ConnSymmetry == Permutations(Conns \ (Abortive \cup Slow))
=============================================================================
