------------------------------ MODULE MCPoll ------------------------------
(* Instances of PollServer for TLC. *)
EXTENDS PollServer, SweepProps, TLC

\* Sound for invariants and action properties: the instances tell these
\* connections apart by nothing.
ConnSymmetry == Permutations(Conns \ (Abortive \cup Slow))
=============================================================================
