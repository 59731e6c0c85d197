----------------------------- MODULE MCGenerator -----------------------------
(* An instance of Generator for TLC. *)
EXTENDS GeneratorProps
=============================================================================
