---------------------------- MODULE MCSingleton ----------------------------
(* Instances of Singleton for TLC. *)
EXTENDS SingletonProps
=============================================================================
