------------------------------ MODULE Singleton ------------------------------
(***************************************************************************)
(* reactor::get_Singleton of reactor/reactor.hpp: a pointer that is looked *)
(* at without a lock, and again with it, before the one reactor is made.   *)
(***************************************************************************)
EXTENDS Naturals

CONSTANTS
  Callers,   \* calls of get_Singleton, each from a thread of its own
  Nobody,    \* no object, no holder of the lock
  Faults     \* what the unsynchronised reads and the allocation may do

(***************************************************************************)
(* "reorder"  the pointer is plain: it may be stored before the object it  *)
(*            points to is constructed                                     *)
(* "stale"    the first test may still see it null; what is returned after *)
(*            it is not older, being read from the same place later, or    *)
(*            after the lock was held                                      *)
(* "nomem"    new may throw                                                *)
(***************************************************************************)
ASSUME SingletonAssumption ==
  /\ Nobody \notin Callers
  /\ Faults \subseteq {"reorder", "stale", "nomem"}

VARIABLES
  pc,          \* pc[t]: where the call t is; at the end "done", or "threw"
  singleton,   \* the object pointed to; objects are named by who made them
  init_mutex,  \* the call that holds the lock
  built,       \* the objects whose constructor has run
  made,        \* history: the objects that were allocated
  got          \* got[t]: what t returned

vars == <<pc, singleton, init_mutex, built, made, got>>

Init ==
  /\ pc = [t \in Callers |-> "check"]
  /\ singleton = Nobody
  /\ init_mutex = Nobody
  /\ built = {}
  /\ made = {}
  /\ got = [t \in Callers |-> Nobody]

Goto(t, from, to) == pc[t] = from /\ pc' = [pc EXCEPT ![t] = to]

\* The first test.
Check(t) ==
  /\ \/ (singleton = Nobody \/ "stale" \in Faults) /\ Goto(t, "check", "lock")
     \/ singleton # Nobody /\ Goto(t, "check", "return")
  /\ UNCHANGED <<singleton, init_mutex, built, made, got>>

\* lock_guard
Lock(t) ==
  /\ init_mutex = Nobody
  /\ Goto(t, "lock", "recheck")
  /\ init_mutex' = t
  /\ UNCHANGED <<singleton, built, made, got>>

\* The second test, with the lock.
RecheckForgotten(t) == Goto(t, "recheck", "new")  \* variant
Recheck(t) == Goto(t, "recheck", IF singleton = Nobody THEN "new" ELSE "unlock")

RecheckStep(t) == Recheck(t) /\ UNCHANGED <<singleton, init_mutex, built, made, got>>

\* new reactor(): memory; without it the exception releases the lock.
Thrown(t) == Goto(t, "new", "threw") /\ init_mutex' = Nobody

New(t) ==
  /\ \/ Goto(t, "new", "fill") /\ made' = made \cup {t} /\ UNCHANGED init_mutex
     \/ "nomem" \in Faults /\ Thrown(t) /\ UNCHANGED made
  /\ UNCHANGED <<singleton, built, got>>

Construct(t) ==
  /\ pc[t] = "fill"
  /\ t \notin built
  /\ built' = built \cup {t}
  /\ UNCHANGED <<pc, singleton, init_mutex, made, got>>

Publish(t) ==
  /\ pc[t] = "fill"
  /\ singleton # t
  /\ t \in built \/ "reorder" \in Faults
  /\ singleton' = t
  /\ UNCHANGED <<pc, init_mutex, built, made, got>>

FilledEarly(t) == singleton = t  \* variant: the lock does not wait for the object
Filled(t) == singleton = t /\ t \in built

Finish(t) ==
  /\ Filled(t)
  /\ Goto(t, "fill", "unlock")
  /\ UNCHANGED <<singleton, init_mutex, built, made, got>>

\* The end of lock_guard's scope.
NotReleased(t) == UNCHANGED init_mutex  \* variant
Released(t) == init_mutex' = Nobody

Unlock(t) ==
  /\ Goto(t, "unlock", "return")
  /\ Released(t)
  /\ UNCHANGED <<singleton, built, made, got>>

Return(t) ==
  /\ Goto(t, "return", "done")
  /\ got' = [got EXCEPT ![t] = singleton]
  /\ UNCHANGED <<singleton, init_mutex, built, made>>

Step(t) ==
  \/ Check(t) \/ Lock(t) \/ RecheckStep(t) \/ New(t) \/ Construct(t)
  \/ Publish(t) \/ Finish(t) \/ Unlock(t) \/ Return(t)

Next == \E t \in Callers : Step(t)

Spec == Init /\ [][Next]_vars

\* Every thread that has entered get_Singleton is scheduled.
FairSpec == Spec /\ \A t \in Callers : WF_vars(Step(t))
=============================================================================
