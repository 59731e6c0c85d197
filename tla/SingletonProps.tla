--------------------------- MODULE SingletonProps ---------------------------
(* What get_Singleton promises threads that race for the reactor. *)
EXTENDS Singleton

Over == {"done", "threw"}

\* The type of every variable.
TypeOK ==
  /\ pc \in [Callers -> {"check", "lock", "recheck", "new", "fill", "unlock",
                         "return"} \cup Over]
  /\ singleton \in Callers \cup {Nobody}
  /\ init_mutex \in Callers \cup {Nobody}
  /\ built \subseteq made /\ made \subseteq Callers
  /\ got \in [Callers -> Callers \cup {Nobody}]

\* However the calls interleave, and though a call may run out of memory and
\* leave the next one to try again, at most one reactor is made, and every
\* call that returns gets that one.
OneReactor ==
  /\ \A s, t \in made : s = t
  /\ \A t \in Callers : pc[t] = "done" => got[t] \in made

\* A call returns a reactor that is not constructed yet only if the pointer was
\* stored early, and only while its maker is in the middle of it, holding the
\* lock that the caller did not ask for.
UnbuiltOnlyInRace ==
  \A t \in Callers :
    pc[t] = "done" /\ got[t] \notin built =>
      /\ "reorder" \in Faults
      /\ pc[got[t]] = "fill"
      /\ init_mutex = got[t]

-----------------------------------------------------------------------------
(* The inductive invariant: what the safety properties rest on. *)

Locked == {"recheck", "new", "fill", "unlock"}

\* Between the second test and the end of the scope a call is alone.
MutualExclusion == \A t \in Callers : pc[t] \in Locked <=> init_mutex = t

\* There is no reactor but the one pointed to, or the one being made.
MadeOnce ==
  /\ \A t \in made : singleton = t \/ (singleton = Nobody /\ pc[t] = "fill")
  /\ singleton # Nobody => singleton \in made
  /\ \A t \in Callers :
       /\ pc[t] = "new" => singleton = Nobody
       /\ pc[t] = "fill" => t \in made
       /\ pc[t] \in {"unlock", "return"} => singleton # Nobody
       /\ pc[t] = "done" => got[t] = singleton /\ singleton # Nobody

\* Only the reactor that is being filled can be unfinished, and it is not
\* pointed to before it is finished unless the store was moved up.
BuiltInOrder ==
  \A t \in made \ built :
    /\ pc[t] = "fill"
    /\ singleton = t => "reorder" \in Faults

IInv == TypeOK /\ MutualExclusion /\ MadeOnce /\ BuiltInOrder

-----------------------------------------------------------------------------
(* Liveness, under FairSpec. *)

\* Every call returns or throws, and no lock is left behind: the exception of
\* new releases it as well.
AllReturn ==
  \A t \in Callers : <>(pc[t] \in Over /\ init_mutex # t)
=============================================================================
