-------------------------- MODULE SingletonProofs --------------------------
(***************************************************************************)
(* Proofs about get_Singleton, for any number of threads.                  *)
(***************************************************************************)
EXTENDS SingletonProps, TLAPS

LEMMA InitIInv == Init => IInv
BY SingletonAssumption
DEF Init, IInv, TypeOK, MutualExclusion, MadeOnce, BuiltInOrder, Over, Locked,
    SingletonAssumption

LEMMA StepIInv ==
  ASSUME IInv, NEW t \in Callers, Step(t)
  PROVE  IInv'
<1> USE DEF IInv, TypeOK, MutualExclusion, MadeOnce, BuiltInOrder, Over, Locked, Goto
<1>0. t # Nobody
  BY SingletonAssumption
<1>1. CASE Check(t)
  BY <1>1 DEF Check
<1>2. CASE Lock(t)
  <2>1. TypeOK'
    BY <1>2 DEF Lock
  <2>2. MutualExclusion'
    <3>1. \A s \in Callers : s # t => pc'[s] = pc[s]
      BY <1>2 DEF Lock
    <3>2. ASSUME NEW s \in Callers PROVE (pc'[s] \in Locked) <=> init_mutex' = s
      <4>1. CASE s = t
        BY <1>0, <1>2, <4>1 DEF Lock
      <4>2. CASE s # t
        BY <1>0, <1>2, <3>1, <4>2, SingletonAssumption DEF Lock
      <4> QED
        BY <4>1, <4>2
    <3> QED
      BY <3>2
  <2>3. MadeOnce' /\ BuiltInOrder'
    BY <1>0, <1>2 DEF Lock
  <2> QED
    BY <2>1, <2>2, <2>3
<1>3. CASE RecheckStep(t)
  BY <1>3 DEF RecheckStep, Recheck
<1>4. CASE New(t)
  <2>1. TypeOK'
    BY <1>4 DEF New, Thrown
  <2>2. MutualExclusion'
    <3>1. \A s \in Callers : s # t => pc'[s] = pc[s]
      BY <1>4 DEF New, Thrown
    <3>2. ASSUME NEW s \in Callers PROVE (pc'[s] \in Locked) <=> init_mutex' = s
      <4>1. CASE s = t
        BY <1>0, <1>4, <4>1 DEF New, Thrown
      <4>2. CASE s # t
        BY <1>0, <1>4, <3>1, <4>2, SingletonAssumption DEF New, Thrown
      <4> QED
        BY <4>1, <4>2
    <3> QED
      BY <3>2
  <2>3. MadeOnce' /\ BuiltInOrder'
    BY <1>0, <1>4 DEF New, Thrown
  <2> QED
    BY <2>1, <2>2, <2>3
<1>5. CASE Construct(t)
  BY <1>5 DEF Construct
<1>6. CASE Publish(t)
  <2>1. TypeOK' /\ MutualExclusion'
    BY <1>0, <1>6 DEF Publish
  <2>2. MadeOnce'
    <3>1. t \in made /\ singleton = Nobody /\ pc' = pc /\ singleton' = t
      BY <1>0, <1>6 DEF Publish
    <3>2. init_mutex = t
      BY <1>6 DEF Publish
    <3>3. \A s \in Callers : pc[s] \in Locked => s = t
      BY <3>2
    <3>4. \A s \in made : s = t
      <4> SUFFICES ASSUME NEW s \in made PROVE s = t
        OBVIOUS
      <4>1. s \in Callers /\ s # Nobody
        BY SingletonAssumption
      <4>2. pc[s] = "fill"
        BY <3>1, <4>1
      <4> QED
        BY <3>3, <4>1, <4>2
    <3>5. \A s \in Callers : pc[s] \notin {"new", "unlock", "return", "done"}
      BY <1>6, <3>1, <3>3 DEF Publish
    <3> QED
      BY <1>0, <1>6, <3>1, <3>4, <3>5 DEF Publish
  <2>3. BuiltInOrder'
    BY <1>0, <1>6 DEF Publish
  <2> QED
    BY <2>1, <2>2, <2>3
<1>7. CASE Finish(t)
  BY <1>0, <1>7 DEF Finish, Filled
<1>8. CASE Unlock(t)
  <2>1. TypeOK'
    BY <1>8 DEF Unlock, Released
  <2>2. MutualExclusion'
    <3>1. \A s \in Callers : s # t => pc'[s] = pc[s]
      BY <1>8 DEF Unlock, Released
    <3>2. ASSUME NEW s \in Callers PROVE (pc'[s] \in Locked) <=> init_mutex' = s
      <4>1. CASE s = t
        BY <1>0, <1>8, <4>1 DEF Unlock, Released
      <4>2. CASE s # t
        BY <1>0, <1>8, <3>1, <4>2, SingletonAssumption DEF Unlock, Released
      <4> QED
        BY <4>1, <4>2
    <3> QED
      BY <3>2
  <2>3. MadeOnce' /\ BuiltInOrder'
    BY <1>0, <1>8 DEF Unlock, Released
  <2> QED
    BY <2>1, <2>2, <2>3
<1>9. CASE Return(t)
  BY <1>9 DEF Return
<1> QED
  BY <1>1, <1>2, <1>3, <1>4, <1>5, <1>6, <1>7, <1>8, <1>9 DEF Step

\* IInv is an inductive invariant of get_Singleton.
THEOREM Invariance == Spec => []IInv
<1>1. IInv /\ [Next]_vars => IInv'
  <2> SUFFICES ASSUME IInv, [Next]_vars PROVE IInv'
    OBVIOUS
  <2>1. ASSUME NEW t \in Callers, Step(t) PROVE IInv'
    BY <2>1, StepIInv
  <2>2. CASE UNCHANGED vars
    BY <2>2 DEF vars, IInv, TypeOK, MutualExclusion, MadeOnce, BuiltInOrder
  <2> QED
    BY <2>1, <2>2 DEF Next
<1> QED
  BY <1>1, InitIInv, PTL DEF Spec

\* At most one reactor is made, and every call that returns gets it.
THEOREM OneReactorHolds == Spec => []OneReactor
<1>1. IInv => OneReactor
  BY SingletonAssumption DEF IInv, TypeOK, MutualExclusion, MadeOnce, OneReactor, Locked
<1> QED
  BY <1>1, Invariance, PTL

\* A reactor is handed out unfinished only while its maker holds the lock, and
\* never in a build that does not move the store of the pointer up.
THEOREM UnbuiltHolds == Spec => []UnbuiltOnlyInRace
<1>1. IInv => UnbuiltOnlyInRace
  BY DEF IInv, TypeOK, MutualExclusion, MadeOnce, BuiltInOrder, UnbuiltOnlyInRace, Locked
<1> QED
  BY <1>1, Invariance, PTL
=============================================================================
