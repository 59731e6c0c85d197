---------------------------- MODULE GeneratorProofs ----------------------------
(* Proofs about the coroutines and their user, for every argument. *)
EXTENDS GeneratorProps, TLAPS, SequenceTheorems

\* The typing facts that the steps below use most.
LEMMA Typing ==
  ASSUME TypeOK
  PROVE  /\ argument \in Nat /\ left \in Nat /\ byHand \in Nat /\ left <= argument
         /\ byHand <= argument + 1
         /\ Len(printed) \in Nat /\ printed \in Seq(1..argument \cup {Garbage, Banner})
         /\ Garbage # Banner /\ \A n \in Int : n # Garbage /\ n # Banner
         /\ coroutine = "iota" <=> coroutine # "printNumber"
<1>1. argument \in Nat
  BY GeneratorAssumption DEF TypeOK, GeneratorAssumption
<1>2. Len(printed) \in Nat /\ printed \in Seq(1..argument \cup {Garbage, Banner})
  BY LenProperties DEF TypeOK
<1>3. left \in 0..argument /\ byHand \in 0..(argument + 1)
  BY DEF TypeOK
<1>4. left \in Nat /\ byHand \in Nat /\ left <= argument /\ byHand <= argument + 1
  BY <1>1, <1>3
<1>5. Garbage # Banner /\ \A n \in Int : n # Garbage /\ n # Banner
  BY GeneratorAssumption DEF GeneratorAssumption
<1>6. coroutine = "iota" <=> coroutine # "printNumber"
  BY DEF TypeOK
<1> QED
  BY <1>1, <1>2, <1>4, <1>5, <1>6

\* What value holds is of its type.
LEMMA ValueTyped ==
  ASSUME TypeOK, NEW n \in 0..argument
  PROVE  ValueAfter(n) \in 1..argument \cup {Garbage}
BY Typing DEF ValueAfter

LEMMA InitInv == Init => IInv
<1> SUFFICES ASSUME Init PROVE IInv
  OBVIOUS
<1>1. argument \in Nat /\ coroutine \in {"iota", "printNumber"}
  BY GeneratorAssumption DEF Init, GeneratorAssumption
<1>2. printed = <<>> /\ Len(printed) = 0
  BY DEF Init
<1>3. TypeOK
  <2>1. argument \in 0..argument /\ 0 \in 0..(argument + 1)
    BY <1>1
  <2>2. printed \in Seq(1..argument \cup {Garbage, Banner})
    BY <1>2, EmptySeq
  <2> QED
    BY <1>1, <2>1, <2>2 DEF Init, TypeOK
<1>4. InStep
  <2>1. Resumed = 0 /\ Items = 0
    BY <1>1 DEF Init, Resumed, Items
  <2> QED
    BY <1>1, <1>2, <2>1 DEF Init, InStep, ValueAfter, Done
<1>5. PrintsLate
  <2>1. 0 <= Lines
    BY <1>1 DEF Init, Lines
  <2> QED
    BY <1>2, <2>1 DEF Init, PrintsLate
<1> QED
  BY <1>3, <1>4, <1>5 DEF IInv

\* What a resume of a coroutine that is not done changes: it counts, and value
\* and the frame follow.
LEMMA ResumeEffect ==
  ASSUME TypeOK, InStep, ~Done, pc \in {"before", "next"}, Resume, UNCHANGED call
  PROVE  /\ Resumed \in Nat /\ Resumed <= argument /\ Resumed' = Resumed + 1
         /\ frame' \in {"suspended", "final"} /\ left' \in 0..argument
         /\ frame' = "suspended" => left' > 0
         /\ frame' = "final" => left' = 0
         /\ value' = ValueAfter(IF frame' = "final" THEN argument ELSE Resumed + 1)
         /\ value' \in 1..argument \cup {Garbage}
         /\ printed' = IF coroutine = "iota" /\ Resumed = 0
                         THEN Append(printed, Banner) ELSE printed
<1>1. /\ argument \in Nat /\ left \in Nat /\ left <= argument
      /\ argument' = argument /\ coroutine' = coroutine
  BY Typing DEF call
<1>2. /\ (frame = "initial" /\ left = argument) \/ (frame = "suspended" /\ left > 0)
      /\ value = ValueAfter(Resumed)
  <2>1. frame \in {"initial", "suspended"}
    BY DEF InStep, TypeOK, Done
  <2> QED
    BY <2>1 DEF InStep
<1> DEFINE n == IF frame = "initial" THEN left ELSE left - 1
<1>3. n \in 0..argument /\ n \in Nat /\ Resumed = argument - n /\ left' = n
  BY <1>1, <1>2 DEF Resumed, Resume
<1> HIDE DEF n
<1>4. CASE n > 0
  <2>1. frame' = "suspended" /\ (IF coroutine = "iota" THEN Stored(n) ELSE UNCHANGED value)
    <3>1. Suspend(n)
      BY <1>3, <1>4 DEF Resume, n
    <3> QED
      BY <3>1 DEF Suspend
  <2>2. Resumed' = argument + 1 - n
    BY <1>1, <1>3, <2>1 DEF Resumed
  <2>3. value' = ValueAfter(Resumed + 1)
    <3>1. Resumed + 1 = argument + 1 - n /\ Resumed + 1 # 0
      BY <1>1, <1>3
    <3>2. CASE coroutine = "iota"
      BY <1>1, <1>3, <2>1, <3>1, <3>2 DEF Stored, ValueAfter
    <3>3. CASE coroutine = "printNumber"
      BY <1>2, <2>1, <3>3 DEF ValueAfter
    <3> QED
      BY <3>2, <3>3 DEF TypeOK
  <2>4. Resumed + 1 \in 0..argument
    BY <1>1, <1>3, <1>4
  <2>5. value' \in 1..argument \cup {Garbage}
    BY <2>3, <2>4, ValueTyped
  <2> QED
    BY <1>1, <1>2, <1>3, <1>4, <2>1, <2>2, <2>3, <2>5 DEF Resume, Resumed
<1>5. CASE n = 0
  <2>1. frame' = "final" /\ value' = value
    BY <1>3, <1>5 DEF Resume, n
  <2>2. Resumed = argument /\ Resumed' = argument + 1
    BY <1>1, <1>3, <1>5, <2>1 DEF Resumed
  <2> QED
    BY <1>1, <1>2, <1>3, <1>5, <2>1, <2>2 DEF Resume, Resumed, TypeOK
<1> QED
  BY <1>1, <1>3, <1>4, <1>5

LEMMA TaskResumeInv ==
  ASSUME IInv, TaskResume
  PROVE  IInv'
<1>1. /\ TypeOK /\ InStep /\ PrintsLate /\ pc = "before" /\ ~Done /\ Resume
      /\ UNCHANGED call /\ pc' = pc /\ byHand' = byHand + 1
      /\ argument' = argument /\ coroutine' = coroutine
  BY DEF IInv, TaskResume, MayResume, call
<1>2. /\ Resumed \in Nat /\ Resumed <= argument /\ Resumed' = Resumed + 1
      /\ frame' \in {"suspended", "final"} /\ left' \in 0..argument
      /\ frame' = "suspended" => left' > 0
      /\ frame' = "final" => left' = 0
      /\ value' = ValueAfter(IF frame' = "final" THEN argument ELSE Resumed + 1)
      /\ value' \in 1..argument \cup {Garbage}
      /\ printed' = IF coroutine = "iota" /\ Resumed = 0
                      THEN Append(printed, Banner) ELSE printed
  BY <1>1, ResumeEffect
<1>3. /\ Resumed = byHand /\ Items = 0
      /\ Len(printed) = Items + (IF coroutine = "iota" /\ Resumed > 0 THEN 1 ELSE 0)
  BY <1>1, <1>2, Typing DEF InStep, Items
<1>4. /\ Len(printed) = IF coroutine = "iota" /\ byHand > 0 THEN 1 ELSE 0
      /\ printed \in Seq(1..argument \cup {Garbage, Banner})
  BY <1>1, <1>3, Typing
<1>5. /\ Append(printed, Banner) \in Seq(1..argument \cup {Garbage, Banner})
      /\ Len(Append(printed, Banner)) = Len(printed) + 1
      /\ Append(printed, Banner)[Len(printed) + 1] = Banner
  <2> DEFINE Output == 1..argument \cup {Garbage, Banner}
  <2>1. printed \in Seq(Output) /\ Banner \in Output
    BY <1>4
  <2> HIDE DEF Output
  <2>2. /\ Append(printed, Banner) \in Seq(Output)
        /\ Len(Append(printed, Banner)) = Len(printed) + 1
        /\ Append(printed, Banner)[Len(printed) + 1] = Banner
    BY <2>1, AppendProperties
  <2> QED
    BY <2>2 DEF Output
<1>6. TypeOK'
  <2>1. byHand' \in 0..(argument + 1)
    BY <1>1, <1>2, <1>3, Typing
  <2> QED
    BY <1>1, <1>2, <1>4, <1>5, <2>1 DEF TypeOK
<1>7. Len(printed') = IF coroutine = "iota" THEN 1 ELSE 0
  BY <1>1, <1>2, <1>3, <1>4, <1>5, Typing
<1>8. InStep'
  <2>1. Items' = 0
    BY <1>1, <1>2, <1>3, Typing DEF Items
  <2>2. value' = ValueAfter(IF frame = "final" THEN argument ELSE Resumed)'
    BY <1>1, <1>2 DEF ValueAfter
  <2> QED
    BY <1>1, <1>2, <1>3, <1>7, <2>1, <2>2, Typing DEF InStep, Done
<1>9. PrintsLate'
  <2>1. coroutine = "iota" => printed'[1] = Banner
    <3>1. CASE byHand = 0
      BY <1>2, <1>3, <1>4, <1>5, <3>1
    <3>2. CASE byHand # 0
      <4>1. coroutine = "iota" => printed[1] = Line(1) /\ BannerLine = 1
        BY <1>1, <1>4, <3>2, Typing DEF PrintsLate, BannerLine
      <4> QED
        BY <1>2, <1>3, <3>2, <4>1 DEF Line
    <3> QED
      BY <3>1, <3>2
  <2>2. coroutine = "iota" => BannerLine' = 1
    BY <1>1, Typing DEF BannerLine
  <2>3. \A i \in 1..Len(printed') : i = 1 /\ coroutine = "iota"
    BY <1>7
  <2>4. \A i \in 1..Len(printed') : printed'[i] = Line(i)'
    BY <2>1, <2>2, <2>3 DEF Line
  <2>5. Len(printed') <= Lines'
    BY <1>1, <1>2, <1>3, <1>7, Typing DEF Lines
  <2> QED
    BY <1>1, <2>4, <2>5 DEF PrintsLate
<1> QED
  BY <1>6, <1>8, <1>9 DEF IInv

\* Printing one line more keeps what was printed before.
LEMMA OneLineMore ==
  ASSUME TypeOK, PrintsLate, NEW e \in 1..argument \cup {Garbage, Banner},
         printed' = Append(printed, e), e = Line(Len(printed) + 1),
         Len(printed) < Lines, UNCHANGED <<call, byHand>>, pc' # "over"
  PROVE  /\ PrintsLate' /\ Len(printed') = Len(printed) + 1
         /\ printed' \in Seq(1..argument \cup {Garbage, Banner})
<1>1. /\ Len(printed) \in Nat /\ Len(printed') = Len(printed) + 1
      /\ printed' \in Seq(1..argument \cup {Garbage, Banner})
      /\ \A i \in 1..Len(printed') :
           printed'[i] = IF i = Len(printed) + 1 THEN e ELSE printed[i]
  BY Typing, AppendProperties
<1>2. Lines' = Lines /\ \A i \in 1..Len(printed') : Line(i)' = Line(i)
  BY DEF Lines, Line, BannerLine, ValueAfter, call
<1>3. \A i \in 1..Len(printed') : printed'[i] = Line(i)
  BY <1>1 DEF PrintsLate
<1>4. Len(printed') <= Lines'
  BY <1>1, <1>2, Typing DEF Lines
<1> QED
  BY <1>1, <1>2, <1>3, <1>4 DEF PrintsLate

\* A step of the user that neither resumes nor prints.
LEMMA QuietStep ==
  ASSUME IInv, UNCHANGED <<call, left, value, printed, byHand>>,
         \/ /\ UNCHANGED frame
            /\ \/ pc = "before" /\ pc' = "test"
               \/ pc = "test" /\ pc' = "over" /\ Done
               \/ pc = "test" /\ pc' = "item" /\ ~Done
               \/ pc' = "crashed"
               \/ pc' = pc
         \/ frame' = "freed" /\ pc' = "destroyed"
  PROVE  IInv'
<1>1. TypeOK /\ InStep /\ PrintsLate /\ argument' = argument /\ coroutine' = coroutine
  BY DEF IInv, call
<1>2. TypeOK'
  BY <1>1 DEF TypeOK
<1>3. InStep'
  BY <1>1, Typing DEF InStep, Items, Resumed, ValueAfter, Done
<1>4. PrintsLate'
  <2>1. Lines' = Lines /\ \A i \in 1..Len(printed) : Line(i)' = Line(i)
    BY <1>1 DEF Lines, Line, BannerLine, ValueAfter
  <2>2. pc' = "over" => Len(printed) = Lines
    <3>1. CASE pc = "test" /\ Done
      BY <1>1, <3>1, Typing DEF InStep, Items, Resumed, Lines, Done
    <3> QED
      BY <1>1, <3>1 DEF PrintsLate
  <2> QED
    BY <1>1, <2>1, <2>2 DEF PrintsLate
<1> QED
  BY <1>2, <1>3, <1>4 DEF IInv

\* The item that is printed is what value held before the next resume.
LEMMA PrintItemInv ==
  ASSUME IInv, PrintItem
  PROVE  IInv'
<1>1. /\ TypeOK /\ InStep /\ PrintsLate /\ pc = "item" /\ pc' = "next" /\ ~Done
      /\ UNCHANGED <<call, frame, left, value, byHand>> /\ printed' = Append(printed, value)
      /\ argument' = argument /\ coroutine' = coroutine
  BY DEF IInv, PrintItem, InStep, call
<1>2. /\ Resumed \in Nat /\ Resumed <= argument /\ byHand <= Resumed
      /\ value = ValueAfter(Resumed) /\ value \in 1..argument \cup {Garbage, Banner}
      /\ frame # "freed"
      /\ Len(printed) = Resumed - byHand
                          + (IF coroutine = "iota" /\ Resumed > 0 THEN 1 ELSE 0)
  BY <1>1, Typing DEF InStep, Items, Resumed, Done, TypeOK
<1>3. Len(printed) < Lines
  BY <1>2, Typing, <1>1 DEF Lines
<1>4. value = Line(Len(printed) + 1)
  <2>1. CASE coroutine = "printNumber"
    BY <1>1, <1>2, <2>1, Typing DEF Line, BannerLine, ValueAfter
  <2>2. CASE coroutine = "iota" /\ Resumed = 0
    BY <1>1, <1>2, <2>2, Typing DEF Line, BannerLine
  <2>3. CASE coroutine = "iota" /\ Resumed > 0
    <3>1. /\ Len(printed) + 1 = Resumed - byHand + 2
          /\ BannerLine = IF byHand > 0 THEN 1 ELSE 2
      BY <1>1, <1>2, <2>3, Typing DEF BannerLine
    <3>2. /\ BannerLine # Len(printed) + 1 /\ BannerLine \in 1..(Len(printed) + 1)
          /\ byHand + (Len(printed) + 1) - 2 = Resumed
      BY <1>1, <1>2, <2>3, <3>1, Typing
    <3> QED
      BY <1>2, <3>2 DEF Line
  <2> QED
    BY <1>1, <1>2, <2>1, <2>2, <2>3, Typing
<1>5. /\ PrintsLate' /\ Len(printed') = Len(printed) + 1
      /\ printed' \in Seq(1..argument \cup {Garbage, Banner})
  BY <1>1, <1>2, <1>3, <1>4, OneLineMore
<1>6. TypeOK'
  BY <1>1, <1>5 DEF TypeOK
<1>7. InStep'
  <2>1. Resumed' = Resumed /\ Items' = Resumed - byHand + 1
    BY <1>1 DEF Resumed, Items
  <2>2. value' = ValueAfter(IF frame = "final" THEN argument ELSE Resumed)'
    BY <1>1, <1>2, <2>1 DEF ValueAfter, Done
  <2> QED
    BY <1>1, <1>2, <1>5, <2>1, <2>2, Typing DEF InStep, Done
<1> QED
  BY <1>5, <1>6, <1>7 DEF IInv

\* A loop resumes between two items; iota prints its own line the first time.
LEMMA IncrementInv ==
  ASSUME IInv, Increment
  PROVE  IInv'
<1>1. /\ TypeOK /\ InStep /\ PrintsLate /\ pc = "next" /\ pc' = "test" /\ ~Done /\ Resume
      /\ UNCHANGED <<call, byHand>>
      /\ argument' = argument /\ coroutine' = coroutine /\ byHand' = byHand
  BY DEF IInv, Increment, InStep, call
<1>2. /\ Resumed \in Nat /\ Resumed <= argument /\ Resumed' = Resumed + 1
      /\ frame' \in {"suspended", "final"} /\ left' \in 0..argument
      /\ frame' = "suspended" => left' > 0
      /\ frame' = "final" => left' = 0
      /\ value' = ValueAfter(IF frame' = "final" THEN argument ELSE Resumed + 1)
      /\ value' \in 1..argument \cup {Garbage}
      /\ printed' = IF coroutine = "iota" /\ Resumed = 0
                      THEN Append(printed, Banner) ELSE printed
  BY <1>1, ResumeEffect
<1>3. /\ byHand <= Resumed
      /\ Len(printed) = Resumed - byHand + 1
                          + (IF coroutine = "iota" /\ Resumed > 0 THEN 1 ELSE 0)
  BY <1>1, <1>2, Typing DEF InStep, Items
<1>4. /\ PrintsLate' /\ printed' \in Seq(1..argument \cup {Garbage, Banner})
      /\ Len(printed') = Len(printed)
                           + (IF coroutine = "iota" /\ Resumed = 0 THEN 1 ELSE 0)
  <2>1. CASE coroutine = "iota" /\ Resumed = 0
    <3>1. byHand = 0 /\ Len(printed) = 1 /\ Lines = argument + 2
      BY <1>2, <1>3, <2>1, Typing, <1>1 DEF Lines
    <3>2. Banner = Line(Len(printed) + 1) /\ Len(printed) < Lines
      BY <1>1, <2>1, <3>1, Typing DEF Line, BannerLine
    <3> QED
      BY <1>1, <1>2, <2>1, <3>2, OneLineMore
  <2>2. CASE ~(coroutine = "iota" /\ Resumed = 0)
    <3>1. Lines' = Lines /\ \A i \in 1..Len(printed) : Line(i)' = Line(i)
      BY <1>1 DEF Lines, Line, BannerLine, ValueAfter
    <3> QED
      BY <1>1, <1>2, <2>2, <3>1, Typing DEF PrintsLate
  <2> QED
    BY <2>1, <2>2
<1>5. TypeOK'
  BY <1>1, <1>2, <1>4 DEF TypeOK
<1>6. InStep'
  <2>1. Items' = Resumed + 1 - byHand
    BY <1>1, <1>2, Typing DEF Items
  <2>2. value' = ValueAfter(IF frame = "final" THEN argument ELSE Resumed)'
    BY <1>1, <1>2 DEF ValueAfter
  <2>3. Len(printed') = Items'
                          + (IF coroutine = "iota" /\ Resumed + 1 > 0 THEN 1 ELSE 0)
    BY <1>1, <1>2, <1>3, <1>4, <2>1, Typing
  <2> QED
    BY <1>1, <1>2, <1>3, <2>2, <2>3, Typing DEF InStep, Done
<1> QED
  BY <1>4, <1>5, <1>6 DEF IInv

\* IInv is an inductive invariant of the coroutines and their user.
THEOREM Invariance == Spec => []IInv
<1>1. ASSUME IInv, [Next]_vars PROVE IInv'
  <2>1. CASE Begin \/ Test
    BY <1>1, <2>1, QuietStep DEF Begin, Test, body, IInv
  <2>2. CASE Dangle \/ Destroy
    BY <1>1, <2>2, QuietStep DEF Dangle, Destroy, body
  <2>3. CASE UNCHANGED vars
    BY <1>1, <2>3, QuietStep DEF vars, body
  <2> QED
    BY <1>1, <2>1, <2>2, <2>3, TaskResumeInv, PrintItemInv, IncrementInv DEF Next
<1> QED
  BY <1>1, InitInv, PTL DEF Spec

\* Every variable keeps its type: a coroutine that is done is never resumed.
THEOREM TypeCorrect == Spec => []TypeOK
<1>1. IInv => TypeOK
  BY DEF IInv
<1> QED
  BY <1>1, Invariance, PTL

\* A loop over a task prints each value once and in order, one late.
THEOREM PrintsLateHolds == Spec => []PrintsLate
<1>1. IInv => PrintsLate
  BY DEF IInv
<1> QED
  BY <1>1, Invariance, PTL
=============================================================================
