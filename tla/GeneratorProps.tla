---------------------------- MODULE GeneratorProps ----------------------------
(* What looping over a task prints. *)
EXTENDS Generator

\* The type of every variable; a coroutine that is done is never resumed.
TypeOK ==
  /\ coroutine \in {"iota", "printNumber"} /\ argument \in Starts
  /\ frame \in {"initial", "suspended", "final", "freed"}
  /\ left \in 0..argument
  /\ value \in 1..argument \cup {Garbage}
  /\ pc \in {"before", "test", "item", "next", "over", "crashed", "destroyed"}
  /\ byHand \in 0..(argument + 1)
  /\ printed \in Seq(1..argument \cup {Garbage, Banner})

\* What promise_type::value holds after n suspensions.
ValueAfter(n) ==
  IF n = 0 \/ coroutine = "printNumber" THEN Garbage ELSE argument + 1 - n

\* The line on which iota prints its own: in a loop, after the first item.
BannerLine ==
  IF coroutine = "printNumber" THEN 0 ELSE IF byHand > 0 THEN 1 ELSE 2

\* What a whole loop prints, the lines that iota printed before it included.
Line(i) ==
  IF i = BannerLine THEN Banner
  ELSE ValueAfter(byHand + i - (IF BannerLine \in 1..i THEN 2 ELSE 1))

Lines == argument + 1 - byHand + (IF coroutine = "iota" THEN 1 ELSE 0)

\* The loop reads value before it resumes, not after: main first prints an
\* item that nothing was assigned to and then every value that iota yields,
\* once and in order. A loop over a task resumed by hand before skips nothing
\* but what that passed, and a coroutine that yields no values prints only
\* items that were never assigned.
PrintsLate ==
  /\ Len(printed) <= Lines
  /\ \A i \in 1..Len(printed) : printed[i] = Line(i)
  /\ pc = "over" => Len(printed) = Lines

-----------------------------------------------------------------------------
(* The inductive invariant. *)

\* How often the coroutine was resumed.
Resumed == IF frame = "initial" THEN 0 ELSE argument + 1 - left

\* Which items a loop has printed follows from how often it resumed.
Items ==
  Resumed - byHand + (IF pc = "next" THEN 1 ELSE 0)

\* As long as the user goes on, value and what was printed follow from where
\* the coroutine stands.
InStep ==
  pc \notin {"crashed", "destroyed"} =>
    /\ frame # "freed"
    /\ frame = "initial" => left = argument
    /\ frame = "suspended" => left > 0
    /\ frame = "final" => left = 0
    /\ value = ValueAfter(IF frame = "final" THEN argument ELSE Resumed)
    /\ pc = "before" => Resumed = byHand
    /\ pc \in {"item", "next"} => ~Done
    /\ pc = "over" => Done
    /\ Resumed >= byHand
    /\ Len(printed) = Items + (IF coroutine = "iota" /\ Resumed > 0 THEN 1 ELSE 0)


IInv ==
  /\ TypeOK
  /\ InStep
  /\ PrintsLate
=============================================================================
