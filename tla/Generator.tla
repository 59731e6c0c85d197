------------------------------ MODULE Generator ------------------------------
(***************************************************************************)
(* The coroutines of coroutine/test.cc and the class task that drives      *)
(* them: a user resumes one by hand some times, then loops over it with a  *)
(* range-for, as main does at once, then may destroy it.                   *)
(***************************************************************************)
EXTENDS Integers, Sequences

CONSTANTS
  Starts,   \* the arguments of iota and printNumber
  Garbage,  \* what promise_type::value holds before it is assigned
  Banner,   \* the line that iota prints when it first runs
  Faults    \* "dangling": an iterator's handle, a reference to a parameter
            \* that is gone, may no longer lead to the coroutine

ASSUME GeneratorAssumption ==
  /\ Starts \subseteq Nat
  /\ Garbage \notin Int /\ Banner \notin Int /\ Garbage # Banner
  /\ Faults \subseteq {"dangling"}

VARIABLES
  coroutine,  \* which of the two was called
  argument,   \* with which argument
  frame,      \* where it is suspended
  left,       \* iota's value, printNumber's k - i
  value,      \* promise_type::value
  pc,         \* where the user is
  byHand,     \* how often resume was called and resumed
  printed     \* what the program has printed

call == <<coroutine, argument>>
body == <<frame, left, value, printed>>
vars == <<call, body, pc, byHand>>

Init ==
  /\ coroutine \in {"iota", "printNumber"}
  /\ argument \in Starts
  /\ frame = "initial"
  /\ left = argument
  /\ value = Garbage
  /\ pc = "before"
  /\ byHand = 0
  /\ printed = <<>>

Done == frame = "final"

-----------------------------------------------------------------------------
(* The coroutine, from one suspension to the next. *)

NotStored(v) == UNCHANGED value  \* variant: yield_value forgets its argument
Stored(v) == value' = v

\* co_yield value, or co_await suspend_always, which stores nothing.
Suspend(n) ==
  /\ frame' = "suspended"
  /\ IF coroutine = "iota" THEN Stored(n) ELSE UNCHANGED value

\* handle.resume(); of a coroutine that is done, it is undefined.
Resume ==
  LET n == IF frame = "initial" THEN left ELSE left - 1
  IN  /\ left' = n
      /\ printed' = IF coroutine = "iota" /\ frame = "initial"
                      THEN Append(printed, Banner) ELSE printed
      /\ \/ Done /\ frame' = "undefined" /\ UNCHANGED value
         \/ ~Done /\ n > 0 /\ Suspend(n)
         \/ ~Done /\ n = 0 /\ frame' = "final" /\ UNCHANGED value

-----------------------------------------------------------------------------
(* The user. *)

MayResumeAlways == TRUE  \* variant: task::resume does not ask for done
MayResume == ~Done

TaskResume ==
  /\ pc = "before"
  /\ MayResume
  /\ Resume
  /\ byHand' = byHand + 1
  /\ UNCHANGED <<call, pc>>

\* The loop starts: begin and end only copy the handle.
Begin ==
  /\ pc = "before"
  /\ pc' = "test"
  /\ UNCHANGED <<call, body, byHand>>

\* operator!=
Test ==
  /\ pc = "test"
  /\ pc' = IF Done THEN "over" ELSE "item"
  /\ UNCHANGED <<call, body, byHand>>

\* operator*, and the body of the loop.
PrintItem ==
  /\ pc = "item"
  /\ pc' = "next"
  /\ printed' = Append(printed, value)
  /\ UNCHANGED <<call, frame, left, value, byHand>>

\* operator++
Increment ==
  /\ pc = "next"
  /\ pc' = "test"
  /\ IF Done THEN UNCHANGED body ELSE Resume
  /\ UNCHANGED <<call, byHand>>

\* One of those three through a handle that leads elsewhere.
Dangle ==
  /\ "dangling" \in Faults
  /\ pc \in {"test", "item", "next"}
  /\ pc' = "crashed"
  /\ UNCHANGED <<call, body, byHand>>

Destroy ==
  /\ pc \in {"before", "over"}
  /\ pc' = "destroyed"
  /\ frame' = "freed"
  /\ UNCHANGED <<call, left, value, printed, byHand>>

Next ==
  \/ TaskResume \/ Begin \/ Test \/ PrintItem \/ Increment \/ Dangle \/ Destroy

Spec == Init /\ [][Next]_vars
=============================================================================
