------------------------------ MODULE UringLoop ------------------------------
(***************************************************************************)
(* The loop around the rings that the two io_uring servers have in common: *)
(* submit, wait, peek at a batch of completions, handle them, free them.   *)
(* What handling a completion does is for each server to say.              *)
(***************************************************************************)
EXTENDS Uring

VARIABLES
  pc,         \* where the loop is; "crashed", or "nosqe" for a full ring, if it is no more
  nready,     \* completions in the batch being handled
  i           \* completions of the batch handled so far

batchVars == <<nready, i>>
loopVars == <<pc, batchVars>>

Running == pc \notin {"boot", "crashed", "nosqe"}

LoopTypeOK ==
  /\ pc \in {"boot", "submit", "wait", "handle", "crashed", "nosqe"}
  /\ nready \in 0..CqBatch /\ i \in 0..nready

LoopInit == pc = "boot" /\ nready = 0 /\ i = 0

-----------------------------------------------------------------------------

\* Without room the entry is NULL, and written to.
Prepare(sqes) ==
  \/ Queue(sqes) /\ UNCHANGED pc
  \/ SqFull(sqes) /\ pc' = "nosqe" /\ UNCHANGED sq

Submit ==
  /\ pc = "submit"
  /\ TakeEntry
  /\ pc' = "submit" \/ (MayStop /\ pc' = "wait")
  /\ UNCHANGED <<tcpVars, batchVars>>

\* variant: the loop waits before everything was submitted
SubmittedEarly ==
  /\ pc = "submit"
  /\ pc' = "wait"
  /\ UNCHANGED <<tcpVars, uringVars, batchVars>>

Submitted ==
  /\ pc = "submit"
  /\ sq = <<>>
  /\ pc' = "wait"
  /\ UNCHANGED <<tcpVars, uringVars, batchVars>>

Peek ==
  /\ pc = "wait"
  /\ cq # <<>>
  /\ nready' = BatchSize
  /\ i' = 0
  /\ pc' = "handle"
  /\ UNCHANGED <<tcpVars, uringVars>>

Handling(event) ==
  /\ pc = "handle"
  /\ i < nready
  /\ cq[i + 1].event = event
  /\ i' = i + 1
  /\ UNCHANGED <<flight, cq, nready>>

\* io_uring_cq_advance frees the completions of the whole batch.
AdvancedOneLess == Free(nready - 1)  \* variant
Advanced == Free(nready)

Advance ==
  /\ pc = "handle"
  /\ i = nready
  /\ Advanced
  /\ nready' = 0
  /\ i' = 0
  /\ pc' = "submit"
  /\ UNCHANGED <<tcpVars, sq, flight>>

Loop == Submit \/ Submitted \/ Peek \/ Advance
=============================================================================
