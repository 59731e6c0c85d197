----------------------------- MODULE SelectProps -----------------------------
(* What makes the select server correct, besides what it shares with poll's. *)
EXTENDS SelectServer, SweepProps

\* rfds holds exactly the open descriptors, but for the bit that FD_SET(-1)
\* sets: no closed descriptor is left in it, and no open one is lost from it.
WatchedExact == Running => Watches({StrayFd})

-----------------------------------------------------------------------------
(* Liveness, under SelectFairSpec. *)

StuckOnSlow == pc = "send" /\ fdtab[cur] \in Slow

\* exit, __fortify_fail, and SIGPIPE, which only a client that has reset causes.
Ended ==
  \/ pc \in {"exited", "aborted"}
  \/ pc = "killed" /\ fdtab[cur] \in Abortive

Served ==
  <>[](\A c \in Conns : peer[c] # "up") =>
    \A c \in Conns \ (Slow \cup Abortive) :
      peer[c] = "up" ~> Ended \/ (c \in done /\ echoed[c] = sent[c])

\* Unless the server waits for good to send to a client that does not read, or
\* select has failed because of the bit of a failed accept, or accept fails
\* again and again although descriptors are free: a client that reads and does
\* not reset gets back all it sent and is released when it closes, if every
\* client that connects closes in the end, and the server lives.  They may come
\* in need of more descriptors than there are.
ServedUnlessStuck ==
  \/ <>[]StuckOnSlow
  \/ <>(nready = -1)
  \/ []<><<Shortage>>_vars
  \/ Served
=============================================================================
