---------------------------- MODULE SelectServer ----------------------------
(* The server of select_poll/select.cc. *)
EXTENDS Sweep

CONSTANTS
  StrayFd,      \* the bit that FD_SET(-1) sets (63 on x86-64)
  SelectFaults  \* what FD_SET(-1) may do in this build

ASSUME SelectAssumption == StrayFd \in Nat /\ SelectFaults \subseteq {"abort"}

SelectInit == SweepInit /\ ready = {}

\* A bit of a descriptor that is not open makes select fail (EBADF).
Unusable == {fd \in watched : fd \in FreeFds /\ fd <= mxfd}

\* rset = rfds; select(mxfd + 1, &rset, ...)
SelectSucceeds ==
  /\ Returned(1)
  /\ Unusable = {}
  /\ Polled # {}
  /\ ready' = Polled

\* rset stays the copy of rfds.
SelectFails ==
  /\ Returned(-1)
  /\ Unusable # {}
  /\ ready' = watched

Select == SelectSucceeds \/ SelectFails

\* variant: the new descriptor goes into rset as well
AddedToRset(fd) == Accepted(fd) /\ ready' = ready \cup {fd}
SelectAdded(fd) == Accepted(fd) /\ UNCHANGED ready

\* FD_SET(-1), which _FORTIFY_SOURCE refuses.
SelectAddFailed ==
  /\ AcceptFailed
  /\ \/ /\ watched' = watched \cup ({StrayFd} \cap Fds)
        /\ pc' = "sweep"
     \/ /\ "abort" \in SelectFaults
        /\ pc' = "aborted"
        /\ UNCHANGED watched
  /\ UNCHANGED mxfd

SelectAccept == NothingToAccept \/ SelectAddFailed \/ \E fd \in Fds : SelectAdded(fd)

SelectMain == Select \/ SelectAccept \/ SweepFds

SelectNext == Boot \/ SelectMain \/ \E c \in Conns : ClientStep(c)

SelectSpec == SelectInit /\ [][SelectNext]_vars

(***************************************************************************)
(* main never stops, and the clients that are not Slow read what they are  *)
(* sent.  An accept that finds a free descriptor need not fail.            *)
(***************************************************************************)
SelectSteady ==
  \/ Select \/ NothingToAccept \/ SweepFds
  \/ SelectAddFailed /\ FreeFds = {}
  \/ \E fd \in Fds : SelectAdded(fd)

SelectFairness ==
  WF_vars(SelectSteady) /\ \A c \in Conns \ Slow : WF_vars(ReaderStep(c))

SelectFairSpec == SelectSpec /\ SelectFairness
=============================================================================
