----------------------------- MODULE PollServer -----------------------------
(***************************************************************************)
(* The server of select_poll/poll.cc.  Its array fds is not initialised,   *)
(* and poll is given all entries from 0 on.                                *)
(***************************************************************************)
EXTENDS Sweep

(***************************************************************************)
(* "noise"    the entries below the listening socket name descriptors for  *)
(*            which poll returns at once                                   *)
(* "garbage"  revents of an entry that poll has not written yet may hold   *)
(*            POLLIN                                                       *)
(* "overlap"  fds[-1] lies over mxfd, as it does without optimisation      *)
(***************************************************************************)
CONSTANT PollFaults  \* what undefined behaviour of the code may do in this build

ASSUME PollAssumption == PollFaults \subseteq {"noise", "garbage", "overlap"}

PollInit ==
  /\ SweepInit
  /\ ready \in SUBSET (IF "garbage" \in PollFaults THEN Fds ELSE {})

\* poll(fds, mxfd + 1, -1) writes revents of those entries only.
Poll ==
  /\ Returned(1)
  /\ Polled # {} \/ "noise" \in PollFaults
  /\ ready' = (ready \ 0..mxfd) \cup Polled

\* revents of the new entry is left as it is.
AddedReady(fd) == Accepted(fd) /\ ready' = ready \cup {fd}  \* variant
PollAdded(fd) == Accepted(fd) /\ UNCHANGED ready

\* fds[-1].fd = -1 and fds[-1].events = POLLIN
PollAddFailed ==
  /\ AcceptFailed
  /\ \/ UNCHANGED mxfd
     \/ "overlap" \in PollFaults /\ mxfd' = Deaf
  /\ pc' = "sweep"
  /\ UNCHANGED watched

PollAccept == NothingToAccept \/ PollAddFailed \/ \E fd \in Fds : PollAdded(fd)

PollMain == Poll \/ PollAccept \/ SweepFds

PollNext == Boot \/ PollMain \/ \E c \in Conns : ClientStep(c)

PollSpec == PollInit /\ [][PollNext]_vars
=============================================================================
