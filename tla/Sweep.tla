-------------------------------- MODULE Sweep --------------------------------
(***************************************************************************)
(* What the servers of select_poll/select.cc and select_poll/poll.cc have  *)
(* in common: one thread that waits for ready descriptors, accepts one     *)
(* connection, and goes over the descriptors in ascending order to echo    *)
(* what it receives, with calls that block.                                *)
(***************************************************************************)
EXTENDS Tcp

CONSTANT
  BufferLength   \* the size of buffer (128)

ASSUME SweepAssumption == BufferLength \in Nat \ {0}

VARIABLES
  pc,       \* where main is; "exited", "killed" or "aborted" if it is no more
  nready,   \* -1 when select has failed, and otherwise 1
  mxfd,     \* the highest descriptor that is waited for and swept
  watched,  \* the descriptors in rfds, or in the entries of fds
  ready,    \* the descriptors in rset, or with POLLIN in revents
  cur,      \* the descriptor the sweep has come to
  count,    \* what recv returned on cur
  echoed    \* history: echoed[c], bytes sent back to c

sweepVars == <<pc, nready, mxfd, watched, ready, cur, count, echoed>>
vars == <<tcpVars, sweepVars>>

Deaf == -1     \* an mxfd below the listening socket
AllFds == Fds \cup {ListenFd}

SweepInit ==
  /\ TcpInit
  /\ pc = "boot"
  /\ nready = 1
  /\ mxfd = ListenFd
  /\ watched = {}
  /\ cur = ListenFd
  /\ count = 0
  /\ echoed = [c \in Conns |-> 0]

\* Bind and Listen exit when they fail.
Boot ==
  /\ pc = "boot"
  /\ \/ pc' = "wait" /\ watched' = {ListenFd}
     \/ pc' = "exited" /\ UNCHANGED watched
  /\ UNCHANGED <<tcpVars, nready, mxfd, ready, cur, count, echoed>>

\* What select and poll find readable.
ReadyToRead(fd) ==
  IF fd = ListenFd THEN backlog # <<>>
                   ELSE fdtab[fd] # NoConn /\ Readable(fdtab[fd])

Polled == {fd \in watched : fd <= mxfd /\ ReadyToRead(fd)}

\* select or poll returns.  The servers do not look at what it returns.
Returned(result) ==
  /\ pc = "wait"
  /\ nready' = result
  /\ pc' = "accept"
  /\ cur' = ListenFd
  /\ UNCHANGED <<tcpVars, mxfd, watched, count, echoed>>

-----------------------------------------------------------------------------
(* The listening socket. *)

NothingToAccept ==
  /\ pc = "accept"
  /\ ListenFd \notin ready
  /\ pc' = "sweep"
  /\ UNCHANGED <<tcpVars, nready, mxfd, watched, ready, cur, count, echoed>>

\* mxfd = std::max(mxfd, clientfd)
RaisedOrLowered(fd) == fd  \* variant: mxfd follows the last descriptor
Raised(fd) == IF fd > mxfd THEN fd ELSE mxfd

\* accept waits when no connection does.
Accepted(fd) ==
  /\ pc = "accept"
  /\ ListenFd \in ready
  /\ AcceptConn(fd)
  /\ watched' = watched \cup {fd}
  /\ mxfd' = Raised(fd)
  /\ pc' = "sweep"
  /\ UNCHANGED <<peer, sent, nread, unread, done, nready, cur, count, echoed>>

\* Accept turns every error of accept into -1: that no descriptor is left, or
\* a shortage of files or of memory.  The connection stays in the queue.
AcceptFailed ==
  /\ pc = "accept"
  /\ ListenFd \in ready
  /\ UNCHANGED <<tcpVars, nready, ready, cur, count, echoed>>

Shortage == AcceptFailed /\ FreeFds # {}

-----------------------------------------------------------------------------
(* The sweep. *)

Remaining == {fd \in ready : cur < fd /\ fd <= mxfd}

AtEndIfShort(cnt) == cnt >= 0 /\ cnt < BufferLength  \* variant
AtEnd(cnt) == cnt = 0

UnwatchNothing(fd) == UNCHANGED watched  \* variant
Unwatch(fd) == watched' = watched \ {fd}

\* recv waits when the descriptor is not readable; it fails on one that is not
\* open, as send does.
RecvOn(fd, cnt) ==
  \/ fdtab[fd] # NoConn /\ Recv(fdtab[fd], BufferLength, cnt)
  \/ fdtab[fd] = NoConn /\ cnt = -1 /\ UNCHANGED <<peer, nread>>

SendOn(fd, res) ==
  \/ fdtab[fd] # NoConn /\ Send(fdtab[fd], res)
  \/ fdtab[fd] = NoConn /\ res = "closed" /\ UNCHANGED <<peer, unread>>

\* An error (-1) is, as a length, handed to send.
Receive ==
  /\ pc = "sweep"
  /\ \E fd \in Remaining, cnt \in -1..BufferLength :
       /\ \A g \in Remaining : fd <= g
       /\ RecvOn(fd, cnt)
       /\ cur' = fd
       /\ \/ AtEnd(cnt) /\ CloseFd(fd) /\ Unwatch(fd) /\ UNCHANGED <<pc, count>>
          \/ /\ ~AtEnd(cnt)
             /\ pc' = "send"
             /\ count' = cnt
             /\ UNCHANGED <<fdtab, done, watched>>
  /\ UNCHANGED <<sent, unread, backlog, nready, mxfd, ready, echoed>>

\* send waits for room.  Its result is not looked at.
SendBack ==
  /\ pc = "send"
  /\ \E res \in {"sent", "reset", "pipe", "closed"} :
       /\ SendOn(cur, res)
       /\ pc' = IF res = "pipe" THEN "killed" ELSE "sweep"
       /\ echoed' = IF res = "sent" THEN [echoed EXCEPT ![fdtab[cur]] = @ + count]
                                    ELSE echoed
  /\ count' = 0
  /\ UNCHANGED <<sent, nread, backlog, fdtab, done, nready, mxfd, watched, ready, cur>>

SweepDone ==
  /\ pc = "sweep"
  /\ Remaining = {}
  /\ pc' = "wait"
  /\ UNCHANGED <<tcpVars, nready, mxfd, watched, ready, cur, count, echoed>>

SweepFds == Receive \/ SendBack \/ SweepDone

Running == pc \notin {"boot", "exited", "killed", "aborted"}

ClientStep(c) == Running /\ Client(c) /\ UNCHANGED sweepVars
ReaderStep(c) == Running /\ ClientRead(c) /\ UNCHANGED sweepVars
=============================================================================
