----------------------------- MODULE UringProps -----------------------------
(***************************************************************************)
(* What makes the loop of the io_uring servers correct: one operation at a *)
(* time carries every descriptor on, and one accept is always under way.   *)
(***************************************************************************)
EXTENDS UringLoop

OpenFds == {fd \in Fds : fdtab[fd] # NoConn}
FdsOf(c) == {fd \in Fds : fdtab[fd] = c}

\* The completions the server has not handled yet.
Unhandled == SubSeq(cq, i + 1, Len(cq))

\* While the server runs there is always exactly one accept: prepared, in
\* flight, or completed and about to be prepared again.
AcceptArmed == Running => Accepts(Unhandled) = 1

\* An open descriptor is carried on by one operation, so that nothing else
\* uses its buffer meanwhile; a closed one by none.  Only a connection whose
\* reset was reported to a recv is left without, and open for good.
OneChainPerDescriptor ==
  Running =>
    \A fd \in Fds :
      \/ fd \in OpenFds /\ Carriers(fd, Unhandled) = 1
      \/ fd \in OpenFds /\ Carriers(fd, Unhandled) = 0 /\ peer[fdtab[fd]] = "dead"
      \/ fd \notin OpenFds /\ Carriers(fd, Unhandled) = 0

\* Descriptors are closed while other completions of the batch wait, and
\* accept hands the numbers out again meanwhile; still no operation and no
\* completion is ever taken for one of another connection.
CompletionsFresh ==
  /\ \A op \in flight : op.fd \in Fds => op.conn = fdtab[op.fd]
  /\ \A k \in 1..Len(Unhandled) :
       LET e == Unhandled[k] IN
       e.event # "ACCEPT" /\ e.fd \in Fds => e.conn = fdtab[e.fd]

\* A round prepares at most one entry more than it takes completions, and
\* twice that when a submission stopped early; the ring never runs full.
SqNeverFull == pc # "nosqe"

\* Nor does the completion ring, although a recv on no descriptor follows
\* each accept that fails: it holds at most one completion for every
\* descriptor, the accept's, and two of those, the batch being handled
\* included.
CqNeverFull == Len(cq) <= MaxFd + 3
RingsNeverFull == SqNeverFull /\ CqNeverFull

-----------------------------------------------------------------------------
(* The inductive invariant: the properties above and what they rest on. *)

Dormant == pc = "boot" => OpenFds = {} /\ sq = <<>> /\ flight = {} /\ cq = <<>>

\* The completions of the batch stay in the ring until it is advanced.
BatchHeld == nready <= Len(cq) /\ (pc # "handle" /\ Running => nready = 0)

\* A connection is idle, then waiting for accept, then named by one
\* descriptor, then closed for good.
Ownership ==
  /\ \A fd \in OpenFds :
       /\ fdtab[fd] \notin done /\ peer[fdtab[fd]] # "idle"
       /\ \A other \in OpenFds : fdtab[other] = fdtab[fd] => other = fd
  /\ \A j \in 1..Len(backlog) :
       /\ backlog[j] \notin done /\ peer[backlog[j]] # "idle"
       /\ \A fd \in Fds : fdtab[fd] # backlog[j]
       /\ \A k \in 1..Len(backlog) : backlog[k] = backlog[j] => k = j
  /\ \A c \in done : peer[c] # "idle"

\* What a recv has reported of the end of a connection stays true: nothing
\* comes after it.
EndsStand ==
  \A k \in 1..Len(Unhandled) :
    LET e == Unhandled[k] IN
    e.event = "READ" /\ e.fd \in Fds =>
      /\ e.res < 0 => peer[e.conn] = "dead"
      /\ e.res = 0 => peer[e.conn] \in {"fin", "finrst", "dead"} /\ Avail(e.conn) = 0

RingInv ==
  /\ TcpTypeOK /\ UringTypeOK /\ LoopTypeOK
  /\ IsFiniteSet(flight)
  /\ Dormant
  /\ BatchHeld
  /\ Ownership
  /\ CompletionsFresh
  /\ EndsStand
  /\ AcceptArmed
  /\ OneChainPerDescriptor

-----------------------------------------------------------------------------
(* How much of the submission ring is in use while the socket listens.     *)

BadAt(k) == sq[k].fd = BadFd

\* A recv on an unusable descriptor may end a submission.  There is at most
\* one, since there is one accept, and behind it is less than a batch.
OneBadEntry ==
  \A k \in 1..Len(sq) :
    BadAt(k) => /\ sq[k].event = "READ"
                /\ pc # "wait"
                /\ pc = "handle" => Count(sq, AcceptSqes) = 1
                /\ \A j \in 1..Len(sq) : BadAt(j) => j = k
                /\ Len(sq) - k + (nready - i) < CqBatch

\* What a submission has left over and what the batch still adds; the accept
\* adds one more than the other completions, if it was not handled yet.
RoomForBatch ==
  /\ pc = "wait" => Len(sq) < CqBatch
  /\ pc = "handle" =>
       Len(sq) + (nready - i) + (1 - Count(sq, AcceptSqes)) <= 2 * CqBatch

RoomInv == OneBadEntry /\ RoomForBatch

-----------------------------------------------------------------------------
(* How much of the completion ring is in use.                              *)

\* The recvs on no descriptor, which follow the accepts that failed.
BadRecvSqes == {e \in RecvSqes : e.fd = BadFd}
BadRecvs == Count(sq, BadRecvSqes) + Count(Unhandled, BadRecvCqes)

\* The elements behind the k-th.
Behind(s, k) == SubSeq(s, k + 1, Len(s))

\* What was prepared before the accept is handled before it, so that when it
\* fails once more the recv prepared with it last time is the only other one.
FewBadRecvs ==
  Running =>
    /\ BadRecvs <= 2
    /\ \A k \in 1..Len(sq) :
         sq[k] \in AcceptSqes => Count(Behind(sq, k), BadRecvSqes) <= 1
    /\ flight \cap AcceptOps # {} => Count(sq, BadRecvSqes) <= 1
    /\ \A k \in 1..Len(Unhandled) :
         Unhandled[k] \in AcceptCqes =>
           Count(sq, BadRecvSqes) + Count(Behind(Unhandled, k), BadRecvCqes) <= 1

\* What is handled in a round is not submitted before the next, when the
\* completions of the batch are gone.
CqRoom == Len(cq) + Cardinality(flight) <= MaxFd + 3

CqInv == FewBadRecvs /\ CqRoom

-----------------------------------------------------------------------------
(* Where the conversation with a client stands: the server listens while a *)
(* recv is under way, and answers until the send has completed.            *)

Owes(fd) == Answering(fd, Unhandled)

Phase(c) ==
  CASE c \in done -> "over"
    [] c \notin done /\ FdsOf(c) = {} -> "waiting"
    [] c \notin done /\ \E fd \in FdsOf(c) : Owes(fd) -> "answering"
    [] OTHER -> "listening"
=============================================================================
