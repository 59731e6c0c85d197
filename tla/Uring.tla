------------------------------- MODULE Uring -------------------------------
(***************************************************************************)
(* io_uring as the servers use it through liburing: a submission ring that *)
(* the process fills, operations that the kernel has taken and completes   *)
(* in any order, and a completion ring that the process frees.  Library    *)
(* and kernel are not part of the repository.                              *)
(***************************************************************************)
EXTENDS Tcp

CONSTANTS
  SqEntries,     \* ENTRIES_LENGTH, the submission ring (1024)
  CqBatch,       \* the completions taken in one round (128)
  BufferLength   \* BUFFER_LENGTH, the length of every recv (1024)

ASSUME UringAssumption ==
  /\ SqEntries \in Nat \ {0}
  /\ CqBatch \in Nat \ {0}
  /\ BufferLength \in Nat \ {0}

VARIABLES
  sq,         \* submission ring: prepared and not yet taken by the kernel
  flight,     \* operations the kernel has taken and not yet completed
  cq          \* completion ring

uringVars == <<sq, flight, cq>>

AllFds == Fds \cup {ListenFd}
BadFd == -1  \* and every -errno that a completion may carry

\* event and fd are the conn_info that user_data carries to the completion.
Sqe(event, fd, len) == [event |-> event, fd |-> fd, len |-> len]

\* conn is history: the connection the operation was submitted for.
Op(sqe) ==
  [event |-> sqe.event, fd |-> sqe.fd, len |-> sqe.len,
   conn |-> IF sqe.fd \in Fds THEN fdtab[sqe.fd] ELSE NoConn]

Cqe(op, res) ==
  [event |-> op.event, fd |-> op.fd, conn |-> op.conn, res |-> res]

\* Entries, operations and completions of each kind.  An error of accept is
\* used as a descriptor, which then fails: only accept and recv meet that.
AcceptSqes == [event : {"ACCEPT"}, fd : {ListenFd, BadFd}, len : {0}]
RecvSqes == [event : {"READ"}, fd : Fds \cup {BadFd}, len : {BufferLength}]
SendSqes == [event : {"WRITE"}, fd : Fds, len : 1..BufferLength]
Sqes == AcceptSqes \cup RecvSqes \cup SendSqes

AcceptOps == [event : {"ACCEPT"}, fd : {ListenFd}, len : {0}, conn : {NoConn}]
RecvOps == [event : {"READ"}, fd : Fds, len : {BufferLength}, conn : Conns]
SendOps == [event : {"WRITE"}, fd : Fds, len : 1..BufferLength, conn : Conns]
Ops == AcceptOps \cup RecvOps \cup SendOps

AcceptCqes == [event : {"ACCEPT"}, fd : {ListenFd, BadFd}, conn : {NoConn},
               res : Fds \cup {-1}]
RecvCqes == [event : {"READ"}, fd : Fds, conn : Conns, res : -1..BufferLength]
BadRecvCqes == [event : {"READ"}, fd : {BadFd}, conn : {NoConn}, res : {-1}]
SendCqes == [event : {"WRITE"}, fd : Fds, conn : Conns, res : -1..BufferLength]
Cqes == AcceptCqes \cup RecvCqes \cup BadRecvCqes \cup SendCqes

UringTypeOK == sq \in Seq(Sqes) /\ flight \subseteq Ops /\ cq \in Seq(Cqes)

UringInit == sq = <<>> /\ flight = {} /\ cq = <<>>

-----------------------------------------------------------------------------
(* Calls of the process. *)

\* io_uring_get_sqe: NULL when the ring has no room.
SqFull(sqes) == Len(sq) + Len(sqes) > SqEntries
Queue(sqes) == ~SqFull(sqes) /\ sq' = sq \o sqes

\* io_uring_submit takes the entries in order.  One with an unusable
\* descriptor completes with an error at once, and may end the submission.
TakeEntry ==
  /\ sq # <<>>
  /\ LET op == Op(Head(sq)) IN
     \/ /\ op.fd \in AllFds
        /\ flight' = flight \cup {op}
        /\ UNCHANGED cq
     \/ /\ op.fd = BadFd
        /\ cq' = Append(cq, Cqe(op, -1))
        /\ UNCHANGED flight
  /\ sq' = Tail(sq)

MayStop == Head(sq).fd = BadFd

\* io_uring_peek_batch_cqe
BatchSize == IF Len(cq) < CqBatch THEN Len(cq) ELSE CqBatch

\* io_uring_cq_advance
Free(n) == cq' = SubSeq(cq, n + 1, Len(cq))

-----------------------------------------------------------------------------
(* The kernel completes an operation in flight. *)

Complete(op, res) ==
  /\ flight' = flight \ {op}
  /\ cq' = Append(cq, Cqe(op, res))

\* The descriptor is allocated first, so that accept fails without one even
\* when nobody waits.
CompleteAccept(op) ==
  \/ \E fd \in Fds : AcceptConn(fd) /\ Complete(op, fd)
  \/ FreeFds = {} /\ Complete(op, -1) /\ UNCHANGED <<backlog, fdtab>>

CompleteRecv(op, cnt) == Recv(op.conn, op.len, cnt) /\ Complete(op, cnt)

\* A send that takes the last room of the send buffer may be short.
SendLengths(op) ==
  IF unread[op.conn] + 1 = SndRoom THEN 1..op.len ELSE {op.len}

CompleteSend(op, n) ==
  \/ n \in SendLengths(op) /\ Send(op.conn, "sent") /\ Complete(op, n)
  \/ /\ n = 0
     /\ \E res \in {"reset", "pipe"} : Send(op.conn, res)
     /\ Complete(op, -1)

-----------------------------------------------------------------------------
(* Where operations are; pending are the completions not handled yet. *)

Count(seq, S) == Cardinality({k \in 1..Len(seq) : seq[k] \in S})

\* How many accepts there are, anywhere between the two rings.
Accepts(pending) ==
  Count(sq, AcceptSqes) + Cardinality(flight \cap AcceptOps)
  + Count(pending, AcceptCqes)

\* How many operations carry the descriptor fd on: the accept that returned
\* it, or a recv or send on it.
SqesOn(fd) == {e \in Sqes : e.fd = fd}
OpsOn(fd) == {op \in Ops : op.fd = fd}
CqesOn(fd) == {e \in Cqes : fd = IF e.event = "ACCEPT" THEN e.res ELSE e.fd}

Carriers(fd, pending) ==
  Count(sq, SqesOn(fd)) + Cardinality(flight \cap OpsOn(fd))
  + Count(pending, CqesOn(fd))

\* A request was read from fd and its answer was not sent yet.
Answering(fd, pending) ==
  \/ \E k \in 1..Len(sq) : sq[k].fd = fd /\ sq[k].event = "WRITE"
  \/ \E op \in flight : op.fd = fd /\ op.event = "WRITE"
  \/ \E k \in 1..Len(pending) :
       /\ pending[k].fd = fd
       /\ pending[k].event = "READ"
       /\ pending[k].res > 0
=============================================================================
