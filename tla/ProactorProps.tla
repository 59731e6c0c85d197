--------------------------- MODULE ProactorProps ---------------------------
(***************************************************************************)
(* What makes the io_uring server correct.                                 *)
(***************************************************************************)
EXTENDS Proactor, UringProps

\* The type of every variable.
TypeOK ==
  /\ TcpTypeOK /\ UringTypeOK /\ LoopTypeOK
  /\ listening \in BOOLEAN /\ dangling \in BOOLEAN
  /\ rbuf \in [Fds -> [1..BufferLength -> Byte]]
  /\ echoed \in [Conns -> Seq(Byte)]
  /\ lost \subseteq done /\ cut \subseteq Conns

-----------------------------------------------------------------------------
(* Safety. *)

\* A client gets back its own bytes, in the order it sent them and each at
\* most once, though kernel and server share the buffer without a lock.
EchoOwnBytesInOrder ==
  \A c \in Conns :
    \A k \in 1..Len(echoed[c]) :
      /\ echoed[c][k][1] = c
      /\ \A j \in 1..(k - 1) : echoed[c][j][2] < echoed[c][k][2]

\* A submission that stopped at an unusable descriptor leaves prepared
\* operations behind; run then never blocks without a completion to wake it.
NoStrandedSubmission == pc = "wait" /\ sq # <<>> => cq # <<>>

\* A connection is closed only when its client has finished and all its bytes
\* were read, and, unless a send to it failed or was cut short, all were echoed.
CloseOnlyAtEnd ==
  [][\A c \in (done' \ done) \ lost' :
       /\ peer[c] \in {"fin", "finrst", "dead"} /\ Avail(c) = 0
       /\ c \notin cut => Len(echoed[c]) = nread[c]]_vars

-----------------------------------------------------------------------------
(* The inductive invariant: the safety properties and what they rest on. *)

\* The n bytes that were read last from the connection of fd are in its
\* rbuffer, and no byte of them was echoed, but all that came before them
\* were, unless a send was cut short.
Held(fd, n) ==
  /\ n <= nread[fdtab[fd]]
  /\ \A k \in 1..n : rbuf[fd][k] = <<fdtab[fd], nread[fdtab[fd]] - n + k>>
  /\ \A k \in 1..Len(echoed[fdtab[fd]]) :
       echoed[fdtab[fd]][k][2] <= nread[fdtab[fd]] - n
  /\ fdtab[fd] \notin cut => Len(echoed[fdtab[fd]]) = nread[fdtab[fd]] - n

\* From the recv of bytes to the send of them nobody else touches them.
BytesHeld ==
  /\ \A k \in 1..Len(sq) : sq[k].event = "WRITE" => Held(sq[k].fd, sq[k].len)
  /\ \A op \in flight : op.event = "WRITE" => Held(op.fd, op.len)
  /\ \A k \in 1..Len(Unhandled) :
       Unhandled[k].event = "READ" /\ Unhandled[k].res > 0 =>
         Held(Unhandled[k].fd, Unhandled[k].res)

EchoedWasRead ==
  \A c \in Conns : \A k \in 1..Len(echoed[c]) : echoed[c][k][2] <= nread[c]

\* While no answer to it is under way, a client has got back all that was
\* read from it, unless a send was cut short.
EchoedWhole ==
  SqNeverFull =>
    \A c \in Conns \ cut : Phase(c) # "answering" => Len(echoed[c]) = nread[c]

IInv ==
  /\ TypeOK
  /\ RingInv
  /\ NoStrandedSubmission
  /\ BytesHeld
  /\ EchoedWasRead
  /\ EchoOwnBytesInOrder
  /\ EchoedWhole

-----------------------------------------------------------------------------
(* The conversation each client has with the server. *)

\* A connection that was dropped unseen has never been admitted.
Stage(c) == IF c \in lost THEN "waiting" ELSE Phase(c)

Talk == INSTANCE Conversation WITH
  phase <- [c \in Conns |-> Stage(c)],
  heard <- nread,
  said <- [c \in Conns |-> Len(echoed[c])],
  broken <- {c \in Conns : Broken(c)}

\* For each client the server takes turns: it reads something new, sends it
\* back once, and reads again.  Only a reset lets a turn pass without bytes.
TakesTurns == Talk!Spec

-----------------------------------------------------------------------------
(* Liveness, under FairSpec. *)

\* A client that reads, once accepted, is always brought to the point where
\* all it has sent was read and answered and the server listens to it again;
\* after it closes, to the point where the server has closed as well.  What may
\* end the server before is the index it makes of a failed accept's error, and
\* the address that init leaves behind.
Served ==
  \A c \in Conns \ Slow :
    FdsOf(c) # {} ~>
      \/ pc = "crashed" \/ c \in done
      \/ peer[c] = "up" /\ nread[c] = sent[c] /\ Phase(c) = "listening"
=============================================================================
