----------------------------- MODULE CUringProps -----------------------------
(***************************************************************************)
(* What makes the single-file io_uring server correct, and what one buffer *)
(* for all clients breaks.                                                 *)
(***************************************************************************)
EXTENDS CUring, UringProps

\* The type of every variable.
TypeOK ==
  /\ TcpTypeOK /\ UringTypeOK /\ LoopTypeOK
  /\ sockfd \in {ListenFd, BadFd}
  /\ buffer \in [1..BufferLength -> Conns \cup {Text, Blank}]
  /\ answers \in [Conns -> 0..MaxSend]
  /\ authors \in [Conns -> SUBSET (Conns \cup {Text, Blank})]

-----------------------------------------------------------------------------
(* Safety. *)

\* There is always one accept, even when the socket is not one: main then
\* spins on errors, each round leaves entries behind for the next submission,
\* and still neither ring runs full.
AlwaysArmed == RingsNeverFull /\ AcceptArmed

\* What a client is sent was formatted by main, or read from another client
\* since: never its own request, since it is not read while it is answered.
NeverOwnRequest == \A c \in Conns : authors[c] \cap {c, Blank} = {}

-----------------------------------------------------------------------------
(* The inductive invariant: the safety properties and what they rest on. *)

\* There is an answer for everything that was read but not answered yet, and
\* it is nothing the client itself has written.
Due(fd) == answers[fdtab[fd]] < nread[fdtab[fd]]
NotOwn(fd) == \A k \in 1..ResponseLength : buffer[k] \notin {fdtab[fd], Blank}

AnswersDue ==
  /\ \A k \in 1..Len(sq) :
       sq[k].event = "WRITE" =>
         Due(sq[k].fd) /\ NotOwn(sq[k].fd) /\ sq[k].len = ResponseLength
  /\ \A op \in flight :
       op.event = "WRITE" => Due(op.fd) /\ NotOwn(op.fd) /\ op.len = ResponseLength
  /\ \A k \in 1..Len(Unhandled) :
       Unhandled[k].event = "READ" /\ Unhandled[k].res > 0 => Due(Unhandled[k].fd)

AnsweredWasRead == \A c \in Conns : answers[c] <= nread[c]

IInv ==
  /\ TypeOK
  /\ RingInv
  /\ AnswersDue
  /\ AnsweredWasRead
  /\ NeverOwnRequest

\* Without a socket everything fails at once, and a round prepares an accept
\* and a recv at most: at most one recv is left over when the next begins.
Spinning ==
  /\ flight = {}
  /\ \A k \in 1..Len(sq) :
       /\ sq[k].fd = BadFd
       /\ sq[k].event = "ACCEPT" => Len(sq) - k <= 1
  /\ \A k \in 1..Len(Unhandled) :
       \/ Unhandled[k].event = "ACCEPT" /\ Unhandled[k].res = -1
       \/ Unhandled[k].event = "READ" /\ Unhandled[k].fd = BadFd
  /\ Len(sq) <= 3
  /\ Count(sq, AcceptSqes) = 0 => Len(sq) <= 1

SqInv == IF sockfd = ListenFd THEN RoomInv ELSE Spinning

-----------------------------------------------------------------------------
(* The conversation each client has with the server. *)

Talk == INSTANCE Conversation WITH
  phase <- [c \in Conns |-> Phase(c)],
  heard <- nread,
  said <- answers,
  broken <- {c \in Conns : Broken(c)}

\* For each client the server takes turns: it reads something new, answers
\* once, and reads again, whatever the answer holds.
TakesTurns == Talk!Spec

-----------------------------------------------------------------------------
(* Liveness, under FairSpec. *)

\* Whenever a client that reads has sent something, all it has sent will have
\* been read and answered, and the server listens to it again or has closed;
\* after it closes the server closes as well.
AnsweredAndReleased ==
  \A c \in Conns \ Slow :
    /\ sent[c] > 0 ~> /\ nread[c] = sent[c] /\ answers[c] > 0
                     /\ Phase(c) \in {"listening", "over"}
    /\ peer[c] = "fin" ~> c \in done

-----------------------------------------------------------------------------
(* What the code says of its answers. *)

\* c_io_uring.cc:158: an answer is the text that main formats.
AnswersAreHttp == \A c \in Conns : authors[c] \subseteq {Text}
=============================================================================
